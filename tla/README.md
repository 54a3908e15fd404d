# ArticleTrace in TLA+

TLA+ modules for ArticleTrace: the orchestrator's scan service, the code analyzer
it runs, the agents that enrich its result and the control plane over them; the
browser page that watches a scan; and the knowledge engine they ask, as a service
(retrieval and reasoning) and as data (extraction from the legal texts, loading,
backup and restore). TLC checks small instances of every module; TLAPS proves every
safety property of every component for all values of the constants, the one
refinement included, and leaves liveness to TLC. Paths below are relative to the
repository; `orc` stands for `src/orchestrator/src`.

## 1. The system

ArticleTrace scans a Git repository for EU AI Act obligations. A client POSTs a
repository to the orchestrator (FastAPI). The POST stores a `queued` record and
answers 202; a background task of the same response then clones the repository,
runs six static scanners and up to two LLM passes over it, stores the profile,
and, when asked to, runs a graph of agents that classify the risk, look up the
law in the knowledge engine and write a narrative. Clients poll `GET` endpoints.

| Component | State | Operations | Talks to | Hard behaviour |
|---|---|---|---|---|
| Scan service: `orc/api`, `orc/database` | the `scans` table, the memory store, the process-wide flag `_db_available`, `_LOCK`, the connection pool | POST, four GETs, the background task, start-up | Postgres, analyzer, agents | coroutines interleave at every await; two stores; outages, restarts, commits that land and then raise; a pool smaller than its demand |
| Agents: `orc/agents` | `ScanState` while the graph runs | classify, research, narrate, synthesize | knowledge engine (HTTP), LLM, cost tracker | concurrent lookups that fail one by one; a node that raises; the check and the charge of the budget lie on two sides of an await |
| Cost tracker: `orc/utils/cost_tracker.py` | spend by day and session | `can_proceed`, `add_cost` | agents | shared by all scans |
| Code analyzer: `orc/code_analyzer` | `ctx.shared`, findings, profile | six scanners, surface review, triage, profile | LLM | scanners depend on each other's notes; each may raise; LLM replies lost, short or garbled; caps |
| Ingest: `orc/code_analyzer/ingest.py` | a temporary clone | clone, retry, list files, clean up | git | a clone that hangs |
| Control plane: `orc/control_plane` | sliding windows, decision log | `authorize_action` | cost tracker; no caller in the running system | a list pruned at every check must still bound every hour; refusals must not count as calls |
| Session cache: `orc/cache` | Redis hashes with a TTL | get, update, extend | Redis | read-modify-write across an await |
| Frontend: `src/frontend` | page state, timers | submit, poll, show | orchestrator (HTTP) | polls that overlap and overtake each other; a status read off a list, a report asked for on its word |
| Knowledge extraction: `src/knowledge_engine/scripts` 01 to 03f, `parsers`, `extractors` | the files under `parsed_data/` | parse, extract (seven scripts), validate (two) | the loads, through files | scripts run in any order, again, or killed half-way; files of different corpora next to each other; lists of files kept by hand in two places |
| Knowledge engine as data: `src/knowledge_engine/scripts` 02 to 11, `stores` | Neo4j, vector and keyword indexes, dump files | load, embed, back up, restore | Neo4j | scripts that die between batches and are run again, retried transactions, a dump taken while a load runs, damaged files |
| Knowledge engine as a service: `src/knowledge_engine/src/api`, `retrieval` | the store and engines built at start-up | search, reason, vector search, resolve, traverse, health | Neo4j, embedding API, LLM | the graph changes between two queries of one request; arms that fail one by one; a reply that cites what does not exist |

What makes each of them correct:

- **Scan service.** An acknowledged scan keeps its record in one store; its
  status moves forward along queued, running, completed or failed; `completed`
  means that the data is there; every task ends; every connection comes back.
- **Agents.** One record for each rule that has findings, whichever lookups fail;
  a run returns all of its results or none; the daily limit holds as far as the
  code can make it hold.
- **Code analyzer.** No route or finding is lost or invented by the LLM passes;
  the LLM can only make a result quieter; severe categories rest on evidence in
  deployed code; findings about AI need AI.
- **Extraction.** A script that has been run again has mended what a killed or
  outdated run left; only relationships that the code names itself may lead to
  nothing; what a validator has passed, the load takes without a skip; half an
  extraction is not taken for one.
- **Knowledge graph.** A load can be repeated whatever died before it; embeddings,
  which cost money, outlive reloads; a dump that verifies itself is whole; a restore
  that reports success has put back what was dumped.
- **Retrieval.** What more arms agree on ranks no lower; the regulation filter
  holds where it is applied; an answer of HIGH confidence rests on retrieved articles;
  a service that calls itself healthy answers.
- **Control plane.** In no hour does an agent get more calls through than its policy
  allows, and it gets its calls back.
- **Frontend.** The page comes to show the report of its scan and keeps showing
  it; what switches the service to another store has a cause that can be named.

## 2. Modules

```
ScanLifecycle  <-- ImplementsLifecycle --  ScanService  <-- ScanServiceProofs
                                            |  RunScan   : one run of ScanPipeline
                                            |  Supervise : one run of SupervisorWorkflow
                                            ^
ScanPage  -- EXTENDS ScanService -----------+   the page polls, the service answers;
                                                ScanServiceProofs is about both

ConnectionPool  <-- ConnectionPoolProofs   the same coroutines, seen from the pool and _LOCK
ScanPipeline  <-- MCScanPipeline, ScanPipelineProofs
SupervisorWorkflow  <-- SupervisorWorkflowProofs
Extraction  <-- MCExtraction, ExtractionProofs
GraphLoading  <-- KnowledgeBackup  <-- MCKnowledgeBackup, KnowledgeBackupProofs
GraphQueries  <-- Retrieval  <-- MCRetrieval, RetrievalProofs
Governance  <-- MCGovernance, GovernanceProofs
```

The modules divide the code along its own seams. What one takes as a single
step (`RunScan`, `Supervise`) touches nothing of the service's state in the code
either: `_sync_scan` runs in a worker thread on its own data and
`supervisor.execute` on a copy of the state, and each returns once. PROJECT.json
maps each definition to its lines.

### ScanService

`_run_scan_task` and the POST that starts it are one coroutine, because
Starlette runs the background task inside the response and FastAPI (0.133.0 in
`orchestrator/uv.lock`) leaves a dependency that yields only afterwards. `pc[s]`
says which await it has reached. `rows` and `memory` are the two stores,
`reqSession` and `taskSession` the sessions of the request and of its task, each
`none` (the repository works on the memory store), `free` (its next statement has to
check a connection out of the pool), `held` (it has one), or `lost` (its
transaction's connection has died).

| Code | Action |
|---|---|
| `get_db` up to `yield` (`session.py`) | `PostEnter` |
| `create_scan`, `ScanRepository.create` | `CreateRecord` |
| `_run_scan_task`, the flag read again | `OpenTask` |
| its updates | `MarkRunning`, `SaveProfile`, `SaveOutcome`, `FinishPlain` |
| `_sync_scan`, `supervisor.execute` | `RunScan`, `Supervise` |
| its except block | `RecordFailure` |
| `get_db` after `yield` | `ExitRequest` |
| the GET handlers | `Get`, `GetLate`: only what they do to the flag is state |
| `lifespan`, the process stopping | `Init`, `Restart` |
| Postgres | `DbDown`, `DbBack` |

A write has four outcomes: it lands; it raises; it lands and the `refresh` after the
commit raises, for want of a connection or of Postgres (torn); or it waits too long for
a connection while Postgres is up (late), which only a session that holds none
can. `refresh` leaves the session with a connection, so past its first update the
task waits again only in a `refresh` or, after an exception, in the except block.
The insert of a long `ref` is refused (`LongRefs`): the column takes 100 characters
(`models.py:31`) and `ScanRequest` checks nothing. `get_db` takes each of these for
an outage, and a 404 too; `"wrong"` requests are those that no scan can satisfy. The pool
itself is left to ConnectionPool; here others may keep it busy at any
time, `MaxTimeouts` times. A record keeps its status, step and which parts are
filled in.

`ScanLifecycle` is the abstract specification: one status per scan, whether its
record is durable, and the five moves a reader may observe. `ScanService`
implements it under the mapping `Status`.

### ConnectionPool

The same handlers with a Postgres that never goes away, as users of a pool of
`capacity` connections. `refresh` follows every commit in the repository and
checks a connection out again, so a request holds one connection until its
background task is over while the task needs a second one. A checkout that finds
the pool exhausted waits (the action is disabled) or times out (`Refuse`,
`TaskTimeout`, `ReadTimeout`). What `get_db` mistakes for an outage without any
waiting is here too, a read that ends in a 404 (`ReadNotFound`) and the insert of a long
`ref` (`RefuseLongRef`), and is remembered in `misled`. `_LOCK` is the set of its
holders.

With a pool no larger than the number of scans the life cycle of `SYSTEM.md:118`
does not hold: two POSTs on a pool of two hold both connections, both tasks time out
on their second one, and the rows stay `queued`. That is why
`AmplePoolServes` asks for two connections per scan and one per reader. Then no
checkout times out, the flag falls only to a 404 or a refused `ref`, and those
strand a scan only while its row is still `queued`.

### ScanPage

A browser tab: the form that submits (`app/page.tsx`) and the page of a scan
(`app/scans/[id]/page.tsx`), in front of ScanService, which it extends: `CreateScan`,
`Serve` and `RestartServer` are the service's actions with what the tab sees of
them. A `load` of the page is two requests, for the
list and then, if the list says `completed` or `failed`, for the report. A tick
of the timer or a change of status starts another, and nothing cancels one that is
under way.

| Code | Action |
|---|---|
| `submit`, the POST answered or not | `Submit`, `PostAnswered` |
| `load` started by the effect or the timer | `Poll` |
| `list_scans`, `get_report` answering | `Answer`; a 404 is the service's `Get`, which clears the flag |
| a request of the page that waits too long for a connection | `AnswerLate`, the service's `GetLate` |
| the two `await`s of `load` that return, its catch | `StatusArrives`, `ReportArrives`, `LoadFails` |
| the rest of the service | `CreateScan`, `Serve`, `RestartServer` |

The list is sorted by `started_at` and cut after `Limit` scans (50 in the code).
Outages while the service runs are left to `scan_service`; what the tab sees of
them, an answer that does not come, is produced by restarts.

### SupervisorWorkflow

The LangGraph graph of `supervisor.py`, node by node; the bounded concurrent
lookups of `legal_research.py` (`Ask`, `Answer`, and `Collect` or `LoseClient`
for the two ends of the gather); `invoke_llm` with its check (`Call`, `Refused`)
and its charge (`Reply`, `ReplyLost`) as two steps around the awaited call. Scans
share only `daily`, the spend recorded under today's date. The limit per session
is left out: one scan makes one call.

### ScanPipeline and MCScanPipeline

One scan, step by step in the fixed order of `scan.py`. A repository is what the
scanners can read off its files (`FileType`): place, readability, imports,
declarations, routes, words. Parsing, regular expressions and excerpts are left
out, but what makes a scanner raise is kept: a syntax tree nested too deep, and an
entry of the suppression list that is not a mapping. A raising scanner loses its
findings while its notes in `ctx.shared` stay. The catalog's severities, base
confidences and dampeners are the numbers of `rules/*.yml`, confidences in
thousandths, with the code's rounding (a half of a hundredth goes the way the
floating-point product goes, `TiesDown`). `MCScanPipeline` defines the files, the
suppression lists and the verdicts to check with. The posture (`Category`,
`Score`) is `risk_classifier.py`.

### Extraction

The files of `parsed_data/` and the scripts that write, judge and read them. The
operator runs one script after another, in any order; `Data/` may change between
two of them; a script may be killed between two files or with one half written.

| Code | Action |
|---|---|
| 01, 02a, 03, 03b, 03c, 03e, 03f, the extraction inside 02: reading, and what raises before anything is written | `Start` |
| one file of theirs, truncated and written | `Write` |
| the process killed | `Kill` |
| 02b and 03d, their exit code | `Validate` |
| what 02 and 04 read and hand to the graph store | `Start`, `Load`; what happens there is GraphLoading |
| the texts of `Data/` | `Edit` |

`tree` gives each file as missing, torn or whole with its items, `dirs` the two
directories that not every script makes, `job` what the running script has read
and has still to write. What a parser or an extractor computes is the function
`Content` of the parsed files: an entity is its kind, regulation and number, a
relationship its two ends. What the extractors match in a text is the constant
`Mentions`; the tables written down in the code are `Rules`, `Rights`, `Concepts`,
`Names` and `CrossMappings`. Three variables are history: `current`, the scripts
that have run to their end in order since the texts last changed, `passed`, the
verdicts since the last write, and `cut`, that an extraction of the structure was
killed.

Files that are always read and written together are one (the header of the module
lists them), and the count thresholds of other kinds and of the density are left
out of the gates: they would only let less pass. Script 01 reads each text just
before it writes the file made of it; as texts do not change while a script runs,
it reads them all at its start here.

What the model follows although one would not expect it: a corpus directory that
is not there parses as an empty one, and overwrites what was parsed before, while
a single file that is not there ends the script. A bare article number belongs to
the regulation of its text (`article_parser.py` prefixes it), so that the cross-regulation
links which 03c derives from the texts are always none, and only its table is
left. 03b, 03c, 03e and 03f make no directory and raise without one. 03's own gate
passes when there are no articles. 03d ends with "ready" without asking about
orphans, of which 04's gate allows none. The files in the repository were made with
`edpb_guidelines.json`, which is not among them, so that most of the edges of
`interprets.json` lead to nothing (`Init`).

### GraphLoading and KnowledgeBackup

`GraphLoading` is the graph and the scripts that fill it. `db` maps the two
instances, `old` and `new`, to nodes, relationships and indexes; a node is its id,
the `era` of its element id (which `--clear` ends) and whether its vector is
missing, an embedding or zeros. `job` is the script that runs: which one, at which
step, how far into its input, and the counter of skipped relationships.

| Code | Action |
|---|---|
| start of 02, 04, 05, 09 or of the README's index step; a crash anywhere | `Begin`, `Die` |
| `clear_all` of the store and of 05 | `Clear` |
| `create_indexes`, `create_vector_index`, `create_name_index` | `CreateIndexes`, `CreateVectorIndex`, `CreateNameIndex` |
| one transaction of `create_nodes_batch` or `create_relationships_batch` | `LoadNodes`, `LoadRels`, either of which may land and then raise |
| a run of the transaction function that the driver repeats | `RetryRels` |
| the exit gates of 02 and 04 | `Gate`; 05's is in `CreateVectorIndex` |
| a batch of vectors of 05 or 09 | `WriteVectors` |

`KnowledgeBackup` adds `10_backup_to_jsonl.py`, query by query, next to those
scripts (`DumpNodes`, `DumpRels`, `DumpIndexes`, `DumpMeta`, `DumpDies`,
`Verify`), what may happen to its files (`Damage`), and
`11_restore_from_jsonl.py`, node by node (`StartRestore` to `RestoreVerify`,
`RestoreDies`). A file is its readable records and how it ends. Each query is
taken to see one state of the graph; the code promises no more than that at best.
One dump is followed, so the names with a timestamp are left out. MERGE keeps
relationships unique, which makes them a set. The exit gates' numbers per label
are left out, and so are entities of the kinds that are never embedded.

### GraphQueries and Retrieval

`GraphQueries` holds the read queries of `graph_store.py` as operators over a graph:
what a query may return, a set of sequences where the Cypher text leaves the order
open. `Retrieval` is the service of `api/main.py` on top of them, one request at a
time (the handlers are coroutines that never await), one action per query:
between two of them another process may load or restore the graph (`Change`),
and Neo4j may go away and come back.

| Code | Action |
|---|---|
| start-up, `_get_store`'s 503 | `Init`, `Restart`, `Accept` |
| `/health` | `Health` |
| embedding a question | `Embed` |
| `vector_search`, the traversals, `name_search`, the COMPLEMENTS query | `SearchVectors`, `Walk`, `SearchNames`, `Expand` |
| `_rrf_fusion` and `top_k` | `Fuse` |
| the LLM call, citations, verification, confidence | `Generate` |
| `resolve_entities`, `traverse` | `Resolve`, `Follow` |

A question is the two rankings it gives (similarity, lexical score) and its intent; a
reply of the LLM is the articles it names, invented ones included, and the phrases
the answer's type depends on. The fusion adds `Points` of a rank, any natural
numbers that fall with the rank, for the code's `1/(60 + rank)`; `MaxRank` is a
length no fused list exceeds. Where
the floating-point sum of the confidence lies on a threshold, either side is a
behaviour.

What the model follows although a comment says otherwise: `main.py:115` promises
"will retry on request" and no request retries; `engine.py:223` speaks of ranks
where counterparts are appended behind the traversal; an entity met twice by one
list counts twice (`engine.py:241` says otherwise); a citation outside the results
is kept, marked unverified (`reasoning_engine.py:300` speaks of a guardrail); the
text of a failed LLM call is scored like an answer.

### Governance

`authorize_action` and the sliding window of its rate limiter, with the limits of
the cost tracker it asks. The call is one step, since the coroutine never awaits,
but the clock may move between `check` and `increment`. `history`, which the code
does not keep, holds every call ever let through. Approval conditions are the
comparisons of `_evaluate_condition`; an attribute an action does not state takes
the default that passes. `permission_level` is stored and never consulted, in the
code as in the model.

## 3. What TLC checks

Runs under "pass" hold; those under "violation" check a sentence of the
repository's own documentation or comments and find it contradicted by the code.

| Run | Checks | Result |
|---|---|---|
| `scan_service` | ScanService, two scans, one enriched, the other with a long `ref`, all readers, wrong ids, one outage, one torn commit, two checkouts that wait too long, one restart | records keep their store, `completed` is complete, losses have one of three causes, settled rows change in one way only, every acknowledged coroutine ends, the life cycle is implemented |
| `scan_settles` | `SYSTEM.md:118`, the life cycle of a scan | violated without any fault: a 404 between the 202 and the task switches the store, and the row stays queued |
| `pool` | ConnectionPool, three scans, one with a long `ref`, a reader, pools of 2, 3 and 7 | the lock and the connections come back, everybody's wait ends; two connections per scan and one per reader serve everybody, and what is lost even then is lost to a 404 or a refused `ref` |
| `enrichment` | SupervisorWorkflow, two scans, three rules, two lookups in flight | one record per rule, all or nothing, bounded overshoot, every run returns |
| `scan` | ScanPipeline, every repository of three files out of eight kinds | routes accounted for, triage only quietens, the gates and the choice of evidence hold |
| `knowledge` | KnowledgeBackup, two entities related both ways, three scripts, a dump, a damaged file, two restores | loads can be repeated, embeddings outlive them, verified dumps are whole, restores are faithful, and a dump of nodes at rest restores |
| `backup_restorable` | `backup-knowledge-graph.yml:95`, "so the newest artifact is always restorable." | violated: a dump taken during a load passes its self-check and ends in MISMATCH when it is restored |
| `retrieval` | Retrieval, four entities, three graphs, every endpoint, one outage, one change of the graph, one restart at any step | agreement outranks, the filter holds outside the graph arm, HIGH is grounded, healthy means answering |
| `retrieval_expansion` | `engine.py:229`, "expansion is additive, never fatal" | violated: the handler of a failed expansion names a logger the module does not have, and the request answers 500 |
| `extraction` | Extraction, from a clone with or without `Data/` and with or without the files handed out, six corpora, one edit, one kill | rerunning heals, only the code's own tables dangle, what passed loads whole, half a structure is not taken for one |
| `governance` | Governance, three agents with their policies, a window of two ticks, four calls | no window holds more calls than allowed; a used-up quota comes back |
| `scan_page` | ScanPage over ScanService, the tab's scan and another client's, two loads in flight, lists of one scan, one checkout that waits too long, a long `ref`, one restart | the page settles on the report; the store is switched only for a cause that can be named, polling for a report that is there is none; an unknown scan has a cause |

The findings in PROJECT.json give the lines. CHECK_DEADLOCK is off in all runs: a
service whose clients ask for nothing more, a scan that is done, and an operator
who has nothing left to run, stop.

**Why the bounds are enough.** Scans interact in ScanService only through the
flag and, in ConnectionPool, through the pool and the lock; two scans give every
pair of steps, three give two that wait while one holds. One scan with a long `ref` is enough to
switch the other's store. Every kind of fault
occurs once at any point, and one outage may hit any subset of the sessions; the
known holes (a task switched away from its store, a failure that cannot be
recorded, an outcome overwritten) each need one. Two late checkouts are what a loss
without any other fault takes: the first sends the task to its except block, the
second keeps that from recording the failure. `scan_settles` allows none, and no long
`ref`, so that its trace rests on the 404 alone. ScanPage has one late checkout, for
its own polls as for anybody's. Pools of 2, 3 and 7 lie below,
at and above the demand of three scans (3 + 3 + 1). In SupervisorWorkflow three
rules against two places in the semaphore make a lookup wait, a limit of two
against replies of up to two is overrun in each way the check allows. In
ScanPipeline three files are enough for a winner, a loser and a third kind of
place in the ranking of evidence; a cap of two routes in batches of one leaves a
third beyond the cap; two findings in reach of the triage leave others beyond it.
In KnowledgeBackup two entities, of which script 02 loads one only, and batches of
one give a graph that is half loaded, a relationship without an end and a crash
between any two batches; three scripts make load, embed, load again; restores take
two nodes to a batch, so that a batch may be short, full or absent. The scripts
are followed until the dump is over: what they do later changes nothing in the
files, and they do the same without a dump. Files damaged before the self-check
are restored only as those damaged after it. In Extraction three articles in two
regulations, one of them named from the other, a recital and a guideline give each
extractor something to find and something to miss; the corpora differ by each thing
that can be lacking (everything, an article and the guidelines, the recitals, a
chapter's header with and without articles in it); one edit gives files of two
corpora side by side, one kill a file of any script cut short. In Retrieval four entities make the three arms agree, disagree and repeat
themselves, and one bridge between the regulations is reached by filter and
traversal alike; replies name one to five articles, so that a quarter, a third and
none of them are retrieved; one change, one outage and one restart each hit any
step of a request; `top_k` and `limit_per_term` are not negative (`api/main.py` does
not keep a negative one out). In Governance four calls in a window of two ticks fill the
window, slide out of it and fill it again, with a quota of one and of two. In
ScanPage a list of one scan makes one other scan enough to push the tab's out
of it (the code's 50 need 50), and two loads in flight overtake each other. For the
theorems below no bound matters.

**Fairness.** Weak fairness of each scan's coroutine in ScanService,
SupervisorWorkflow and ConnectionPool: the event loop resumes whatever can go on.
It stands on one assumption where a step is a whole computation: `_sync_scan` and
`supervisor.execute` return. Their HTTP and LLM calls have timeouts, `git clone`
has none. ConnectionPool adds strong fairness of taking `_LOCK`, as asyncio.Lock
wakes its waiters in turn, and weak fairness of ending a read. In ScanPage the timer goes on, the server answers, answers arrive; the
service's own tasks need not get on, as the property starts from a report that is
there. In Governance time passes. Clients, Postgres
and the operator owe nothing: Postgres need not come back, a POST need not
arrive. The safety properties need no fairness, and ScanPipeline,
Extraction, KnowledgeBackup and Retrieval have none.

## 4. What TLAPS proves

For any sets of scans, any number of outages, restarts, torn commits and late checkouts,
repositories of any number of files, and any corpora:

| Module | Theorems |
|---|---|
| ScanServiceProofs, the service | `TypeCorrect`, `OneStoreAlways`, `AckedRecordAlwaysKept`, `CompletedAlwaysComplete`, `LossAlwaysHasCause`, `SettledRowAlwaysKept`, `ServiceImplementsLifecycle` |
| ScanServiceProofs, the page | `TabTypeCorrect`, `PageImplementsService`, `UnknownAlwaysHasCause`, `SwitchAlwaysHasCause` |
| SupervisorWorkflowProofs | `TypeCorrect`, `RecordPerRuleAlways`, `WholeOrNothingAlways`, `OvershootAlwaysBounded` |
| ConnectionPoolProofs | `TypeCorrect`, `AlwaysGivenBack`, `AmplePoolAlwaysServes` |
| RetrievalProofs | `HighAlwaysGrounded`, `HealthyAlwaysAnswers`, `FilterAlwaysHolds`, `AgreementAlwaysOutranks` |
| GovernanceProofs | `WindowAlwaysBounded` |
| ExtractionProofs | `TypeCorrect`, `RerunAlwaysHeals`, `StructureAlwaysWhole`, `OnlyCuratedEverDangles`, `ValidatedAlwaysLoads` |
| KnowledgeBackupProofs | `TypeCorrect`, `LoadsAreComplete`, `ZeroSkippedIsAll`, `RestoresAreFaithful`, `QuietDumpsRestore`, `EmbeddingsAreKept`, `VerifiedDumpsAreWhole` |
| ScanPipelineProofs | `TypeCorrect`, `EveryRouteAlwaysAccountedFor`, `ProhibitedAlwaysNeedsDeployment`, `ProductionAlwaysOutranksTests`, `OnlyEverWhereAiIsUsed`, `TriageOnlyEverQuietens` |

The assumptions are the named ASSUMEs of the modules: finite sets of scans and
rules, naturals for the bounds and costs, one prompt within the daily limit; for
ScanPipeline at least one file, files and verdicts of the declared types, natural
caps and a positive batch size; for Extraction corpora of the declared form, the one
the repository was made from among them, a list of names for each table entry, and
two facts of the tables in the code: concepts name concepts only, and the actor whom
obligations bind is one of those listed; for KnowledgeBackup positive batches and
relationships between named entities; for Retrieval finite sets of provisions and of invented ones, replies
and questions of the declared form, a rank that counts more than the next one, and a
`MaxRank` that is not too small; for ScanPage lists of at least one scan.

**ScanService.** None of the four invariants is inductive. `IndInv` says of each
scan separately (`Safe`): its record is only ever in the store its request's
session names (`Home`), an acknowledged one is still there or was lost to a
restart (`Kept`), the profile has been saved once the coroutine is past saving it
(`Saved`), a completed record is complete (`Complete`), and a coroutine that met
an exception has something to blame (`Cause`, `Blame`): Postgres, a torn commit, one
late checkout on its way to the except block, two when it abandons. The count is
right because a task at work holds its connection (`AtWork`): only its first update and
the one of the except block can wait. `Cause` in turn needs
the flag: it is set while Postgres is down only after an outage. As a step of one
scan moves nothing of another but the flag and the counters, which only grow,
`Frame` disposes of the other scans, and the task's seven writes share
`WriteSafe`.

What may happen to a settled row needs to know how far a record can have come at
each await (`Stage`): nothing is settled before the outcome is written, the task
finds `running` what it has marked, and a settled row in front of the except block
was published by a commit that then raised. So no other write meets one
(`SettledStep`). The same invariant maps each step to a move of ScanLifecycle or to
a stutter (`LifecycleStep`): a write moves the status of its scan alone, from where
`Stage` says it is, and a restart forgets the scans without a row.

**ScanPage.** Whatever the tab does, the service takes a step of its own or none
(`PageStep`), so a behaviour of the page is one of the service
(`PageImplementsService`), and `IndInv` and `Staged` hold under it. To them
`PageInv` adds what the absence of outages means for the flag (`Flagged`): it tells
the truth about Postgres, and whoever was refused a session finds it cleared until
a restart. Then `Informed`: what the page knows, and what each load still brings,
was true when the service said it. `ToldLasts` is why it is still true when it
arrives, however late: later scans only get more, a store once left stays left
until a restart, and a settled row stays settled. `SwitchHasCause` follows with
`CompletedIsComplete`, as a report is only asked for on the word of a list that
called the scan settled: whatever else clears the flag is a torn commit, a late
checkout or a refused `ref`. The run leaves the torn commit out, as `scan_service` has
it.

**SupervisorWorkflow.** `Progress(s)` ties the accumulated state to the node the
run has reached, and gives the two invariants on results. The budget invariant
counts a call in flight as spent: the daily spend plus a whole prompt and reply
for each scan that is asking stays within `DailyLimit - PromptCost` plus one
prompt and reply per scan. Passing the check makes room for one more call,
a reply turns its reservation into money, and midnight only lowers the sum.

**ScanPipeline.** A property of a finding or of the posture is about where it
came from, which the state that violates it no longer shows. `Reasons` carries it
along: every note in `shared.imports` names a file that imports the library or a
manifest that declares it, every finding is `Traced` to what its scanner read off
its file and has at most the dampened confidence of its rule, and a prohibited
posture has a trigger. That confidence is what the threshold meets: in a place
where the rule dampens, AI-008 and AI-009 are left with half of at
most 0.85, less than the 0.5 the classifier asks, so a trigger lies outside those places. The triage
only lowers a confidence, half of a hundredth up or down, which keeps `Reasons` and
makes the set of triggers no larger. For `ProductionOutranksTests`, `BestFile` shows that
among the files that show a rule one outranks the others, for any number of files
(`LeastOf`); `Told` carries the finding that the content scanner makes of it to
the end, and `Untriaged` that nothing is demoted before the triage. The routes need a second invariant, `Accounted`: surfaces and verdicts are
one to a file, and what has been reviewed lies under the cap, so that a batch can
neither repeat a route nor reach one that is also carried past the cap.

**ConnectionPool.** `HeldInScope` says between which steps a scan may hold its
request's connection, its task's and the lock, and that two scans never hold the
lock; `GivenBack` follows from where a finished request is. `AmplePoolServes`
is a matter of counting: a scan holds at most two connections and a reader one, and
whoever is about to check one out holds one less than he may, so that one is free
(`AmpleIsFree`, `WaitsIsFree`), no checkout times out (`NoTimeout`), and what is left to
clear the flag or to refuse a request is a 404 or a long `ref` (`Served`).

**Retrieval.** `HighIsGrounded` is arithmetic: results and agreement give at most 30
of the 35 points that HIGH needs, so the citations give the rest, a quarter of
their 20 (`HighNeedsCitations`). What makes it an invariant is that the results
and the citations are finite whatever the LLM invents (`Countable`). For
`HealthyMeansAnswering`, `HealthInv` ties a healthy answer of `/health`, until
something changes, to a store, a Neo4j that is up and a vector index: exactly what
each failing step needs to be missing. It is an action property; the invariant is
used before the step. For `FilterHolds` and
`AgreementOutranks`, `FusedInv` says that the lists are empty before the search, and
then what each query may return, up to the moment they are fused; what the service
answers is a cut of `Fusion` of those lists. The order of the answer is `InOrder`,
the place of an entity the number of those before it, so that it needs no sorting
algorithm. The scores are sums over the ranks, one recursive function for each
entity: `SumsExist` shows that the recursion has a value at each rank, by the least
missing number (`Inductively`), and `LeadCounts` compares two of them by summation by
parts. An entity with at least as many places down to every rank gains at each
rank the difference of its points to the next one's, and somewhere more.

**KnowledgeBackup.** `IndInv` has a part for each actor. `Closed`: a relationship
hangs between two nodes that are there. `Loaded`: what the batches behind a load have
left in the graph, which `--clear` cannot take away during one and a retry only
repeats. `Dumped` and `Written`: what the two queries gave, one record for each id and
each pair of ends, that a dump of nodes at rest has the ends of its relationships, and
what the files hold of it. `Apart`: dump and restore are not under way at once, nor a
script and a restore. `FromDump`: what the new instance holds came out of the dump;
`Underway`: what the files hold is there or still to come. A restore whose counts are
those of the dump has put in a subset of the same finite size, which is the whole.

**Governance.** `LimiterInv`: no call is in the future, and the list of an agent,
however it was pruned, holds every call of the last hour. A call that passes the
check adds one to fewer calls than allowed. A window that ends at an earlier call
does not contain the new one, unless both have the same time: `AcceptedFits` covers
both, and the tick that may pass between `check` and `increment`, which only makes
the list counted longer than the window that ends at the call.

**Extraction.** `RerunHeals` speaks of scripts that are done; to keep it while one
runs, `JobOK` says that what is still to write is among the script's own files,
`WrittenOK` that its other files hold what follows from what was read, and
`HistoryOK` that what was read is what the texts give whenever a 01 is current, and
that a script at work is not. No two scripts write one file, but for 02 and 02a,
which count as one (`OneWriter`), so that a write leaves what the others have
written alone. `StructureOK` is `StructureIsWhole` without a 02 at work: once
`containment.json` is there and no extraction was killed, either one is still
writing or all its files are whole. `ValidatedLoads` is inductive as it stands:
a write forgets the verdicts, and the two lists of files agree. `OnlyCuratedDangles`
goes through the files of relationships: after a whole chain each holds the `Content`
of one corpus (`IInv`), which links entities that 04 reads (`NodesKnown`), but for the
tables of the code and the chapters without a header.

**Types.** `TypeCorrect` proves the type invariant of six modules, and `TabTypeCorrect`
that of the page, for every value of their constants; only KnowledgeBackup's run repeats
it. In Retrieval and Governance the invariants of the proofs carry what types they need.

**Only model-checked.** The liveness properties: `CoroutineEnds`, `AckedSettles`,
`EveryRequestEnds`, `RunsReturn`, `QuotaReturns`, `PageSettles`. Liveness under
fairness and ENABLED are out of the prover's reach. So are the library's induction
theorems, which take an operator as parameter; where an induction was needed, it was
done on a set of numbers (`Inductively`) or avoided by a definition that is not
recursive.

## 5. What is not modelled

- The mode of the analyzer without an LLM is a subset of the behaviours of
  ScanPipeline (no review, triage failed); scoping a scan by path is left out.
- Cloning, its retry and the removal of the clone: a scan starts from its files, or
  raises (`RunScan`).
- The session cache: the running system connects and closes it and no request
  reads or writes a session.
- Single-entity reads and writes of the graph store that nothing in the running
  system calls; collections of the vector search; the text of prompts and answers.
- Wording, excerpts, regular expressions, remediation texts, report layout, rendering.
- Logging, metrics and the retry and circuit-breaker helpers of the orchestrator:
  they keep no state of the running system or have no caller in it.
- What the parsers and extractors match in a text (regular expressions, headings,
  keywords): facts of an entity in Extraction. The refinement of obligations by
  an LLM, which script 03b turns off.
- Evaluation and multimodal scripts of the knowledge engine: offline reports over
  finished data that keep no state.
- Two scripts at the same time over `parsed_data/`: the operator's instructions
  run them one after another.

Some behaviours are in the models without a property of their own, because the
repository does not say that they must not happen, or another property rests on
them. A 404, a checkout that waits too long and a refused insert clear the flag of the
process (`Get`, `GetLate`, `CreateRecord`; `SwitchHasCause` names the cases). A
`strings` pattern is reported at the first file listed, a test included
(`content_scanner.py:174`), where `ProductionOutranksTests` speaks of keywords. Scans enriched at the same time are let through on the same remainder of
the daily limit (`OvershootBounded` says by how much it is passed), and the calls
of the surface review and of the triage neither ask nor tell the cost tracker. Whether
there is a DPIA document is concluded from AI-005's evidence, no document is looked
for (`BuildProfile`). A scanner that raises loses its findings, and the statistics of the
profile, which are there to be honest about coverage (`profile.py:68`), look as
if it had found nothing (`Scanned`). Declarations in a
manifest are noted one per matching pattern, so that one file can give AI-009
twice. A restore does not recreate the full-text index on names, which `/health`
does not look at (`NameHits` then finds nothing). A second submit after a lost
answer scans again (`PostAnswered`).

## 6. Plan

The order was: what a client of the service relies on first (ScanService and its
abstract life cycle), then the resource it can exhaust (ConnectionPool), then the
two computations it runs (SupervisorWorkflow, ScanPipeline), then the data the
lookups stand on (GraphLoading, KnowledgeBackup) and the service that answers them
(Retrieval), then what watches and what limits (ScanPage, Governance), and where the data come from
(Extraction); then the proofs of every safety property the runs check. What follows:

1. **Extraction composed with GraphLoading**: what 04 loads is what the files hold.
2. **Ingest** inside ScanPipeline: clone, retry and clean-up.
3. **What suppression may hide** in ScanPipeline: a suppressed import, and which file's
   suppression counts.
