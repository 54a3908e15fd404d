--------------------------- MODULE MCScanPipeline ---------------------------
(* Files and replies of the LLM to check ScanPipeline with.                *)
EXTENDS ScanPipeline

Plain == [place |-> "src", readable |-> TRUE, deep |-> FALSE, imports |-> {},
          manifest |-> "none", declares |-> [l \in Libraries |-> 0], route |-> FALSE,
          human |-> FALSE, audit |-> FALSE, override |-> FALSE, strings |-> FALSE,
          pii |-> FALSE, banned |-> 0, public |-> FALSE]

\* A face recognition module, its how-to under tests/, an endpoint that answers
\* with an LLM, a module with personal data that calls one over HTTP, a guide and
\* a test that say social scoring, a manifest that declares face recognition.
Camera   == [Plain EXCEPT !.imports = {1}, !.public = TRUE]
HowTo    == [Camera EXCEPT !.place = "tests", !.banned = 1]
Endpoint == [Plain EXCEPT !.imports = {2}, !.route = TRUE, !.audit = TRUE]
Profiles == [Plain EXCEPT !.strings = TRUE, !.pii = TRUE, !.route = TRUE, !.banned = 1]
Guide    == [Plain EXCEPT !.place = "docs", !.banned = 3]
SpecFile == [Plain EXCEPT !.place = "spec", !.banned = 2, !.pii = TRUE]
Manifest == [Plain EXCEPT !.manifest = "good", !.declares = [l \in Libraries |-> IF l = 1 THEN 2 ELSE 0],
                          !.public = TRUE]
Broken   == [Plain EXCEPT !.manifest = "bad"]
Notebook == [Endpoint EXCEPT !.readable = FALSE]
Table    == [Plain EXCEPT !.deep = TRUE, !.pii = TRUE]

MCContents == {Camera, HowTo, Endpoint, Profiles, Guide, SpecFile, Manifest, Table}
Unreadable == {Plain, Broken, Notebook, Table, Endpoint, Manifest}

NoList == {{}}
Lists  == {{}, {<<8, 1>>, <<1, 2>>, <<9, 1>>, <<4, WholeRepo>>, <<2, 3>>}}

\* Confirms the route, clears it, calls it a test.
MCVerdicts == {[calls |-> TRUE, human |-> FALSE, audit |-> FALSE, test |-> FALSE],
               [calls |-> FALSE, human |-> TRUE, audit |-> TRUE, test |-> FALSE],
               [calls |-> TRUE, human |-> FALSE, audit |-> TRUE, test |-> TRUE]}
=============================================================================
