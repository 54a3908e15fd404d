------------------------- MODULE MCKnowledgeBackup --------------------------
(***************************************************************************)
(* KnowledgeBackup with two entities, of which script 02 loads the first   *)
(* only, and a relationship each way between them.                         *)
(***************************************************************************)
EXTENDS KnowledgeBackup

MCRelations == <<<<1, 2>>, <<2, 1>>>>
=============================================================================
