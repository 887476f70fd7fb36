-------------------------- MODULE MCProjectionRun --------------------------
(* The constants ProjectionRun is checked with. *)
EXTENDS ProjectionRun

AllKinds == {"maintenance", "codex", "live"}
Codex == {"codex"}
Maintenance == {"maintenance"}
Live == {"live"}
None == {}
Everything == Steps \cup {"attach", "answer"}
Appending == {"put", "apply", "mark", "commit", "switch", "upsert", "settle", "done"}
=============================================================================
