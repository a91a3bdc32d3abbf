---------------------------- MODULE MCResources ----------------------------
\* Two small contents fill the quota, as a large one does alone; the operations are used
\* in the combinations whose members interact.
EXTENDS Resources

CONSTANTS small, medium, large

MCSizeOf == [c \in Contents |-> IF c = large THEN 2 ELSE 1]
MCMixes == {{"upload", "import", "replace", "fault"},
            {"upload", "replace", "delete", "deleteKb"},
            {"upload", "import", "deleteKb", "sweep"},
            {"upload", "replace", "sweep"},
            {"upload", "sweep", "fault"},
            {"upload", "delete", "fault"},
            {"upload", "delete", "requeue"}}
=============================================================================
