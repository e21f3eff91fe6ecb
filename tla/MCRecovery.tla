----------------------------- MODULE MCRecovery -----------------------------
EXTENDS Recovery

OneKey == {1}
TwoKeys == {1, 2}
AllSteps == {"idle", "msync", "dump", "rename", "manifest", "fsync", "publish", "rotate",
             "unlink"}
NotInRotation == AllSteps \ {"unlink"}
=============================================================================
