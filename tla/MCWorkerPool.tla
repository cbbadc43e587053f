---------------------------- MODULE MCWorkerPool ----------------------------
EXTENDS WorkerPool, TLC
CONSTANTS t1, t2, t3
MCPriority == t1 :> 1 @@ t2 :> 1 @@ t3 :> 2
MCLoads == {{t1}, {t1, t2, t3}}
=============================================================================
