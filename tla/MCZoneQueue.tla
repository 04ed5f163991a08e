---- MODULE MCZoneQueue ----
EXTENDS ZoneQueue
CONSTANTS t1, t2
const_Threads == {t1, t2}
const_Procs   == {t1, t2, Agent}
const_Opens   == (t1 :> 2 @@ t2 :> 1)
const_Nodes   == {<<t1, 1>>, <<t1, 2>>, <<t2, 1>>}
====
