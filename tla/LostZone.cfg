CONSTANTS
    t1 = t1
    t2 = t2
    Agent = Agent
    First = First
    Null = Null
    Threads <- const_Threads
    Procs <- const_Procs
    Nodes <- const_Nodes
    Opens <- const_Opens
    Along = {TRUE}
    MaxFailures = 0
SPECIFICATION Spec
INVARIANTS AllRead
