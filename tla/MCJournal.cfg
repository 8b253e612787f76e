\* The journal RPCs over raft: two concurrent callers, one shard with one
\* segment, four raft entries, two faults (refusals or leader changes).
CONSTANTS
    Callers = {r1, r2}
    Shards = {s1}
    Segments = {g1}
    None = None
    MaxLog = 4
    MaxFaults = 2
SYMMETRY CallerSymmetry
SPECIFICATION JournalSpec
INVARIANT JournalTypeOK
PROPERTY ImplementsRegistry
