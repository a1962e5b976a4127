CONSTANTS
    d1 = d1  d2 = d2  d3 = d3
    DemuxIds <- MCDemuxIds
    Rosters <- MCRosters
    MaxChanges = 3
SPECIFICATION Spec
INVARIANT
    SnapshotConsistent
