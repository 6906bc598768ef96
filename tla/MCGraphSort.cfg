SPECIFICATION GraphSpec
CONSTANTS
    Nodes = {0, 1, 2, 3}
    Terminals = {2}
    MaxEdges = 4
INVARIANTS RunsWhatIsHeard SourcesRunFirst
