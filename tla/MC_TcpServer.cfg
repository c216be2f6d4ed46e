CONSTANTS
    c1 = c1
    c2 = c2
    p1 = p1
    Conns = {c1, c2}
    Names = {p1}
    Cmds <- MCCmds
    CmdLens = {1, 3}
    BufSize = 2
    MaxWrites = 2
    EngineOutcomes = {TRUE, FALSE}

SPECIFICATION Spec

INVARIANT TypeOK
PROPERTY EveryCommandAnswered
PROPERTY ConnectionReleased
