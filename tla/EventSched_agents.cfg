\* Users wait for what they started.
SPECIFICATION Spec
CONSTANTS
    Prog = {"p", "q"}
    ExitCode = {0, 1}
    SeqList <- MCSeqList
    TimelineList <- MCTimelines
    GroupList <- MCGroups
    Members <- MCMembers
    Script <- MCScript
    Command <- MCCommand
    MaxCommands = 2
    Careful = TRUE
INVARIANTS WaitingIsServed GroupExact
PROPERTY Ends
CHECK_DEADLOCK FALSE
