SPECIFICATION FairSpec
CONSTANTS
    Requests <- MCRequests
    Content <- MCContent
    Missing = Missing
    Absent = Absent
    Count = 2
    MaxSplit = 2
    Columns = 2
    Null = Null

    
    
    
PROPERTY WholeIsAnswered
\* A peer may stop sending, and a crashed worker does nothing more.
CHECK_DEADLOCK FALSE
