SPECIFICATION FairSpec
PROPERTIES
    SubmissionResolves
    FillsAreCaughtUp
    InterruptedWorkEnds
