SPECIFICATION AlertSpec
CONSTANTS
    MaxDay = 3
    MaxEdition = 3
    MaxGeneration = 3
    MaxChanges = 3
    MaxTriggers = 1
INVARIANTS SequenceFollowsDates IncrementalEqualsOnePass LiveAtMostOnce TriggersFollowDates EveryLiveEntryAnnounced
PROPERTIES CorrectionsAreSilent
\* The bounds on editions, publications and edits let the instance run out of steps.
CHECK_DEADLOCK FALSE
