SPECIFICATION ClientFairSpec
CONSTANTS
    MaxTimers = 4
    MaxAsked = 2
INVARIANTS ConnectionKept AnsweredOnce
PROPERTIES KeepsTrying ReadyIsTold
