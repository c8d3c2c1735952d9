CONSTANTS
  Amps <- MCAmps
SPECIFICATION FairSpec
INVARIANT EnabledIsWatched
INVARIANT DutyIsLimited
INVARIANT RecordedIsApplied
PROPERTY SilenceStops
