\* A command that runs and fails consumes the dirty state.
CONSTANTS
    MaxVersion = 2
    Enabled = TRUE
    Interval = 2
    Failures <- FailsBothWays
SPECIFICATION Spec
PROPERTIES
    FailedRefreshPreservesDirty
