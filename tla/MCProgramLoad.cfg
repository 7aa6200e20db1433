SPECIFICATION Spec
CONSTANTS
  NumObjects = 13
  MaxDescriptors = 2
INVARIANTS OwnedOnce NoStrayFree OpenPerElfLoad
PROPERTY LosesOnlyAt
