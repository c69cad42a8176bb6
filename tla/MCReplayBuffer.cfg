SPECIFICATION Spec
CONSTANTS
  NumPrompts = 2
  MaxAge = 1
  MaxSize = 4
  Versions <- MCVersions
  MaxPushes = 5
PROPERTIES SampledLeave ImplementsStore
