SPECIFICATION Spec
CONSTANTS
  Deployments <- MCDeployments
  Preferences <- MCPreferences
  p1 = p1
  h1 = h1
  Subscriptions = {p1}
  Hooks = {h1}
  Off = Off
  MaxAttempts <- MCMaxAttempts
  MaxDays = 1
 
 
PROPERTY ClearedOnlyIfRead
 
PROPERTY QueuesDrain
CHECK_DEADLOCK FALSE
