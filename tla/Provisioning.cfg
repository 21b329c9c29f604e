SPECIFICATION FairSpec
CONSTANTS
  s1 = s1
  s2 = s2
  None = None
  Secrets = {s1, s2}
  Moves <- MovedBoth
  MaxEnvs = 2
  MaxUpdates = 1
  MaxClicks = 1
  MaxDeaths = 1
 
PROPERTIES  ProvisioningEnds
CHECK_DEADLOCK FALSE
