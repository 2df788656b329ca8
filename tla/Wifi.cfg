SPECIFICATION FairSpec
CONSTANTS
  s_cred_count = 4
  Strongest <- MCStrongest
  FAILOVER_THRESHOLD = 3
  AP_FALLBACK_ATTEMPTS = 8
  MaxFaults = 3
INVARIANTS TypeOK NeverStranded
PROPERTIES Reconnects HotspotOpens
CHECK_DEADLOCK FALSE
