\* Short intervals, requests of up to two units, one recording, a failed login.
CONSTANTS
  m_keepAliveDelay = 3
  m_fullChannelEpgRefresh = 4
  m_loadingsRefresh = 2
  m_epgCheckDelay = 3
  LoginDelay = 2
  MaxCall = 2
  Urls = 1
  MaxLogins = 1
SPECIFICATION Spec
INVARIANTS TypeOK PacedCalls JobsInTime StopsSoon
