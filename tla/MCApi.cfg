CONSTANTS
  Parts = {"netconn", "sockets", "dhcp", "dns", "autoip", "igmp", "options",
           "ipaddr"}
  MaxConn = 2
  RECVMBOX_SIZE = 1
  ACCEPTMBOX_SIZE = 1
  SND_BUF = 2
  SNDLOWAT = 1
  WriteSizes = {3}
  MaxData = 2
  MaxHeld = 0
  NUM_SOCKETS = 2
  Thread = {t1, t2}
  Wants <- MCWants
  MaxBox = 1
  Addr = {a1, a2}
  NoAddr = NoAddr
  Lease <- MCLease
  Failing = {"DISCOVER", "DECLINE", "RELEASE"}
  SELECT_TRIES = 1
  REBIND_TRIES = 1
  REBOOT_TRIES = 2
  MaxXid = 5
  DNS_TABLE_SIZE = 2
  DNS_MAX_SERVERS = 2
  DNS_MAX_RETRIES = 3
  SEQNO = 256
  Name <- MCName
  TTL = {1}
  ErrCallbackAsks = FALSE
  MaxReq = 3
  Seed = {7, 65022, 65278, 65535}
  PROBE_NUM = 2
  ANNOUNCE_NUM = 2
  ANNOUNCE_WAIT = 1
  ANNOUNCE_INTERVAL = 1
  MAX_CONFLICTS = 1
  RATE_LIMIT_INTERVAL = 3
  DEFEND_INTERVAL = 2
  Wait = {0, 1}
  MaxTried = 3
  Opts <- MCOpts
  Fields <- MCFields
  FIELD_LEN = 6
  MaxOpts = 2
  MaxCuts = 2
  BITS = 4
  Part = {0, 1, 9, 15, 16, 255, 4095}
  Base = {8, 10, 16}
  Group = {g1, g2}
  AllSystems = AllSystems
  MaxResp = {2, 3, 4}
  IGMP_JOIN_DELAYING_MEMBER_TMR = 3
  IGMP_V1_DELAYING_MEMBER_TMR = 3
  MaxUse = 2
SPECIFICATION ApiSpec
SYMMETRY Symmetric
INVARIANTS NetconnSound SelectSound   
