CONSTANTS
  Parts = {"tqueue", "requests", "packetrx", "pbuf", "heap", "chain", "timers", "reass",
           "arp", "bytebuffer"}
  msgBufferSize = 3
  Item = {a, b}
  NoItem = NoItem
  MaxTxAppSize = 40
  MaxAppDataSize = 36
  UDP_TX_Q_SIZE = 2
  BlockSizes = {2}
  DataBlockSize = 30
  RxSizes = {0, 18, 24}
  MaxAnswers = 3
  SIZE = 3
  RingByte = {0, 1}
  HeaderSize = 4
  MaxLayer2DataSize = 2
  NPackets = 3
  MaxFaults = 1
  MaxPbuf = 3
  BUFSIZE = 2
  Request <- MCRequest
  LayerOffset = {0, 1}
  MaxLen = 2
  MaxOwn = 2
  MEM_SIZE = 14
  SIZEOF_STRUCT_MEM = 1
  MIN_SIZE = 2
  Sizes = {1, 2, 3, 5}
  ChainByte = {1, 247, 255}
  MaxBytes = 5
  Cyclic = {"ip_reass", "arp"}
  Interval <- MCInterval
  WRAP = 16
  MaxGap = 2
  MaxTime = 26
  FragKey = {"a", "b", "c"}
  DataLen <- MCDataLen
  Mtu = {28, 36}
  IP_REASS_MAX_PBUFS = 4
  IP_REASS_MAXAGE = 1
  h1 = h1 h2 = h2 h3 = h3 m1 = m1 m2 = m2 m3 = m3 m4 = m4
  Host = {h1, h2, h3}
  Gw = h1
  NoIp = NoIp
  Mac = {m1, m2, m3, m4}
  NoMac = NoMac
  Owns <- MCOwns
  Packet = {p1, p2}
  NoPbuf = NoPbuf
  ARP_TABLE_SIZE = 2
  ARP_MAXAGE = 2
  ARP_MAXPENDING = 2
  ARP_AGE_REREQUEST_USED = 1
SPECIFICATION BaseSpec
INVARIANTS RingConsistent  AnswersAccounted KeyUsedOnce PacketsAsSent MemorySound
INVARIANTS  TimersSound  ArpSound
PROPERTY ImplementsFifo
