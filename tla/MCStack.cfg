CONSTANTS
  Parts = {"txpath", "icmp", "ip", "tcprecv", "tcpsend", "tcpconn", "tcpslow"}
  RING = 3
  Buf = {b1, b2}
  Host = {x, y}
  Me = a
  Bcast = bcast
  Mcast = mcast
  HLen = {20, 24}
  MsgLen = {3, 4, 8}
  NoFrame = NoFrame
  UdpPcb = {u1, u2}
  RawPcb = {r1}
  Broadcast = {u1, u2}
  MyIp = {a, b}
  Peer = {x, y}
  Port = {7}
  RANGE_START = 8
  RANGE_END = 10
  ANY = any
  BCAST = bcast
  NoOne = none
  RecvBytes = 6
  TCP_WND = 5
  RecvMSS = 3
  SendBytes = 3
  SendMSS = 2
  TCP_SND_BUF = 3
  TCP_SND_QUEUELEN = 3
  TCP_MAXRTX = 1
  Windows = {0, 2}
  MaxCwnd = 4
  MaxInFlight = 2
  TcpPcb = {t1, t2, t3}
  TcpPort = {1, 2, 3}
  TcpPeer = {x, y}
  NoPcb = NoPcb
SPECIFICATION StackSpec
SYMMETRY Symmetric
INVARIANTS ReplyPbufSound PingsSound DatagramsReachPcb StreamReceived  
