CONSTANTS
  Parts = {"udpio", "netservice", "emac"}
  Host = {h1, h2}
  NoHost = NoHost
  Pbuf = {p1, p2, p3, p4}
  NoPbuf = NoPbuf
  UDP_RX_Q_SIZE = 2
  UDP_TX_Q_SIZE = 2
  MaxDatagrams = 3
  MESSAGE_QUEUE_SIZE = 2
  LPC_NUM_BUFF_TXDESCS = 2
  LPC_NUM_BUFF_RXDESCS = 3
  RxPbuf = {r1, r2, r3}
  NoRxPbuf = NoRxPbuf
  MaxChain = 2
  MaxPerPass = 1
  MaxTxFrames = 3
  MaxRxFrames = 3
SPECIFICATION FairNetwork
INVARIANTS PoolMatchesTxQueue RepliesSentOnceInOrder QueuedPbufsHeld
INVARIANTS ServesOnlyWhenReady ConnectedToLatestSender LinkStateAgrees DriverMemorySafe
PROPERTIES QueuesDrain ImplementsUdpLink LinkFollowed 
