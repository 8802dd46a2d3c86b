CONSTANTS
  Host = {h1, h2}
  NoHost = NoHost
  Pbuf = {p1, p2, p3, p4}
  NoPbuf = NoPbuf
  UDP_RX_Q_SIZE = 2
  UDP_TX_Q_SIZE = 2
  MaxDatagrams = 3
SPECIFICATION Spec
INVARIANT RxPbufsReturned
