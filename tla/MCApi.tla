------------------------------- MODULE MCApi --------------------------------
(***************************************************************************)
(* The programming interfaces of lwIP and its configuration protocols for  *)
(* TLC: netconn (Netconn), sockets and select (Sockets), DHCP (Dhcp) and   *)
(* the options of its messages (Options), DNS (Dns), AutoIP (AutoIp), IGMP *)
(* (Igmp) and addresses as text (IpAddr).  A behaviour is one of the       *)
(* component that part names; the variables of the others keep their       *)
(* initial state (Sockets, Igmp) or the value Rest.                        *)
(*                                                                         *)
(* Bounds: two netconns with mailboxes of one message; two sockets and two *)
(* threads that select both; two addresses and five DHCP transactions, one *)
(* of the leases infinite; a DNS table of two entries with two servers;    *)
(* seeds at both ends of the AutoIP range; two groups; messages of two     *)
(* options, divided twice; addresses of four times four bits.              *)
(***************************************************************************)
EXTENDS Sockets, Igmp, TLC

CONSTANTS
  Parts,                                                     \* the components of a run
  MaxConn, RECVMBOX_SIZE, ACCEPTMBOX_SIZE, SND_BUF, SNDLOWAT, WriteSizes, MaxData, MaxHeld,
  Addr, NoAddr, Lease, Failing, SELECT_TRIES, REBIND_TRIES, REBOOT_TRIES, MaxXid,
  DNS_TABLE_SIZE, DNS_MAX_SERVERS, DNS_MAX_RETRIES, SEQNO, Name, TTL, ErrCallbackAsks, MaxReq,
  Seed, PROBE_NUM, ANNOUNCE_NUM, ANNOUNCE_WAIT, ANNOUNCE_INTERVAL, MAX_CONFLICTS,
  RATE_LIMIT_INTERVAL, DEFEND_INTERVAL, Wait, MaxTried,
  Opts, Fields, FIELD_LEN, MaxOpts, MaxCuts,
  BITS, Part, Base

VARIABLES
  part,
  conns, app, inbox,
  state, tries, timer, t1, t2, lease, xid, nextXid, offered, ip, up, sent, fresh, renewed,
  dns_table, dns_seqno, peer, asked, waiting, requests,
  seed, autoState, ttw, sent_num, lastconflict, tried_llipaddr, llipaddr, autoIp, autoUp, probes,
  abandoned,
  options, end, file, sname, cuts,
  parts, base, text

Con  == INSTANCE Netconn
Dhc  == INSTANCE Dhcp
Res  == INSTANCE Dns
Auto == INSTANCE AutoIp WITH state <- autoState, ip <- autoIp, up <- autoUp
Opt  == INSTANCE Options
Address == INSTANCE IpAddr

ASSUME NetconnHolds == Con!NetconnAssumption
ASSUME DhcpHolds    == Dhc!DhcpAssumption
ASSUME DnsHolds     == Res!DnsAssumption
ASSUME AutoIpHolds  == Auto!AutoIpAssumption
ASSUME OptionsHolds == Opt!OptionsAssumption
ASSUME IpAddrHolds  == Address!IpAddrAssumption

MCWants == {{<<1, "read">>, <<2, "read">>}}
MCLease == {[t1 |-> 1, t2 |-> 2], [t1 |-> 2, t2 |-> 2], [t1 |-> 0, t2 |-> 0]}
MCName  == {<<"a">>, <<"b">>}
\* Padding, a message type, an overload, three servers, and a server of a wrong length.
MCOpts == {<<0>>, <<53, 5>>, <<52, 3>>, <<6, 9, 9, 9, 1, 9, 9, 9, 2, 9, 9, 9, 3>>, <<54, 1>>}
\* A lease time in one field, and a message type among padding in the other.
MCField1 == <<<<51, 0, 0, 3, 4>>>>
MCField2 == <<<<0>>, <<53, 7>>, <<0>>, <<0>>>>
MCFields == {<<MCField1, MCField2>>, <<MCField2, MCField1>>}

\* The threads are alike.
Symmetric == Permutations(Thread)

conVars  == <<conns, app, inbox>>
dhcVars  == <<state, tries, timer, t1, t2, lease, xid, nextXid, offered, ip, up, sent, fresh,
              renewed>>
resVars  == <<dns_table, dns_seqno, peer, asked, waiting, requests>>
autoVars == <<seed, autoState, ttw, sent_num, lastconflict, tried_llipaddr, llipaddr, autoIp,
              autoUp, probes, abandoned>>
parsVars == <<options, end, file, sname, cuts, parts, base, text>>
apiVars  == <<part, conVars, socketVars, dhcVars, resVars, autoVars, igmpVars, parsVars>>

Rest == 0        \* a variable of a component that does not step

ApiInit ==
  /\ part \in Parts /\ SocketsInit /\ IgmpInit
  /\ IF part = "netconn" THEN Con!Init ELSE conns = Rest /\ app = Rest /\ inbox = Rest
  /\ IF part = "dhcp" THEN Dhc!Init
     ELSE /\ state = Rest /\ tries = Rest /\ timer = Rest /\ t1 = Rest /\ t2 = Rest
          /\ lease = Rest /\ xid = Rest /\ nextXid = Rest /\ offered = Rest /\ ip = Rest
          /\ up = Rest /\ sent = Rest /\ fresh = Rest /\ renewed = Rest
  /\ IF part = "dns" THEN Res!Init
     ELSE /\ dns_table = Rest /\ dns_seqno = Rest /\ peer = Rest /\ asked = Rest
          /\ waiting = Rest /\ requests = Rest
  /\ IF part = "autoip" THEN Auto!Init
     ELSE /\ seed = Rest /\ autoState = Rest /\ ttw = Rest /\ sent_num = Rest
          /\ lastconflict = Rest /\ tried_llipaddr = Rest /\ llipaddr = Rest /\ autoIp = Rest
          /\ autoUp = Rest /\ probes = Rest /\ abandoned = Rest
  /\ IF part = "options" THEN Opt!Init
     ELSE options = Rest /\ end = Rest /\ file = Rest /\ sname = Rest /\ cuts = Rest
  /\ IF part = "ipaddr" THEN Address!Init ELSE parts = Rest /\ base = Rest /\ text = Rest

NetconnStep ==
  /\ part = "netconn" /\ Con!Next
  /\ UNCHANGED <<part, socketVars, dhcVars, resVars, autoVars, igmpVars, parsVars>>
SocketsStep ==
  /\ part = "sockets" /\ SocketsNext
  /\ UNCHANGED <<part, conVars, dhcVars, resVars, autoVars, igmpVars, parsVars>>
DhcpStep ==
  /\ part = "dhcp" /\ Dhc!Next
  /\ UNCHANGED <<part, conVars, socketVars, resVars, autoVars, igmpVars, parsVars>>
DnsStep ==
  /\ part = "dns" /\ Res!Next
  /\ UNCHANGED <<part, conVars, socketVars, dhcVars, autoVars, igmpVars, parsVars>>
AutoIpStep ==
  /\ part = "autoip" /\ Auto!Next
  /\ UNCHANGED <<part, conVars, socketVars, dhcVars, resVars, igmpVars, parsVars>>
IgmpStep ==
  /\ part = "igmp" /\ IgmpNext
  /\ UNCHANGED <<part, conVars, socketVars, dhcVars, resVars, autoVars, parsVars>>
OptionsStep ==
  /\ part = "options" /\ Opt!Next
  /\ UNCHANGED <<part, conVars, socketVars, dhcVars, resVars, autoVars, igmpVars,
                 parts, base, text>>
IpAddrStep ==
  /\ part = "ipaddr" /\ Address!Next
  /\ UNCHANGED <<part, conVars, socketVars, dhcVars, resVars, autoVars, igmpVars,
                 options, end, file, sname, cuts>>

\* A thread may wait for a peer for ever, and the transactions, options and numbers
\* are bounded.
Rests == part \in {"netconn", "dhcp", "options", "ipaddr"} /\ UNCHANGED apiVars

ApiNext ==
  \/ NetconnStep \/ SocketsStep \/ DhcpStep \/ DnsStep \/ AutoIpStep \/ IgmpStep
  \/ OptionsStep \/ IpAddrStep
  \/ Rests

ApiSpec == ApiInit /\ [][ApiNext]_apiVars

-----------------------------------------------------------------------------
\* A call of the application ends once, its reader gets the stream, and a writer
\* that waits will be told of room (Netconn).
NetconnSound ==
  part = "netconn" =>
    Con!CallEndsOnce /\ Con!StreamReachesReader /\ Con!WriterWillBeTold

\* A client that waits has a timer, and its address was granted to the request it
\* made last (Dhcp); its messages are read as they say, however they are divided
\* among pbufs (Options); an AutoIP address was probed before it is used (AutoIp);
\* and an address read from text is the one written there (IpAddr).
AddressesSound ==
  /\ part = "dhcp" => Dhc!ClientWakes /\ Dhc!LeaseIsGranted
  /\ part = "options" => Opt!OptionsAsSaid
  /\ part = "autoip" => Auto!AddressProbed
  /\ part = "ipaddr" => Address!TextAsWritten /\ Address!NetworkAddresses

\* Every request ends with one callback, and the address in the table is one that
\* a server gave for that name (Dns).
NamesResolved == part = "dns" => Res!EveryRequestEnds /\ Res!AddressOfName
=============================================================================
