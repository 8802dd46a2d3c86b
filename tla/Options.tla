------------------------------ MODULE Options -------------------------------
(***************************************************************************)
(* The options of a DHCP reply (core/dhcp.c: dhcp_parse_reply()).  They    *)
(* stand in the field options, and in the fields file and sname when an    *)
(* overload option says so; the message is a chain of pbufs that may be    *)
(* divided anywhere behind the fixed part, which is left out here: sname,  *)
(* file and options follow one another.  The state is a message that grows *)
(* option by option and is then divided.                                   *)
(*                                                                         *)
(* Well-formed messages only: an option ends in the field it begins in,    *)
(* and only the field options holds an overload option.                    *)
(***************************************************************************)
EXTENDS Naturals, Sequences, SequencesExt, FiniteSets, TLC

CONSTANTS
  Opts,                        \* the options that occur in the field options
  Fields,                      \* what file and sname may hold: pairs of lists of options
  FIELD_LEN,                   \* length of file and of sname
  DNS_MAX_SERVERS,
  MaxOpts, MaxCuts             \* bounds: options; divisions of the message

\* DHCP_OPTION_...
PAD          == 0
SUBNET_MASK  == 1
ROUTER       == 3
DNS_SERVER   == 6
LEASE_TIME   == 51
OVERLOAD     == 52
MESSAGE_TYPE == 53
SERVER_ID    == 54
T1           == 58
T2           == 59
END          == 255

\* An option as bytes; one for padding has neither length nor value.
Bytes(o) == IF o[1] = PAD THEN <<PAD>> ELSE <<o[1], Len(o) - 1>> \o Tail(o)
Encoded(os) == FlattenSeq([i \in 1 .. Len(os) |-> Bytes(os[i])])

OptionsAssumption ==
  /\ FIELD_LEN > 0 /\ DNS_MAX_SERVERS > 0
  /\ \A pair \in Fields, n \in 1 .. 2 :
       /\ Len(Encoded(pair[n])) <= FIELD_LEN
       /\ \A i \in 1 .. Len(pair[n]) : pair[n][i][1] # OVERLOAD

VARIABLES
  options, end,                \* the options, and whether END follows them
  file, sname,                 \* the options in the other fields
  cuts                         \* where one pbuf ends and the next begins
vars == <<options, end, file, sname, cuts>>

\* A field that is not filled by its options ends with END.
Field(f) == [i \in 1 .. FIELD_LEN |->
               LET e == Encoded(f) IN IF i <= Len(e) THEN e[i] ELSE END]
Message == Field(sname) \o Field(file) \o Encoded(options) \o (IF end THEN <<END>> ELSE <<>>)
SNAME_OFS == 0
FILE_OFS == FIELD_LEN
OPTIONS_OFS == 2 * FIELD_LEN

\* The message as pbufs.
Chain ==
  LET at == SetToSortSeq(cuts, <)
      bound == <<0>> \o at \o <<Len(Message)>>
  IN  [i \in 1 .. Len(at) + 1 |-> SubSeq(Message, bound[i] + 1, bound[i + 1])]

Init ==
  /\ options = <<>> /\ end \in BOOLEAN /\ cuts = {}
  /\ \E pair \in Fields : file = pair[1] /\ sname = pair[2]
AddOption(o) ==
  /\ cuts = {} /\ Len(options) < MaxOpts
  /\ options' = Append(options, o)
  /\ UNCHANGED <<end, file, sname, cuts>>
Divide(k) ==
  /\ options # <<>> /\ Cardinality(cuts) < MaxCuts
  /\ cuts' = cuts \cup {k}
  /\ UNCHANGED <<options, end, file, sname>>
Next ==
  \/ \E o \in Opts : AddOption(o)
  \/ \E k \in 1 .. Len(Message) - 1 : Divide(k)
Spec == Init /\ [][Next]_vars
-----------------------------------------------------------------------------
\* The tests of an option's length; the parser gives up when one fails.
LenOk(op, len) ==
  /\ op \in {SUBNET_MASK, LEASE_TIME, SERVER_ID, T1, T2} => len = 4
  /\ op \in {OVERLOAD, MESSAGE_TYPE} => len = 1
  /\ op = ROUTER => len >= 4
  /\ op = DNS_SERVER => len % 4 = 0
\* decode_len: of several routers the first, of several servers as many as are kept.
DecodeLen(op, len) ==
  CASE op = ROUTER -> 4
    [] op = DNS_SERVER -> IF len < 4 * DNS_MAX_SERVERS THEN len ELSE 4 * DNS_MAX_SERVERS
    [] op \in {SUBNET_MASK, LEASE_TIME, OVERLOAD, MESSAGE_TYPE, SERVER_ID, T1, T2} -> len
    [] OTHER -> 0

\* From decode_next on: the values v, four bytes each, go to the slots of op, unless
\* the option was given before.
Take(got, op, v) ==
  IF v = <<>> \/ <<op, 0>> \in DOMAIN got THEN got
  ELSE got @@ [s \in {op} \X (0 .. (Len(v) - 1) \div 4) |->
                 SubSeq(v, 4 * s[2] + 1, IF Len(v) < 4 THEN Len(v) ELSE 4 * s[2] + 4)]

\* pbuf_copy_partial() from pbuf q on (see Chain for its loop).
CopyPartial(c, q, len, offset) ==
  SubSeq(FlattenSeq(SubSeq(c, q, Len(c))), offset + 1, offset + len)

\* The loop over the options from offset in pbuf q to max; the result is what was
\* got, or an error.  An option moves on by one pbuf at the most: if the next one
\* begins further on, the code reads behind the end of a pbuf ("beyond").
RECURSIVE Loop(_, _, _, _, _)
Loop(c, q, offset, max, got) ==
  IF offset >= Len(c[q]) THEN [got |-> got, err |-> "beyond"]
  ELSE IF c[q][offset + 1] = END \/ offset >= max THEN [got |-> got, err |-> "OK"]
  ELSE LET op == c[q][offset + 1]
           given == IF offset + 1 < Len(c[q]) THEN c[q][offset + 2]
                    ELSE IF q < Len(c) THEN c[q + 1][1] ELSE 0
           len == IF op = PAD THEN 0 ELSE given
           next == IF op = PAD THEN offset + 1 ELSE offset + len + 2
           now == Take(got, op, CopyPartial(c, q, DecodeLen(op, len), offset + 2))
       IN  IF ~LenOk(op, len) THEN [got |-> got, err |-> "ERR_VAL"]
           ELSE IF next < Len(c[q]) THEN Loop(c, q, next, max, now)
           ELSE IF next >= max THEN [got |-> now, err |-> "OK"]
           ELSE Loop(c, q + 1, next - Len(c[q]), max - Len(c[q]), now)

\* From again on: the pbuf where a field begins; none is an error.
ParseField(c, idx, max, got) ==
  LET before(q) == Len(FlattenSeq(SubSeq(c, 1, q - 1)))
      in == {q \in 1 .. Len(c) : before(q) <= idx /\ idx < before(q) + Len(c[q])}
  IN  IF in = {} THEN [got |-> got, err |-> "ERR_BUF"]
      ELSE LET q == CHOOSE q \in in : TRUE
           IN  Loop(c, q, idx - before(q), max - before(q), got)

\* dhcp_parse_reply(): options, then file, then sname.
Cleared(got) == [s \in DOMAIN got \ {<<OVERLOAD, 0>>} |-> got[s]]
DhcpParseReply(c) ==
  LET first == ParseField(c, OPTIONS_OFS, Len(FlattenSeq(c)), <<>>)
      over == IF <<OVERLOAD, 0>> \in DOMAIN first.got THEN first.got[<<OVERLOAD, 0>>][1] ELSE 0
      then(r, use, ofs) ==
        IF r.err # "OK" \/ ~use THEN r ELSE ParseField(c, ofs, ofs + FIELD_LEN, r.got)
      r == then(then([first EXCEPT !.got = IF first.err = "OK" THEN Cleared(@) ELSE @],
                     over \in {1, 3}, FILE_OFS),
                over \in {2, 3}, SNAME_OFS)
  IN  r
-----------------------------------------------------------------------------
(* Properties                                                              *)

\* What a list of options says: the first of each kind counts, and one of a wrong
\* length spoils the message.
Said(os) ==
  LET step(r, o) ==
        IF r.err # "OK" THEN r
        ELSE IF o[1] = PAD THEN r
        ELSE IF ~LenOk(o[1], Len(o) - 1) THEN [r EXCEPT !.err = "ERR_VAL"]
        ELSE [r EXCEPT !.got = Take(@, o[1], SubSeq(Tail(o), 1, DecodeLen(o[1], Len(o) - 1)))]
  IN  FoldLeft(step, [got |-> <<>>, err |-> "OK"], os)

\* However the message is divided, and whichever fields hold its options, the
\* parser takes from it what it says, unless an option crosses two pbufs.
OptionsAsSaid ==
  LET over == LET g == Said(options).got
              IN  IF <<OVERLOAD, 0>> \in DOMAIN g THEN g[<<OVERLOAD, 0>>][1] ELSE 0
      all == options \o (IF over \in {1, 3} THEN file ELSE <<>>)
                     \o (IF over \in {2, 3} THEN sname ELSE <<>>)
      want == Said(all)
      have == DhcpParseReply(Chain)
  IN  options # <<>> /\ have.err # "beyond" =>
        /\ have.err = want.err
        /\ have.err = "OK" => have.got = Cleared(want.got)
=============================================================================
