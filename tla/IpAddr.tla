------------------------------- MODULE IpAddr -------------------------------
(***************************************************************************)
(* Internet addresses (core/ipv4/ip_addr.c): reading one from text         *)
(* (ipaddr_aton()), writing it (ipaddr_ntoa_r()), broadcast addresses and  *)
(* netmasks.  An address is a number of 4 * BITS bits in host order (BITS  *)
(* is 8 in the code, less here, as TLC's numbers have 32 bits); a text is  *)
(* a sequence of characters, of which digits are their values.  The state  *)
(* is a text that grows number by number.                                  *)
(***************************************************************************)
EXTENDS Naturals, Sequences, Bitwise

CONSTANTS BITS, Part, Base     \* bits of a byte; numbers and bases that occur

BYTE == 2 ^ BITS
SPAN == 2 ^ (4 * BITS)
IpAddrAssumption == BITS \in 4 .. 7 /\ Part \subseteq Nat /\ Base \subseteq {8, 10, 16}

\* Characters that are no digits: those of hexadecimal numbers are 10 to 15.
X     == 16
DOT   == 17
SPACE == 18

VARIABLES parts, base, text    \* the numbers, how they are written, and the text
vars == <<parts, base, text>>

RECURSIVE Digits(_, _)
Digits(n, b) == IF n < b THEN <<n>> ELSE Append(Digits(n \div b, b), n % b)
Prefix(b) == CASE b = 10 -> <<>> [] b = 8 -> <<0>> [] b = 16 -> <<0, X>>

Init == parts = <<>> /\ base \in Base /\ text = <<>>
AddPart(p) ==
  /\ Len(parts) < 4
  /\ parts' = Append(parts, p)
  /\ text' = (IF parts = <<>> THEN <<>> ELSE Append(text, DOT)) \o Prefix(base) \o Digits(p, base)
  /\ UNCHANGED base
Next == \E p \in Part : AddPart(p)
Spec == Init /\ [][Next]_vars
-----------------------------------------------------------------------------
(* The functions                                                           *)

Fail == SPAN                   \* no address
Char(s, i) == IF i <= Len(s) THEN s[i] ELSE SPACE      \* the end is like a blank
IsDigit(c) == c \in 0 .. 9
IsXDigit(c) == c \in 0 .. 15

\* The digits from i on; 8 and 9 are taken in an octal number.
RECURSIVE Collect(_, _, _, _)
Collect(s, i, b, val) ==
  LET c == Char(s, i)
  IN  IF IsDigit(c) \/ (b = 16 /\ IsXDigit(c))
      THEN Collect(s, i + 1, b, (val * b + c) % SPAN)
      ELSE [val |-> val, next |-> i]
\* A number as in C: 0x and hexadecimal, 0 and octal, or decimal.
Number(s, i) ==
  IF Char(s, i) = 0
  THEN IF Char(s, i + 1) = X THEN Collect(s, i + 2, 16, 0) ELSE Collect(s, i + 1, 8, 0)
  ELSE Collect(s, i, 10, 0)

\* The address of a, a.b, a.b.c or a.b.c.d: the last number fills the bytes that
\* are left and must fit; the others are not looked at.
Concoct(ps) ==
  LET n == Len(ps)
      high[i \in 0 .. n - 1] ==
        IF i = 0 THEN ps[n] ELSE high[i - 1] | ((ps[i] * BYTE ^ (4 - i)) % SPAN)
  IN  IF ps[n] >= BYTE ^ (5 - n) THEN Fail ELSE high[n - 1]

RECURSIVE AtonFrom(_, _, _)
AtonFrom(s, i, pp) ==
  LET n == Number(s, i)
      c == Char(s, n.next)
  IN  IF ~IsDigit(Char(s, i)) THEN Fail
      ELSE IF c = DOT THEN IF Len(pp) >= 3 THEN Fail ELSE AtonFrom(s, n.next + 1, Append(pp, n.val))
      ELSE IF c # SPACE THEN Fail ELSE Concoct(Append(pp, n.val))
IpaddrAton(s) == AtonFrom(s, 1, <<>>)

\* ipaddr_ntoa_r(): every byte with a dot behind it, the last of which becomes
\* the end of the string; no text (<<>>) if buflen is too small.
ByteOf(a, n) == (a \div BYTE ^ (4 - n)) % BYTE
IpaddrNtoa(a, buflen) ==
  LET all[n \in 0 .. 4] ==
        IF n = 0 THEN <<>> ELSE all[n - 1] \o Append(Digits(ByteOf(a, n), 10), DOT)
  IN  IF Len(all[4]) > buflen THEN <<>> ELSE SubSeq(all[4], 1, Len(all[4]) - 1)

\* Mask bits from the highest: the first zero, and no one behind it.
Bit(n, i) == (n \div 2 ^ i) % 2
NetmaskValid(m) ==
  LET zeros == {i \in 0 .. 4 * BITS - 1 : Bit(m, i) = 0}
  IN  zeros = {} \/ LET first == CHOOSE i \in zeros : \A j \in zeros : j <= i
                    IN  \A i \in 0 .. first : Bit(m, i) = 0

Inverted(n) == SPAN - 1 - n
\* ip4_addr_isbroadcast() on an interface with address ip and NETIF_FLAG_BROADCAST
\* or not.
IsBroadcast(a, ip, mask, flag) ==
  \/ a \in {0, SPAN - 1}
  \/ /\ flag /\ a # ip
     /\ a & mask = ip & mask
     /\ a & Inverted(mask) = (SPAN - 1) & Inverted(mask)
-----------------------------------------------------------------------------
(* Properties                                                              *)

\* What the numbers written say: each but the last is a byte.
Value ==
  LET n == Len(parts)
      sum[i \in 0 .. n - 1] == IF i = 0 THEN parts[n] ELSE sum[i - 1] + parts[i] * BYTE ^ (4 - i)
  IN  IF parts[n] >= BYTE ^ (5 - n) THEN Fail ELSE sum[n - 1]
BytesFit == \A i \in 1 .. Len(parts) - 1 : parts[i] < BYTE

\* A text in any of the forms and bases is read as the address it says; a number
\* too large for its place, a fifth number and a dot at the end are refused; and
\* the address written back, in a string of the size the callers give, is read as
\* the same one.
TextAsWritten ==
  parts # <<>> =>
    /\ BytesFit => IpaddrAton(text) = Value
    /\ IpaddrAton(Append(text, DOT)) = Fail
    /\ Len(parts) = 4 => IpaddrAton(Append(text, DOT) \o <<1>>) = Fail
    /\ BytesFit /\ Value # Fail =>
         LET shown == IpaddrNtoa(Value, 12) IN shown # <<>> /\ IpaddrAton(shown) = Value

\* A mask is valid when it is one of the prefixes, and on an interface with a valid
\* mask exactly the last address of its network is the broadcast address.
NetworkAddresses ==
  BytesFit /\ parts # <<>> /\ Value # Fail =>
    LET valid == {SPAN - 2 ^ k : k \in 0 .. 4 * BITS}
    IN  /\ NetmaskValid(Value) <=> Value \in valid
        /\ \A k \in {0, 1, 5} :
             LET mask == SPAN - 2 ^ k
                 last == (Value \div 2 ^ k) * 2 ^ k + 2 ^ k - 1
             IN  \A a \in {last, Value, (last + 1) % SPAN} \ {0, SPAN - 1} :
                   IsBroadcast(a, Value, mask, TRUE) <=> a = last /\ a # Value
=============================================================================
