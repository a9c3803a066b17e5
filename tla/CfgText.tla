------------------------------ MODULE CfgText -------------------------------
(***************************************************************************)
(* The words of the gateway's configuration file: addresses and ranges, as *)
(* ipsec_eval/parser.c reads them.                                         *)
(*                                                                         *)
(* A word is a sequence of symbols: 0..15 for the hexadecimal digits, and  *)
(* a negative number for each other character.  The numbers in it are      *)
(* below 2^31, where atoi is defined.                                      *)
(***************************************************************************)
EXTENDS Integers, Sequences

Dot    == -1
Colon  == -2
Slash  == -3
Letter == -4

Digit(ch)  == ch \in 0 .. 9
XDigit(ch) == ch \in 0 .. 15

Number(s) ==
  LET n[k \in 0 .. Len(s)] == IF k = 0 THEN 0 ELSE 10 * n[k - 1] + s[k]
  IN  n[Len(s)]

\* is_str_num, which an empty word passes, and atoi (0 for an empty word).
is_str_num(s) == \A k \in DOMAIN s : Digit(s[k])

Invalid == <<>>   \* the functions below return no address

\* inet_pton4: four octets, each digit checked as it comes.
inet_pton4(s) ==
  LET Step(st, ch) ==
        LET new == 10 * st.tmp[st.tp] + ch IN
        CASE ~ st.ok -> st
          [] Digit(ch) ->
               [st EXCEPT !.tmp[st.tp] = new % 256,
                          !.octets = IF st.saw THEN @ ELSE @ + 1,
                          !.saw = TRUE,
                          !.ok = new <= 255 /\ (st.saw \/ st.octets < 4)]
          [] ch = Dot /\ st.saw /\ st.octets < 4 ->
               [st EXCEPT !.tp = @ + 1, !.tmp[st.tp + 1] = 0, !.saw = FALSE]
          [] OTHER -> [st EXCEPT !.ok = FALSE]
      st[k \in 0 .. Len(s)] ==
        IF k = 0 THEN [tmp |-> <<0, 0, 0, 0>>, tp |-> 1, octets |-> 0,
                       saw |-> FALSE, ok |-> TRUE]
        ELSE Step(st[k - 1], s[k])
      end == st[Len(s)]
  IN  IF end.ok /\ end.octets = 4 THEN end.tmp ELSE Invalid

Zeros(n) == [k \in 1 .. n |-> 0]

\* Wrong on purpose: what follows "::" stays where it was written.
Spread6Left(tmp, colonp) == tmp \o Zeros(8 - Len(tmp))

\* What comes after "::" moves to the end of the address.
Spread6(tmp, colonp) ==
  SubSeq(tmp, 1, colonp) \o Zeros(8 - Len(tmp)) \o SubSeq(tmp, colonp + 1, Len(tmp))

\* inet_pton6: up to eight groups of up to four digits, "::" once, and an
\* IPv4 address for the last two groups.  tmp holds the groups up to tp;
\* colonp is -1 for NULL; tok is where the current group starts.
inet_pton6(src) ==
  LET lead == src # <<>> /\ src[1] = Colon
      s    == IF lead THEN Tail(src) ELSE src
      Group(st) == Append(st.tmp, st.val)
      V4(st)    == inet_pton4(SubSeq(s, st.tok, Len(s)))
      Step(st, k) ==
        LET ch == s[k] IN
        CASE ~ st.ok \/ st.done -> st
          [] XDigit(ch) ->
               [st EXCEPT !.val = 16 * @ + ch, !.count = @ + 1, !.ok = st.count < 4]
          [] ch = Colon /\ st.count = 0 ->
               [st EXCEPT !.tok = k + 1, !.colonp = Len(st.tmp), !.ok = st.colonp = -1]
          [] ch = Colon /\ st.count > 0 ->
               [st EXCEPT !.tok = k + 1, !.tmp = Group(st), !.val = 0, !.count = 0,
                          !.ok = k < Len(s) /\ Len(st.tmp) < 8]
          [] ch = Dot /\ Len(st.tmp) <= 6 /\ V4(st) # Invalid ->
               [st EXCEPT !.tmp = @ \o <<256 * V4(st)[1] + V4(st)[2],
                                        256 * V4(st)[3] + V4(st)[4]>>,
                          !.count = 0, !.done = TRUE]
          [] OTHER -> [st EXCEPT !.ok = FALSE]
      st[k \in 0 .. Len(s)] ==
        IF k = 0 THEN [tmp |-> <<>>, val |-> 0, count |-> 0, colonp |-> -1, tok |-> 1,
                       done |-> FALSE, ok |-> lead => s # <<>> /\ s[1] = Colon]
        ELSE Step(st[k - 1], k)
      end == st[Len(s)]
      tmp == IF end.count > 0 THEN Group(end) ELSE end.tmp
  IN  IF ~ end.ok \/ Len(tmp) > 8 THEN Invalid
      ELSE IF end.colonp = -1 THEN (IF Len(tmp) = 8 THEN tmp ELSE Invalid)
      ELSE IF Len(tmp) = 8 THEN Invalid ELSE Spread6(tmp, end.colonp)

\* The part before and the part after the first "/", if there is one.
Split(s) ==
  LET at == {k \in DOMAIN s : s[k] = Slash}
      n  == CHOOSE k \in at : \A l \in at : k <= l
  IN  IF at = {} THEN <<s, <<>>>> ELSE <<SubSeq(s, 1, n - 1), SubSeq(s, n + 1, Len(s))>>

\* parse_ipv4_addr and parse_ipv6_addr: the address and the depth, which is 0
\* when it is not given.  A part before the "/" of as many characters as the
\* longest address has, with its 0, is refused.  (It is copied to 256 bytes
\* without looking at its length: ConfigAssumption is about shorter words.)
INET_ADDRSTRLEN  == 16
INET6_ADDRSTRLEN == 46

Refused == [addr |-> Invalid, depth |-> 0]

WithDepth(addr, mask) ==
  IF addr = Invalid \/ ~ is_str_num(mask) THEN Refused
  ELSE [addr |-> addr, depth |-> Number(mask)]

parse_ipv4_addr(s) ==
  LET ip_str == Split(s)[1] IN
  IF Len(ip_str) >= INET_ADDRSTRLEN THEN Refused
  ELSE WithDepth(inet_pton4(ip_str), Split(s)[2])

parse_ipv6_addr(s) ==
  LET ip_str == Split(s)[1] IN
  IF Len(ip_str) >= INET6_ADDRSTRLEN THEN Refused
  ELSE WithDepth(inet_pton6(ip_str), Split(s)[2])

\* parse_range: the low 16 bits of both numbers of "low:high", Invalid if it
\* has a second ":", no digits at the end or a number of more than 19; low is
\* 65535, for -1, when there is no ":" at all.  Other characters are skipped.
parse_range(s) ==
  LET Colons   == {k \in DOMAIN s : s[k] = Colon}
      Digits(t) == SelectSeq(t, Digit)
      n        == CHOOSE k \in Colons : TRUE
      first    == IF Colons = {} THEN <<>> ELSE Digits(SubSeq(s, 1, n - 1))
      rest     == IF Colons = {} THEN Digits(s) ELSE Digits(SubSeq(s, n + 1, Len(s)))
      low      == IF Colons = {} THEN 65535 ELSE Number(first)
      bad      == rest = <<>> \/ Len(first) > 19 \/ Len(rest) > 19 \/ \E k, l \in Colons : k # l
  IN  IF bad THEN Invalid ELSE <<low % 65536, Number(rest) % 65536>>
=============================================================================
