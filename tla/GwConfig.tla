------------------------------ MODULE GwConfig ------------------------------
(***************************************************************************)
(* The configuration file of ipsec_eval: parse_cfg_file reads it line by   *)
(* line into the arrays of sa.c, sp4.c, sp6.c and rt.c, and sa_init,       *)
(* sp4_init, sp6_init and rt_init build the tables of a socket from them.  *)
(*                                                                         *)
(* The parser runs alone, so its steps are the lines it reads and the      *)
(* items of a statement, in whatever order the file has them.  Each item   *)
(* is kept as what the code stored and what the file says, so that the two *)
(* can be compared.  A value of 32 bits is the sequence of its bytes, most *)
(* significant first, on a little-endian machine.  Comments and blank      *)
(* lines change nothing, not even a continued line they interrupt.         *)
(***************************************************************************)
EXTENDS CfgText, FiniteSets, TLC, SequencesExt

CONSTANTS
  MaxRules,      \* the length of each array
  MaxChars,      \* what str can hold (1022)
  MaxTokens,     \* the length of tokens (32)
  SaEntries,     \* IPSEC_SA_MAX_ENTRIES
  Spi,           \* the numbers that occur as SPIs
  Cipher, Auth,  \* the algorithms that occur
  Text4, Text6,  \* words for addresses: [text, means, depth]
  TextRange,     \* words for ranges: [text, means], which may be Loose
  Pri, Port      \* the numbers that occur as priorities and as ports

Tables == {"sa_in", "sa_out", "sp4_in", "sp4_out", "sp6_in", "sp6_out", "rt4", "rt6"}
IsSa(t)  == t \in {"sa_in", "sa_out"}
IsSp4(t) == t \in {"sp4_in", "sp4_out"}
IsSp6(t) == t \in {"sp6_in", "sp6_out"}

ASSUME ConfigAssumption ==
  /\ MaxRules \in [Tables -> Nat] /\ MaxChars \in Nat
  /\ MaxTokens \in Nat /\ MaxTokens > 16   \* more than the longest statement
  /\ \A w \in Text4 \union Text6 : Len(w.text) < 256   \* sizeof(ip_str)
  /\ SaEntries \in Nat \ {0} /\ Spi \subseteq Nat /\ Pri \subseteq Nat /\ Port \subseteq Nat

VARIABLES
  pc,       \* where main and the functions it calls are
  file,     \* the statements still in the file, by the table each is for
  chars,    \* strlen(str): the characters of a statement read so far
  line,     \* the statement in str: its table, and has it more than MaxTokens words
  status,   \* status.status
  ti,       \* the words parsed
  items,    \* what the statement gave so far: keyword :> [got, says]
  rules,    \* the arrays sa_in, acl4_rules_out, rt_ip4 and so on
  sad, acl, lpm   \* the tables of the socket

vars == <<pc, file, chars, line, status, ti, items, rules, sad, acl, lpm>>

NoItems == [k \in {} |-> 0]
With(f, k, v) == [x \in DOMAIN f \union {k} |-> IF x = k THEN v ELSE f[x]]
NoLine  == [table |-> "other", more |-> FALSE]
NoSa    == [spi |-> 0]
Null    == NoItems         \* a table nobody has made

InitConfig ==
  /\ chars = 0 /\ line = NoLine /\ status = 0 /\ ti = 0 /\ items = NoItems
  /\ rules = [t \in Tables |-> <<>>]
  /\ sad = [t \in {"sa_in", "sa_out"} |-> Null]
  /\ acl = [t \in {"sp4_in", "sp4_out", "sp6_in", "sp6_out"} |-> <<>>]
  /\ lpm = [t \in {"rt4", "rt6"} |-> NoItems]

Tabs == <<sad, acl, lpm>>

-----------------------------------------------------------------------------
(* parse_cfg_file *)

\* rte_panic, rte_exit or a null pointer: the process is gone, with what the
\* statement gave so far.
Stop ==
  /\ pc' = "stopped" /\ ti' = 0 /\ items' = NoItems
  /\ UNCHANGED <<file, chars, line, status, rules, Tabs>>

\* Wrong on purpose: the room is not checked.
ReadContinuedAny(n) ==
  /\ pc = "file" /\ file # <<>> /\ chars <= MaxChars
  /\ chars' = chars + n
  /\ UNCHANGED <<pc, file, line, status, ti, items, rules, Tabs>>

\* A line that ends in a backslash is kept, if there is room.
ReadContinued(n) ==
  /\ pc = "file" /\ file # <<>> /\ chars + n <= MaxChars
  /\ chars' = chars + n
  /\ UNCHANGED <<pc, file, line, status, ti, items, rules, Tabs>>

\* Too long a line, or something after the backslash.
ReadRefused == pc = "file" /\ file # <<>> /\ Stop

\* The last line of a statement goes to cmdline_parse, which finds the parser
\* by the first word.
ReadLast(n, more) ==
  /\ pc = "file" /\ file # <<>> /\ chars + n <= MaxChars
  /\ chars' = chars + n
  /\ line' = [table |-> Head(file), more |-> more]
  /\ file' = Tail(file)
  /\ pc' = "parse"
  /\ UNCHANGED <<status, ti, items, rules, Tabs>>

Unrecognized == pc = "parse" /\ line.table = "other" /\ Stop

\* After the statement: str is cleared, unless the statement was refused.
NextLine ==
  /\ pc = "parsed" /\ status = 0
  /\ pc' = "file" /\ chars' = 0 /\ line' = NoLine
  /\ UNCHANGED <<file, status, ti, items, rules, Tabs>>

LineRefused == pc = "parsed" /\ status = -1 /\ Stop

\* What is left in str at the end of the file is dropped.
EndOfFile ==
  /\ pc = "file"
  /\ file = <<>> \/ (chars > 0 /\ Len(file) = 1)
  /\ pc' = "read"
  /\ UNCHANGED <<file, chars, line, status, ti, items, rules, Tabs>>

-----------------------------------------------------------------------------
(* What the parsers of the statements share: the macros of parser.h. *)

\* APP_CHECK fails: status is set and the parser returns.  A word can be
\* missing, unknown, malformed or repeated at any point of a statement.
Refuse ==
  /\ status' = -1 /\ pc' = "parsed" /\ ti' = 0 /\ items' = NoItems
  /\ UNCHANGED <<file, chars, line, rules, Tabs>>

RefuseLine == pc = "items" /\ Refuse

\* APP_CHECK_PRESENCE
Fresh(k) == k \notin DOMAIN items

\* The next n words give item k; a later one replaces an earlier one.
Item(n, k, v) ==
  /\ pc = "items" /\ ti + n <= MaxTokens
  /\ ti' = ti + n
  /\ items' = With(items, k, v)
  /\ UNCHANGED <<pc, file, chars, line, status, rules, Tabs>>

Plain(v) == [got |-> v, says |-> v]
Room     == Len(rules[line.table]) <= MaxRules[line.table] - 1

\* The first words of a statement.  status becomes 0 again: for a statement
\* "sa" that has too many words, the first check undoes the refusal.
Open(n, first) ==
  /\ pc = "parse" /\ Room
  /\ pc' = "items" /\ ti' = n /\ items' = first /\ status' = 0
  /\ UNCHANGED <<file, chars, line, rules, Tabs>>

\* All the words are used, and the rule is counted.
Close ==
  /\ pc = "items"
  /\ line.more => ti = MaxTokens
  /\ pc' = "parsed" /\ ti' = 0 /\ items' = NoItems
  /\ rules' = [rules EXCEPT ![line.table] = Append(@, items)]
  /\ UNCHANGED <<file, chars, line, status, Tabs>>

TooManyRules == pc = "parse" /\ line.table # "other" /\ ~ Room /\ Refuse

\* cfg_sp_add_cfg_item_parsed and cfg_rt_add_cfg_item_parsed return at once;
\* cfg_sa_add_cfg_item_parsed does not.
TooManyWords ==
  /\ pc = "parse" /\ line.more /\ line.table # "other" /\ ~ IsSa(line.table)
  /\ Refuse

s_addr(bytes)  == Reverse(bytes)   \* an address of the network read as a number
rte_bswap32(n) == Reverse(n)

-----------------------------------------------------------------------------
(* sa: security associations *)

cipher_algos ==
  "null"        :> [iv_len |-> 0,  block_size |-> 4,  key_len |-> 0]  @@
  "aes-128-cbc" :> [iv_len |-> 16, block_size |-> 16, key_len |-> 16] @@
  "aes-128-gcm" :> [iv_len |-> 8,  block_size |-> 16, key_len |-> 20] @@
  "aes-128-ctr" :> [iv_len |-> 8,  block_size |-> 16, key_len |-> 20]

auth_algos ==
  "null"        :> [digest_len |-> 0,  key_len |-> 0,  key_not_req |-> TRUE]  @@
  "sha1-hmac"   :> [digest_len |-> 12, key_len |-> 20, key_not_req |-> FALSE] @@
  "sha256-hmac" :> [digest_len |-> 12, key_len |-> 32, key_not_req |-> FALSE] @@
  "aes-128-gcm" :> [digest_len |-> 16, key_len |-> 0,  key_not_req |-> TRUE]

SaOpen(n) == IsSa(line.table) /\ Open(2, With(NoItems, "spi", Plain(n)))

\* Wrong on purpose: mode may come again.
SaModeAgain(mode) == IsSa(line.table) /\ Item(2, "mode", Plain(mode))

SaMode(mode) == IsSa(line.table) /\ Fresh("mode") /\ Item(2, "mode", Plain(mode))

\* A key of the algorithm's length follows, except for "null"; the last four
\* bytes of a CTR or GCM key are the salt.
SaCipher(name) ==
  LET algo == cipher_algos[name]
      salt == IF name \in {"aes-128-ctr", "aes-128-gcm"} THEN 4 ELSE 0
  IN  /\ IsSa(line.table) /\ Fresh("cipher")
      /\ Item(IF name = "null" THEN 2 ELSE 4,
              "cipher", Plain([name |-> name, iv_len |-> algo.iv_len,
                               block_size |-> algo.block_size,
                               key_len |-> algo.key_len - salt]))

\* An unknown algorithm is reported, and its entry read all the same.
SaUnknownAlgo == IsSa(line.table) /\ pc = "items" /\ Stop

\* The length of the additional data is set to that of the key.
SaAuth(name) ==
  LET algo == auth_algos[name]
  IN  /\ IsSa(line.table) /\ Fresh("auth")
      /\ Item(IF algo.key_not_req THEN 2 ELSE 4,
              "auth", Plain([name |-> name, digest_len |-> algo.digest_len,
                             key_len |-> algo.key_len, aad_len |-> algo.key_len]))

\* Wrong on purpose: the number is stored as the network has it.
SaParsedRaw(mode, w) ==
  IF mode = "ipv4-tunnel" THEN s_addr(parse_ipv4_addr(w.text).addr)
  ELSE parse_ipv6_addr(w.text).addr

\* The address as rule->src or rule->dst keeps it.
SaParsed(mode, w) ==
  IF mode = "ipv4-tunnel" THEN rte_bswap32(s_addr(parse_ipv4_addr(w.text).addr))
  ELSE parse_ipv6_addr(w.text).addr

SaText(mode) == IF mode = "ipv4-tunnel" THEN Text4 ELSE Text6

\* src or dst of a tunnel.
SaAddr(k, w) ==
  /\ IsSa(line.table) /\ Fresh(k)
  /\ "mode" \in DOMAIN items
  /\ LET mode == items["mode"].got IN
     /\ mode # "transport" /\ w \in SaText(mode)
     /\ SaParsed(mode, w) # Invalid
     /\ Item(2, k, [got |-> SaParsed(mode, w), says |-> w.means])

\* Before the mode is known the address is skipped, whatever it is.
SaEarlyAddr(k) ==
  /\ IsSa(line.table) /\ Fresh(k)
  /\ "mode" \notin DOMAIN items
  /\ Item(2, k, [got |-> Invalid, says |-> Invalid])

SaClose == IsSa(line.table) /\ {"cipher", "auth", "mode"} \subseteq DOMAIN items /\ Close

parse_sa_tokens ==
  \/ \E n \in Spi : SaOpen(n)
  \/ \E mode \in {"ipv4-tunnel", "ipv6-tunnel", "transport"} : SaMode(mode)
  \/ \E name \in Cipher : SaCipher(name)
  \/ \E name \in Auth : SaAuth(name)
  \/ SaUnknownAlgo
  \/ \E k \in {"src", "dst"} : SaEarlyAddr(k) \/ \E w \in Text4 \union Text6 : SaAddr(k, w)
  \/ SaClose

-----------------------------------------------------------------------------
(* sp: security policies *)

DISCARD   == 8 * SaEntries   \* the two top bits of a number of 32 bits
BYPASS    == 4 * SaEntries
SPI2IDX(spi) == spi % SaEntries

\* Wrong on purpose: the number is not cut to an index.
PROTECT_SPI(n) == n

PROTECT(n) == SPI2IDX(n)

\* protect, bypass and discard exclude each other and themselves.
Policy(k, n, v) == Fresh("policy") /\ Item(n, "policy", [got |-> v, says |-> k])

SpPolicy ==
  \/ \E n \in Spi : Policy(<<"protect", n>>, 2, PROTECT(n))
  \/ Policy(<<"bypass">>, 1, BYPASS)
  \/ Policy(<<"discard">>, 1, DISCARD)

SpEsp == Fresh("esp") /\ Item(1, "esp", Plain(TRUE))
SpPri(n) == Fresh("pri") /\ Item(2, "pri", Plain(n))

\* What a word for a range means that is not "from:to", or with numbers of more
\* than 16 bits, and that parse_range takes all the same.
Loose == <<"loose">>

Range16(w) == parse_range(w.text)

SpPorts(k, w) ==
  /\ Fresh(k) /\ Range16(w) # Invalid
  /\ Item(2, k, [got |-> Range16(w), says |-> w.means])

SpProto(w) ==
  /\ Range16(w) # Invalid => Range16(w)[1] <= 255 /\ Range16(w)[2] <= 255
  /\ SpPorts("proto", w)

SpClose == {"esp", "policy"} \subseteq DOMAIN items /\ Close

Says(w) == [addr |-> w.means, depth |-> w.depth]

\* src or dst of an IPv4 policy: the value and the depth of one field.
Sp4Addr(k, w) ==
  LET p == parse_ipv4_addr(w.text) IN
  /\ Fresh(k) /\ p.addr # Invalid
  /\ Item(2, k, [got |-> [addr |-> rte_bswap32(s_addr(p.addr)), depth |-> p.depth],
                 says |-> Says(w)])

parse_sp4_tokens ==
  /\ IsSp4(line.table)
  /\ \/ ~ line.more /\ Open(2, NoItems)
     \/ SpPolicy \/ SpEsp
     \/ \E n \in Pri : SpPri(n)
     \/ \E k \in {"src", "dst"}, w \in Text4 : Sp4Addr(k, w)
     \/ \E w \in TextRange : SpProto(w) \/ SpPorts("sport", w) \/ SpPorts("dport", w)
     \/ SpClose

\* An IPv6 address is matched by four fields of 32 bits, and its depth is
\* shared out among them.
Fields(addr, depth) ==
  LET left(k) == IF depth > 32 * (k - 1) THEN depth - 32 * (k - 1) ELSE 0 IN
  [k \in 1 .. 4 |-> [value |-> <<addr[2 * k - 1], addr[2 * k]>>,
                     mask |-> IF left(k) > 32 THEN 32 ELSE left(k)]]

Sp6Addr(k, w) ==
  LET p == parse_ipv6_addr(w.text) IN
  /\ Fresh(k) /\ p.addr # Invalid
  /\ Item(2, k, [got |-> [field |-> Fields(p.addr, p.depth)], says |-> Says(w)])

parse_sp6_tokens ==
  /\ IsSp6(line.table)
  /\ \/ ~ line.more /\ Open(2, NoItems)
     \/ SpPolicy \/ SpEsp
     \/ \E n \in Pri : SpPri(n)
     \/ \E k \in {"src", "dst"}, w \in Text6 : Sp6Addr(k, w)
     \/ \E w \in TextRange : SpProto(w) \/ SpPorts("sport", w) \/ SpPorts("dport", w)
     \/ SpClose

-----------------------------------------------------------------------------
(* rt: routes *)

\* dst: the depth becomes a uint8_t.  A second dst replaces the first.
Rt4Dst(w) ==
  LET p == parse_ipv4_addr(w.text) IN
  /\ line.table = "rt4" /\ p.addr # Invalid
  /\ Item(2, "dst", [got |-> [addr |-> rte_bswap32(s_addr(p.addr)), depth |-> p.depth % 256],
                     says |-> Says(w)])

Rt6Dst(w) ==
  LET p == parse_ipv6_addr(w.text) IN
  /\ line.table = "rt6" /\ p.addr # Invalid
  /\ Item(2, "dst", [got |-> [addr |-> p.addr, depth |-> p.depth % 256], says |-> Says(w)])

RtPort(n) == Item(2, "port", [got |-> n % 256, says |-> n])

\* A word that is neither is skipped, and nothing is mandatory.
RtUnknown ==
  /\ pc = "items" /\ ti < MaxTokens
  /\ ti' = ti + 1
  /\ UNCHANGED <<pc, file, chars, line, status, items, rules, Tabs>>

RtOpen == ~ line.more /\ Open(1, NoItems)

parse_rt_tokens ==
  /\ line.table \in {"rt4", "rt6"}
  /\ \/ RtOpen
     \/ \E w \in Text4 : Rt4Dst(w)
     \/ \E w \in Text6 : Rt6Dst(w)
     \/ \E n \in Port : RtPort(n)
     \/ RtUnknown
     \/ Close

-----------------------------------------------------------------------------
(* Building the tables of a socket *)

Got(r, k, default) == IF k \in DOMAIN r THEN r[k].got ELSE default

\* The address of a tunnel as single_inbound_lookup compares it.
SaStored(r, k) ==
  IF r["mode"].got = "ipv4-tunnel" /\ Got(r, k, Invalid) # Invalid
  THEN Reverse(r[k].got)   \* rte_cpu_to_be_32
  ELSE Got(r, k, Invalid)

Sa(r) == [spi |-> r["spi"].got, mode |-> r["mode"].got,
          cipher |-> r["cipher"].got, auth |-> r["auth"].got,
          src |-> SaStored(r, "src"), dst |-> SaStored(r, "dst")]

\* An entry is added, unless its slot, or that of one before it, was taken.
AddEntry(prev, r) ==
  LET idx == SPI2IDX(r["spi"].got) IN
  IF ~ prev.ok \/ prev.sa[idx].spi # 0 THEN [prev EXCEPT !.ok = FALSE]
  ELSE [prev EXCEPT !.sa[idx] = Sa(r)]

\* The result of sa_add_rules is not looked at.
sa_add_rules(entries) ==
  LET st[n \in 0 .. Len(entries)] ==
        IF n = 0 THEN [sa |-> [idx \in 0 .. SaEntries - 1 |-> NoSa], ok |-> TRUE]
        ELSE AddEntry(st[n - 1], entries[n])
  IN  st[Len(entries)].sa

sa_init ==
  /\ pc = "sa_init"
  /\ sad' = [t \in DOMAIN sad |-> IF rules[t] = <<>> THEN Null ELSE sa_add_rules(rules[t])]
  /\ pc' = "sp4_init"
  /\ UNCHANGED <<file, chars, line, status, ti, items, rules, acl, lpm>>

\* The ACL library is given the arrays as they are.
sp4_init ==
  /\ pc = "sp4_init"
  /\ acl' = [acl EXCEPT !["sp4_in"] = rules["sp4_in"], !["sp4_out"] = rules["sp4_out"]]
  /\ pc' = "sp6_init"
  /\ UNCHANGED <<file, chars, line, status, ti, items, rules, sad, lpm>>

sp6_init ==
  /\ pc = "sp6_init"
  /\ acl' = [acl EXCEPT !["sp6_in"] = rules["sp6_in"], !["sp6_out"] = rules["sp6_out"]]
  /\ pc' = "rt_init"
  /\ UNCHANGED <<file, chars, line, status, ti, items, rules, sad, lpm>>

\* rte_lpm_add: a prefix is its depth and the bits of the address up to it.
NoDst == [addr |-> <<0, 0, 0, 0>>, depth |-> 0]
Prefix(dst, bits) ==
  LET kept(k) == LET d == dst.depth - bits * (k - 1) IN
                 IF d < 0 THEN 0 ELSE IF d > bits THEN bits ELSE d
      cut(k)  == dst.addr[k] - (dst.addr[k] % (2 ^ (bits - kept(k))))
  IN  <<[k \in DOMAIN dst.addr |-> cut(k)], dst.depth>>

Bits(t)     == IF t = "rt4" THEN 8 ELSE 16
MaxDepth(t) == IF t = "rt4" THEN 32 ELSE 128
Addable(t, r) == Got(r, "dst", NoDst).depth \in 1 .. MaxDepth(t)

\* The prefix of a route.
To(t, r) == Prefix(r["dst"].got, Bits(t))

\* Wrong on purpose: the first route of a prefix stays.
RoutesFirst(t) ==
  LET st[n \in 0 .. Len(rules[t])] ==
        IF n = 0 THEN NoItems
        ELSE IF To(t, rules[t][n]) \in DOMAIN st[n - 1] THEN st[n - 1]
        ELSE With(st[n - 1], To(t, rules[t][n]), Got(rules[t][n], "port", 0))
  IN  st[Len(rules[t])]

\* Routes in their order: the last one of a prefix stays.
Routes(t) ==
  LET st[n \in 0 .. Len(rules[t])] ==
        IF n = 0 THEN NoItems
        ELSE With(st[n - 1], To(t, rules[t][n]), Got(rules[t][n], "port", 0))
  IN  st[Len(rules[t])]

rt_init ==
  /\ pc = "rt_init"
  /\ \A t \in DOMAIN lpm : \A n \in DOMAIN rules[t] : Addable(t, rules[t][n])
  /\ lpm' = [t \in DOMAIN lpm |-> Routes(t)]
  /\ pc' = "tables"
  /\ UNCHANGED <<file, chars, line, status, ti, items, rules, sad, acl>>

rt_init_fails ==
  /\ pc = "rt_init"
  /\ \E t \in DOMAIN lpm : \E n \in DOMAIN rules[t] : ~ Addable(t, rules[t][n])
  /\ Stop

parse_cfg_file ==
  \/ \E n \in 1 .. MaxChars : ReadContinued(n) \/ \E more \in BOOLEAN : ReadLast(n, more)
  \/ ReadRefused \/ Unrecognized \/ TooManyRules \/ TooManyWords \/ RefuseLine
  \/ parse_sa_tokens \/ parse_sp4_tokens \/ parse_sp6_tokens \/ parse_rt_tokens
  \/ NextLine \/ LineRefused \/ EndOfFile

InitTables == sa_init \/ sp4_init \/ sp6_init \/ rt_init \/ rt_init_fails

-----------------------------------------------------------------------------
(* What the packets of IpsecLcore find in the tables *)

\* outbound_sp and inbound_sp_sa on the userdata of the policy that matched.
Bit(res, mask) == (res \div mask) % 2 = 1
OutboundSp(res) ==
  IF res = 0 \/ Bit(res, DISCARD) THEN <<"discard">>
  ELSE IF res % BYPASS # 0 THEN <<"protect", res % BYPASS>> ELSE <<"bypass">>
InboundSp(res) ==
  IF Bit(res, BYPASS) THEN <<"bypass">>
  ELSE IF Bit(res, DISCARD) \/ res % BYPASS = 0 THEN <<"discard">>
  ELSE <<"protect", res % BYPASS>>

\* single_inbound_lookup: the SA of a packet, NoSa if it has none.
single_inbound_lookup(spi, v, src, dst) ==
  LET sa    == sad["sa_in"][SPI2IDX(spi)]
      match == CASE sa.mode = "ipv4-tunnel" ->
                      v = 4 /\ sa.src = s_addr(src) /\ sa.dst = s_addr(dst)
                 [] sa.mode = "ipv6-tunnel" -> v = 6 /\ sa.src = src /\ sa.dst = dst
                 [] OTHER -> TRUE
  IN  IF spi # 0 /\ sa.spi = spi /\ match THEN sa ELSE NoSa

-----------------------------------------------------------------------------
(* Properties *)

\* str, the token array and the rule arrays are never overrun, and an SA is only
\* ever in the slot of its SPI.
TypeOK ==
  /\ file \in Seq(Tables \union {"other"})
  /\ chars \in 0 .. MaxChars /\ ti \in 0 .. MaxTokens /\ status \in {0, -1}
  /\ \A t \in Tables : Len(rules[t]) <= MaxRules[t]
  /\ \A t \in DOMAIN sad : \A idx \in DOMAIN sad[t] : sad[t][idx].spi # 0 =>
       SPI2IDX(sad[t][idx].spi) = idx

Rules == UNION {{rules[t][n] : n \in DOMAIN rules[t]} : t \in Tables}

\* The address and the depth of a stored item, in the order of the network.
Address(got) ==
  IF "field" \in DOMAIN got THEN FlattenSeq([k \in 1 .. 4 |-> got.field[k].value]) ELSE got.addr
Depth(got) ==
  IF "field" \in DOMAIN got
  THEN got.field[1].mask + got.field[2].mask + got.field[3].mask + got.field[4].mask
  ELSE got.depth

\* parser.c's own inet_pton4 and inet_pton6 read an address as it is meant,
\* wherever "::" or a dotted tail stands, refuse what is none, and an IPv6
\* depth is shared out among the fields of sp6.c without loss: every rule that
\* was accepted holds the addresses, depths and ranges its line gives.  Ranges
\* that are not written "from:to" are left out, which parse_range takes all the
\* same: a word without ":" (80 becomes 65535:80, where sp4.c:363 expects
\* "port_from:port_to"), one with letters, and of larger numbers the low 16 bits.
AddressesMeant ==
  \A r \in Rules, k \in {"src", "dst", "proto", "sport", "dport"} :
    k \in DOMAIN r =>
      LET says == r[k].says  got == r[k].got IN
      CASE "spi" \in DOMAIN r -> got = says
        [] k \in {"src", "dst"} ->
             /\ says.addr # Invalid /\ Address(got) = says.addr
             /\ says.depth <= 128 => Depth(got) = says.depth
        [] OTHER -> says # Loose => says # Invalid /\ got = says

\* A statement with more words than the token array holds never becomes a
\* rule: cfg_sa_add_cfg_item_parsed parses what fits, with the refusal undone,
\* and only because no item may come twice does one always fail in the end.
LongLinesRefused == pc = "parsed" /\ line.more => status = -1

\* The SPIs of the rules before n leave the slot of rule n, and theirs, free.
Added(entries, n) ==
  \A k, l \in 1 .. n :
    k < l /\ entries[k]["spi"].says # 0 =>
      SPI2IDX(entries[k]["spi"].says) # SPI2IDX(entries[l]["spi"].says)

\* A packet from the peer that a line "sa in" names, with the addresses and
\* the SPI of that line, finds the SA of that line, through the two changes of
\* byte order and the two checks of the SPI; up to the first collision of
\* SPI2IDX, where sa_add_rules stops, and when the addresses follow the mode.
PeerFound ==
  pc = "tables" =>
    LET entries == rules["sa_in"] IN
    \A n \in DOMAIN entries :
      LET r == entries[n]
          v == IF r["mode"].says = "ipv6-tunnel" THEN 6 ELSE 4
          named == \A k \in {"src", "dst"} : k \in DOMAIN r /\ r[k].says # Invalid
      IN  Added(entries, n) /\ r["spi"].says # 0 /\ (r["mode"].says = "transport" \/ named) =>
            LET src == IF named THEN r["src"].says ELSE Invalid
                dst == IF named THEN r["dst"].says ELSE Invalid
                sa  == single_inbound_lookup(r["spi"].says, v, src, dst)
            IN  sa # NoSa /\ sa = Sa(r)

\* The userdata of a policy means the same to outbound_sp, to inbound_sp_sa and
\* to the file, whatever the bits of the SPI: an SPI with the bits of BYPASS or
\* DISCARD is not taken for either.  (The SPIs whose index is 0 are left out:
\* protect with one of them drops the packets.)
PolicyResolved ==
  \A t \in DOMAIN acl : \A n \in DOMAIN acl[t] :
    LET says == acl[t][n]["policy"].says
        res  == acl[t][n]["policy"].got
        means == IF says[1] = "protect" THEN <<"protect", SPI2IDX(says[2])>> ELSE says
    IN  means # <<"protect", 0>> => OutboundSp(res) = means /\ InboundSp(res) = means

\* The routing tables send to the port of the last line of a prefix, however
\* the prefix is written, if port and depth fit a byte; a line without a port
\* sends to port 0.
RoutesMeant ==
  pc = "tables" => \A t \in DOMAIN lpm : \A n \in DOMAIN rules[t] :
    LET dst(l)  == rules[t][l]["dst"].says
        port(l) == IF "port" \in DOMAIN rules[t][l] THEN rules[t][l]["port"].says ELSE 0
        same(l) == Prefix(dst(l), Bits(t)) = Prefix(dst(n), Bits(t))
        fits(l) == dst(l).depth < 256
    IN  fits(n) /\ port(n) < 256 /\ (\A l \in DOMAIN rules[t] : l > n => fits(l) /\ ~ same(l)) =>
          /\ Prefix(dst(n), Bits(t)) \in DOMAIN lpm[t]
          /\ lpm[t][Prefix(dst(n), Bits(t))] = port(n)
=============================================================================
