------------------------------ MODULE NatTable ------------------------------
(***************************************************************************)
(* The address table of the stateless NAT, nat_eval/nat.c: load_rtbl fills *)
(* it from a file of prefixes, idx_to_ip turns the host part of an         *)
(* encrypted address into a public address and ip_to_idx turns it back.    *)
(*                                                                         *)
(* An octet has Octet values (256 in the code), so an address is below     *)
(* Octet^4 and idx >> 16 and idx >> 24 are divisions by Octet^2, Octet^3.  *)
(***************************************************************************)
EXTENDS Integers, Sequences, FiniteSets

CONSTANTS
  Octet,       \* values of an octet: 256
  Candidates,  \* the prefixes files are made of, as load_rtbl computes p
  Others,      \* [idx, size]: lines whose prefixes have other lengths
  IdxEntries,  \* entries of idx_tbl: 2000
  MaxLines     \* longest file of the model

\* Prefixes of 8, 16 and 24 bits share one numbering: a /8 is below 256, a
\* /16 below 65536 (the first octet is not 0).
Size8  == Octet * Octet * Octet
Size16 == Octet * Octet
Size24 == Octet

\* 255.255.255.0/24 is in no file: the entry after it would be outside t.
ASSUME NatTableAssumption ==
  /\ Octet \in Nat /\ Octet > 1
  /\ Candidates \subseteq 1 .. Octet * Octet * Octet - 2
  /\ Others \subseteq [idx : 0 .. Octet * Size8, size : 1 .. Octet * Size8]
  /\ \A r \in Others : r.size \notin {Size8, Size16, Size24}
  /\ IdxEntries \in Nat /\ IdxEntries >= Octet
  /\ MaxLines \in Nat

Size(p) == IF p < Octet THEN Size8 ELSE IF p < Octet * Octet THEN Size16 ELSE Size24

First(p) == p * Size(p)
Covers(p) == First(p) .. First(p) + Size(p) - 1

VARIABLES
  t,           \* prefix_tbl: [prev, next, index] of every possible prefix
  idx_table,   \* idx_tbl
  lines,       \* the prefixes loaded so far
  prev_idx,    \* the index of the last one, -1 before the first
  read,        \* idx and mask of the line read last: [idx, size]
  overrun,     \* has anything been stored behind idx_tbl?
  loaded,      \* has the end of the file been reached?
  MAX_IDX, MAX_PREFIX

vars == <<t, idx_table, lines, prev_idx, read, overrun, loaded, MAX_IDX, MAX_PREFIX>>

Slots  == 0 .. Octet * Octet * Octet - 1
PrevP  == IF lines = <<>> THEN -1 ELSE lines[Len(lines)]
Start  == IF lines = <<>> THEN 1 ELSE PrevP + 1

\* Division of C: it rounds towards 0.
Quotient(x, n) == IF x < 0 THEN 0 ELSE x \div n

\* What a line with this index leaves in idx and mask: size is 1 << (32 - mask).
LineOf(idx, size) == [idx |-> idx, size |-> size]

NoLine == LineOf(-1, 1)

\* Was the last line, if there was one, a line that load_rtbl takes?
LastTaken == read = IF lines = <<>> THEN NoLine ELSE LineOf(prev_idx, Size(PrevP))

Init ==
  /\ t = [p \in Slots |-> [prev |-> 0, next |-> 0, index |-> 0]]
  /\ idx_table = [n \in 0 .. IdxEntries - 1 |-> 0]
  /\ lines = <<>> /\ prev_idx = -1 /\ read = NoLine
  /\ overrun = FALSE /\ loaded = FALSE
  /\ MAX_IDX = -1 /\ MAX_PREFIX = -1

\* Wrong on purpose: nothing is stored within a range of 2^24 addresses.
StoredAtCoarse(idx) ==
  IF idx = 0 \/ idx \div Size8 # Quotient(prev_idx, Size8) THEN {idx \div Size8} ELSE {}

\* Wrong on purpose: entries for ranges of 2^8 addresses.
StoredAtFine(idx) ==
  IF idx \div Size24 # Quotient(prev_idx, Size24) THEN {idx \div Size24} ELSE {}

\* The entry of idx_tbl that a prefix with index idx is stored in, if any.
StoredAt(idx) ==
  CASE idx = 0 -> {0}
    [] idx # 0 /\ idx \div Size8 # Quotient(prev_idx, Size8) -> {idx \div Size8}
    [] idx # 0 /\ idx \div Size8 = Quotient(prev_idx, Size8)
         /\ idx \div Size16 # Quotient(prev_idx, Size16) -> {idx \div Size16}
    [] OTHER -> {}

\* A line with a prefix of 8, 16 or 24 bits.  Files list disjoint prefixes in
\* the order of p and number the addresses of these lines consecutively.  What
\* is stored behind idx_tbl is lost to the table.
LoadLine(p) ==
  LET idx == IF lines = <<>> THEN 0 ELSE prev_idx + Size(PrevP)
  IN  /\ ~ loaded /\ Len(lines) < MaxLines
      /\ p > PrevP
      /\ \A n \in DOMAIN lines : Covers(lines[n]) \cap Covers(p) = {}
      /\ idx_table' = [n \in DOMAIN idx_table |-> IF n \in StoredAt(idx) THEN p ELSE idx_table[n]]
      /\ overrun' = (overrun \/ ~ (StoredAt(idx) \subseteq DOMAIN idx_table))
      /\ t' = [n \in Slots |->
                 IF n = p THEN [t[n] EXCEPT !.prev = p, !.index = idx]
                 ELSE IF n = PrevP THEN [t[n] EXCEPT !.next = p]
                 ELSE IF n \in Start .. p - 1
                   THEN [prev |-> PrevP, next |-> p, index |-> prev_idx]
                 ELSE t[n]]
      /\ lines' = Append(lines, p)
      /\ prev_idx' = idx
      /\ read' = LineOf(idx, Size(p))
      /\ UNCHANGED <<loaded, MAX_IDX, MAX_PREFIX>>

\* A line with another prefix length is skipped, but stays in idx and mask.  Of
\* several in a row only the last one counts.
SkipLine(r) ==
  /\ ~ loaded /\ LastTaken
  /\ read' = r
  /\ UNCHANGED <<t, idx_table, lines, prev_idx, overrun, loaded, MAX_IDX, MAX_PREFIX>>

\* The end of the last prefix is computed with idx and mask of the last line.
EndOfFile ==
  /\ ~ loaded /\ lines # <<>>
  /\ loaded' = TRUE
  /\ t' = [t EXCEPT ![PrevP].next = PrevP + 1,
                    ![PrevP + 1].index = t[PrevP].index + read.size]
  /\ MAX_IDX' = read.idx + read.size
  /\ MAX_PREFIX' = PrevP + 1
  /\ UNCHANGED <<idx_table, lines, prev_idx, read, overrun>>

Next ==
  \/ \E p \in Candidates : LoadLine(p)
  \/ \E r \in Others : SkipLine(r)
  \/ EndOfFile

Spec == Init /\ [][Next]_vars

-----------------------------------------------------------------------------

Endless == -1   \* the result of a lookup that never returns

\* The prefix idx_to_ip's loop stops at when it starts from p.  next always
\* points up, but for the entries past the last prefix, where it is 0.
Walk(idx, p) ==
  LET stop[q \in Slots] ==
        LET n == t[q].next
        IN  IF t[n].index > idx THEN q
            ELSE IF n <= q THEN Endless ELSE stop[n]
  IN  stop[p]

idx_to_ip(idx) ==
  LET p8  == idx_table[idx \div Size8]
      p16 == idx_table[idx \div Size16]
      p24 == Walk(idx, p16)
  IN  CASE p8 < Octet -> p8 * Size8 + (idx % Size8)
        [] p8 >= Octet /\ p16 < Octet * Octet -> p16 * Size16 + (idx % Size16)
        [] OTHER -> IF p24 = Endless THEN Endless ELSE p24 * Size24 + (idx % Size24)

\* Wrong on purpose: the host part of a /16 is cut to 8 bits.
ip_to_idx_cut(addr) ==
  LET p24 == addr \div Size24
      p16 == addr \div Size16
      p8  == addr \div Size8
  IN  CASE p24 < MAX_PREFIX /\ t[p24].prev = p24 -> t[p24].index + (addr % Size24)
        [] OTHER ->
             CASE t[p16].prev = p16 -> t[p16].index + (addr % Size24)
               [] OTHER -> IF t[p8].prev = p8 THEN t[p8].index + (addr % Size8) ELSE 0

ip_to_idx(addr) ==
  LET p24 == addr \div Size24
      p16 == addr \div Size16
      p8  == addr \div Size8
  IN  CASE p24 < MAX_PREFIX /\ t[p24].prev = p24 -> t[p24].index + (addr % Size24)
        [] OTHER ->
             CASE t[p16].prev = p16 -> t[p16].index + (addr % Size16)
               [] OTHER -> IF t[p8].prev = p8 THEN t[p8].index + (addr % Size8) ELSE 0

\* What the file says: index idx is the idx-th address of its prefixes.
Addresses == UNION {Covers(lines[n]) : n \in DOMAIN lines}

Before(n) ==
  LET sum[k \in 0 .. Len(lines)] == IF k = 0 THEN 0 ELSE sum[k - 1] + Size(lines[k])
  IN  sum[n - 1]

IndexOf(addr) ==
  LET n == CHOOSE k \in DOMAIN lines : addr \in Covers(lines[k])
  IN  Before(n) + addr - First(lines[n])

-----------------------------------------------------------------------------

\* A skipped line adds at most the size of the address space to an index.
Indices == -1 .. 2 * Octet * Size8

TypeOK ==
  /\ t \in [Slots -> [prev : Slots \union {-1}, next : Slots, index : Indices]]
  /\ idx_table \in [0 .. IdxEntries - 1 -> Slots]
  /\ lines \in Seq(Candidates)
  /\ prev_idx \in -1 .. Octet * Size8
  /\ read \in [idx : -1 .. Octet * Size8, size : 1 .. Octet * Size8]
  /\ overrun \in BOOLEAN /\ loaded \in BOOLEAN
  /\ MAX_IDX \in Indices /\ MAX_PREFIX \in Slots \union {-1}

\* Nothing is stored behind idx_tbl while the indices are below 2000 * 2^16, as
\* those of NUM_ADDR = 26 bits are and those of 27 bits would not be.
StoresInside == overrun => prev_idx >= IdxEntries * Size16

\* An address of the file is turned into the index the file gives it, whatever
\* mix of prefix lengths the file has and wherever lines were skipped.
AddressFound ==
  loaded => \A addr \in Addresses : ip_to_idx(addr) = IndexOf(addr)

\* Every index of the file gets the address the file gives it: no lookup hangs
\* and no two indices get one address.
IndexFound ==
  loaded => \A addr \in Addresses : idx_to_ip(IndexOf(addr)) = addr

\* The same for the files idx_tbl is laid out for: at most 2^24 addresses, or
\* prefixes of 8 bits only, and the last line is one that is taken.
Simple ==
  /\ LastTaken
  /\ MAX_IDX <= Size8 \/ \A n \in DOMAIN lines : lines[n] < Octet

IndexFoundInSimple == Simple => IndexFound
=============================================================================
