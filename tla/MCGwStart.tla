----------------------------- MODULE MCGwStart -----------------------------
(***************************************************************************)
(* Small instance of GwStart: files of one or two statements, words for    *)
(* addresses and ranges that are well formed and that are not, and arrays  *)
(* of four SAs, so that SPIs collide and carry the bits of BYPASS; three   *)
(* lcores on two sockets, and command lines in several orders, with masks  *)
(* and queues that are right, missing, repeated or out of range.           *)
(***************************************************************************)
EXTENDS GwStart

MCFiles ==
  {<<"sa_in", "sa_in">>, <<"sa_out">>, <<"sp4_in">>, <<"sp6_out">>,
   <<"rt4", "rt4">>, <<"rt6", "rt6">>, <<"rt4", "other">>}

MCMaxRules == [t \in Tables |-> IF t = "rt6" THEN 1 ELSE 2]

\* 10.0.0.1, 010.0.0.1/24, 10.0.0.2/24; then three octets, an octet of 256, five
\* octets, a depth that is no number and sixteen characters.
MCText4 ==
  { [text |-> <<1, 0, Dot, 0, Dot, 0, Dot, 1>>,
     means |-> <<10, 0, 0, 1>>, depth |-> 0],
    [text |-> <<0, 1, 0, Dot, 0, Dot, 0, Dot, 1, Slash, 2, 4>>,
     means |-> <<10, 0, 0, 1>>, depth |-> 24],
    [text |-> <<1, 0, Dot, 0, Dot, 0, Dot, 2, Slash, 2, 4>>,
     means |-> <<10, 0, 0, 2>>, depth |-> 24],
    [text |-> <<1, 0, Dot, 0, Dot, 0>>,
     means |-> Invalid, depth |-> 0],
    [text |-> <<1, 0, Dot, 0, Dot, 0, Dot, 2, 5, 6>>,
     means |-> Invalid, depth |-> 0],
    [text |-> <<1, 0, Dot, 0, Dot, 0, Dot, 1, Dot, 1>>,
     means |-> Invalid, depth |-> 0],
    [text |-> <<1, 0, Dot, 0, Dot, 0, Dot, 1, Slash, Letter>>,
     means |-> Invalid, depth |-> 0],
    [text |-> <<0, 0, 0, 0, 0, 0, 0, 0, 0, 1, Dot, 0, Dot, 0, Dot, 1>>,
     means |-> Invalid, depth |-> 0] }

\* 2001:0::0:1/48, ::1.2.3.4/120, 2001:0:0:0:0:0:0:1/304; then two groups, "::"
\* twice, nine groups, five digits in a group, one leading colon, "::" among
\* eight groups, 46 characters.
MCText6 ==
  { [text |-> <<2, 0, 0, 1, Colon, 0, Colon, Colon, 0, Colon, 1, Slash, 4, 8>>,
     means |-> <<8193, 0, 0, 0, 0, 0, 0, 1>>, depth |-> 48],
    [text |-> <<Colon, Colon, 1, Dot, 2, Dot, 3, Dot, 4, Slash, 1, 2, 0>>,
     means |-> <<0, 0, 0, 0, 0, 0, 258, 772>>, depth |-> 120],
    [text |-> <<2, 0, 0, 1, Colon, 0, Colon, 0, Colon, 0, Colon, 0, Colon, 0, Colon, 0, Colon, 1, Slash, 3, 0, 4>>,
     means |-> <<8193, 0, 0, 0, 0, 0, 0, 1>>, depth |-> 304],
    [text |-> <<2, 0, 0, 1, Colon, 1>>,
     means |-> Invalid, depth |-> 0],
    [text |-> <<2, 0, 0, 1, Colon, Colon, 0, Colon, Colon, 1>>,
     means |-> Invalid, depth |-> 0],
    [text |-> <<2, 0, 0, 1, Colon, 0, Colon, 0, Colon, 0, Colon, 0, Colon, 0, Colon, 0, Colon, 1, Colon, 1>>,
     means |-> Invalid, depth |-> 0],
    [text |-> <<1, 2, 0, 0, 1, Colon, Colon, 1>>,
     means |-> Invalid, depth |-> 0],
    [text |-> <<Colon, 1, Colon, Colon, 1>>,
     means |-> Invalid, depth |-> 0],
    [text |-> <<2, 0, 0, 1, Colon, 0, Colon, 0, Colon, 0, Colon, Colon, 0, Colon, 0, Colon, 0, Colon, 1>>,
     means |-> Invalid, depth |-> 0],
    [text |-> <<Colon, Colon>> \o FlattenSeq([k \in 1 .. 5 |-> <<0, 0, 0, 1, Colon>>])
                \o <<1, Dot, 2, Dot, 3, Dot>> \o Zeros(12) \o <<4>>,
     means |-> Invalid, depth |-> 0] }

\* 6:17, 0:300, and without an end or with two colons; then 80, which is taken.
MCTextRange ==
  { [text |-> <<6, Colon, 1, 7>>, means |-> <<6, 17>>],
    [text |-> <<0, Colon, 3, 0, 0>>, means |-> <<0, 300>>],
    [text |-> <<5, Colon>>, means |-> Invalid],
    [text |-> <<1, Colon, 2, Colon, 3>>, means |-> Invalid],
    [text |-> <<8, 0>>, means |-> Loose] }

MCSocketOf == 0 :> 0 @@ 1 :> 1 @@ 2 :> 0

o(opt, val) == [opt |-> opt, ok |-> TRUE, val |-> val]
bad(opt, val) == [opt |-> opt, ok |-> FALSE, val |-> val]
q(port, queue, lcore) == [port |-> port, queue |-> queue, lcore |-> lcore]

\* Option lists, each with -f somewhere or not at all.
MCArgs ==
  LET p == o("p", {0, 1})
      f == o("f", {})
      two == <<q(0, 0, 1), q(0, 1, 2), q(1, 0, 2)>>
      config == o("config", two)
  IN {<<p, f, o("config", c)>> :
        c \in {two, <<>>, <<q(0, 0, 1), q(0, 0, 2)>>, <<q(0, 1, 0)>>, <<q(1, 7, 0)>>,
               <<q(0, 0, 3)>>, <<q(2, 0, 0)>>, <<q(3, 0, 0)>>, <<q(4, 0, 0)>>,
               <<q(0, 0, 2), q(0, 1, 2), q(1, 0, 2)>>, <<q(0, 0, 0), q(0, 1, 1)>>,
               two \o two}}
     \union {<<u, config, o("P", {}), n, f, m>> :
        u \in {bad("u", {}), o("u", {}), o("u", {1})}, n \in {bad("single-sa", {}), o("single-sa", {0})},
        m \in {bad("p", {}), o("p", {}), o("p", {0}), o("p", {0, 1, 2})}}
     \union {<<p, config>>, <<p, f, f>>, <<p, f>>, <<f, o("?", {})>>, <<f, bad("config", <<>>)>>,
             <<f, config>>, <<f, p, o("u", {1}), config>>}

MCInvocations ==
  {[args |-> a, file |-> <<>>] : a \in MCArgs}
  \union {[args |-> <<o("p", {0}), o("config", <<q(0, 0, 0)>>), o("f", {})>>, file |-> f] :
          f \in MCFiles}
=============================================================================
