-------------------------------- MODULE Ff3 ---------------------------------
(***************************************************************************)
(* The format-preserving cipher of the NAT: ff3_encrypt and ff3_decrypt of *)
(* nat_eval/enc_lib/ff3/ff3.c, round by round, on a message of u + v bits. *)
(* AES (CBCMAC over one block, which clears its output buffer first) is an *)
(* arbitrary function of the block: of the round, which stands for the     *)
(* tweak half xor the round number, and of the half in its last 4 bytes.   *)
(***************************************************************************)
EXTENDS Integers

CONSTANTS
  U, V,      \* u and v: bits of the left and right half
  Rounds     \* NUM_ROUNDS

ASSUME Ff3Assumption ==
  /\ V \in Nat \ {0} /\ U \in {V, V + 1}
  /\ Rounds \in Nat /\ Rounds % 2 = 0

Pow[n \in Nat] == IF n = 0 THEN 1 ELSE 2 * Pow[n - 1]

Half(m) == 0 .. Pow[m] - 1
Message == Half(U + V)

\* bit_reverse_m
Reverse(x, m) ==
  LET rev[k \in 0 .. m] ==
        IF k = 0 THEN 0
        ELSE rev[k - 1] + ((x \div Pow[k - 1]) % 2) * Pow[m - k]
  IN  rev[m]

\* Wrong on purpose: the widths swapped; the width of the message.
WidthSwapped(r) == IF r % 2 = 0 THEN V ELSE U
WidthLong(r)    == U + V

\* m of round i: the width of the half that is replaced.
Width(i)  == IF i % 2 = 0 THEN U ELSE V
Other(i)  == IF i % 2 = 0 THEN V ELSE U

VARIABLES
  aes,       \* aes[i][x]: the cipher's output in round i on half x
  input,     \* the caller's message
  mode,      \* "encrypt", "encrypted", "decrypt" or "decrypted"
  A, B, i,   \* the halves, bit-reversed, and the round
  block,     \* the half in T[12..15], the cipher's input, in the last round
  text       \* ct after encryption, pt after decryption

vars == <<aes, input, mode, A, B, i, block, text>>

\* Steps 1 to 3, of both functions.
Left(x)  == Reverse(x \div Pow[V], U)
Right(x) == Reverse(x % Pow[V], V)
Join(a, b) == Reverse(a, U) * Pow[V] + Reverse(b, V)

\* The functions AES can be, up to the bits the rounds do not use.
Ciphers ==
  {f \in [0 .. Rounds - 1 -> [Half(U) -> Half(U)]] :
     \A r \in 0 .. Rounds - 1 :
       /\ \A x \in Half(U) : f[r][x] \in Half(Width(r))
       /\ \A x \in Half(U) \ Half(Other(r)) : f[r][x] = 0}

Init ==
  /\ aes \in Ciphers
  /\ input \in Message
  /\ mode = "encrypt"
  /\ A = Left(input) /\ B = Right(input)
  /\ i = 0 /\ block = 0 /\ text = 0

EncryptRound ==
  /\ mode = "encrypt" /\ i < Rounds
  /\ block' = B
  /\ A' = B
  /\ B' = (aes[i][B] + A) % Pow[Width(i)]
  /\ i' = i + 1
  /\ UNCHANGED <<aes, input, mode, text>>

EncryptDone ==
  /\ mode = "encrypt" /\ i = Rounds
  /\ mode' = "encrypted"
  /\ text' = Join(A, B)
  /\ UNCHANGED <<aes, input, A, B, i, block>>

DecryptStart ==
  /\ mode = "encrypted"
  /\ mode' = "decrypt"
  /\ A' = Left(text) /\ B' = Right(text)
  /\ i' = Rounds - 1
  /\ UNCHANGED <<aes, input, block, text>>

\* The half is copied into the output buffer P, which CBCMAC clears, and not
\* into the block T, whose last 12 bytes stay 0.
DecryptRound ==
  /\ mode = "decrypt" /\ i >= 0
  /\ block' = 0
  /\ B' = A
  /\ A' = (B - aes[i][0]) % Pow[Width(i)]
  /\ i' = i - 1
  /\ UNCHANGED <<aes, input, mode, text>>

DecryptDone ==
  /\ mode = "decrypt" /\ i < 0
  /\ mode' = "decrypted"
  /\ text' = Join(A, B)
  /\ UNCHANGED <<aes, input, A, B, i, block>>

Next == EncryptRound \/ EncryptDone \/ DecryptStart \/ DecryptRound \/ DecryptDone

Spec == Init /\ [][Next]_vars

-----------------------------------------------------------------------------

TypeOK ==
  /\ mode \in {"encrypt", "encrypted", "decrypt", "decrypted"}
  /\ input \in Message /\ text \in Message
  /\ i \in -1 .. Rounds
  /\ block \in Half(U)
  /\ A \in Half(U) /\ B \in Half(U)

\* FF3 decryption: what undoes the encryption rounds, whatever AES computes.
Undo(x) ==
  LET st[k \in 0 .. Rounds] ==
        IF k = 0 THEN <<Left(x), Right(x)>>
        ELSE LET s == st[k - 1]
                 r == Rounds - k
             IN  <<(s[2] - aes[r][s[1]]) % Pow[Width(r)], s[1]>>
  IN  Join(st[Rounds][1], st[Rounds][2])

\* Two flows of inside hosts are never given the same public address and
\* port: the encryption loses nothing, for even and odd message lengths, and
\* the halves it joins at the end have the widths they had at the start.
EncryptionReversible == mode = "encrypted" => Undo(text) = input

\* "MSB 12 bytes: REVB (NUM (REV (A)))": in every round of ff3_decrypt the
\* block the cipher is given holds the half A, now in B.
DecryptBlock == mode = "decrypt" /\ i < Rounds - 1 => block = B
=============================================================================
