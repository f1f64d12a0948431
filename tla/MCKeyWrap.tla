----------------------------- MODULE MCKeyWrap ------------------------------
(***************************************************************************)
(* Halves of two bits, a block cipher that mixes them, keys of up to three *)
(* halves and ciphertexts of up to four, too short and ragged ones too.    *)
(***************************************************************************)
EXTENDS KeyWrap, Bitwise

MCHalf == 0 .. 3
Pairs == MCHalf \X MCHalf
MCEncrypt(x, y) == LET b == (7 * (4 * x + y) + 5) % 16 IN <<b \div 4, b % 4>>
MCDecrypt(x, y) == CHOOSE p \in Pairs : MCEncrypt(p[1], p[2]) = <<x, y>>
MCXor(x, c) == x ^^ (c % 4)
MCInputs == [halves : UNION {[1 .. k -> MCHalf] : k \in 0 .. 4}, ragged : {FALSE}]
              \cup [halves : {<<1, 2, 3>>, <<3, 3, 3, 3>>}, ragged : {TRUE}]

=============================================================================
