------------------------------ MODULE MCQuotes ------------------------------
(* Quotes with balanced and unbalanced pools of two and three assets, with  *)
(* DODO pools on every side of their targets, and with CryptoSwap pools on  *)
(* which Newton's method cycles.                                            *)
EXTENDS Quotes

Stable(reserves, A) ==
    [curve |-> "stableswap", reserves |-> reserves, A |-> A, fee |-> 996, input |-> 1]
Velodrome(x, y) == [curve |-> "velodrome", reserves |-> <<x, y>>, fee |-> 990, input |-> 1]
Crypto(x0, x1, A, input) ==
    [curve |-> "cryptoswap", reserves |-> <<x0, x1>>, A |-> A, gamma |-> 1000, fee |-> 996,
     input |-> input]
Pmm(base, quote, price, K) ==
    [curve |-> "pmm", reserves |-> <<base, quote>>, price |-> price, K |-> K, input |-> 1]

(* A DODO pool that is short of so much of its base, or of its quote token. *)
Dodo(short, token, price, k, fee, input) ==
    LET targets == IF price = 1 THEN <<400, 300>> ELSE <<200, 400>>
        premium == short + (k * short * short) \div (1000 * targets[token])
        paid == IF token = 1 THEN premium * price ELSE premium \div price IN
    [curve |-> "dodo", targets |-> targets, price |-> price, k |-> k, fee |-> fee, input |-> input,
     reserves |-> [j \in 1 .. 2 |-> IF j = token THEN targets[j] - short ELSE targets[j] + paid]]

StablePools == {Stable(<<a, b>>, A) : a \in {10, 300, 1000}, b \in {10, 300, 1000}, A \in {1, 5, 20}}
               \cup {Stable(<<a, b, 100>>, A) : a \in {20, 200}, b \in {20, 200}, A \in {1, 5}}
VelodromePools == {Velodrome(x, y) : x \in {20, 200, 400}, y \in {20, 200, 400}}
PmmPools == {Pmm(b, q, p, 600) : b \in {50, 400}, q \in {40, 800}, p \in {1, 2}}
DodoPools == {Dodo(s, t, p, k, f, input) : s \in {0, 30, 150}, t \in {1, 2}, p \in {1, 2},
                                           k \in {200, 1000}, f \in {990, 1000}, input \in {1, 2}}

(* Pools on which the iteration for D goes to and fro between two values. *)
CyclingQuotes == {[pool |-> Crypto(1000, 1500, 10, 1), size |-> s] : s \in {10, 100, 300}}

MCQuotes ==
    {[pool |-> p, size |-> s] : p \in StablePools \cup VelodromePools \cup PmmPools \cup DodoPools,
                                s \in {-1, 0, 1, 10, 100, 500}}
    \cup {[pool |-> p, size |-> s] : p \in {Crypto(1000, 1500, 1, 1), Crypto(1000, 1000, 10, 2),
                                            Crypto(1000, 1100, 10, 1)},
                                     s \in {-1, 0, 1, 100, 500}}
    \cup CyclingQuotes

MCSearches == {Pmm(b, q, p, 40000) : b \in {9, 1800, 9000, 45000}, q \in {900, 9000, 45000}, p \in {1, 2}}

=============================================================================
