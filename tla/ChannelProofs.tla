--------------------------- MODULE ChannelProofs ---------------------------
(***************************************************************************)
(* Proofs about Channel, for any period, interval and jitter that are in   *)
(* proportion as the defaults of fr_util.h are, chars of any width and     *)
(* strings of any length.  The processes begin at any two instants, inside *)
(* the window or outside.                                                  *)
(***************************************************************************)
EXTENDS Channel, NatRecursion, SequenceTheorems

-----------------------------------------------------------------------------
\* The inductive invariant.

bits == string_to_binary(text)

States == {"options", "exit", "spin", "work", "end", "done"}

ChannelType ==
  /\ now \in 0..Period - 1
  /\ DOMAIN config = Process
  /\ pc \in [Process -> States]
  /\ since \in [Process -> Nat]
  /\ turn \in [Process -> Nat]
  /\ windows \in [Process -> Nat]
  /\ together \in BOOLEAN
  /\ text \in Texts

\* What the control of a process says of its bits, with any parameters.
Control(p) ==
  /\ pc[p] \in {"options", "exit"} => since[p] = 0 /\ turn[p] = 0 /\ windows[p] = 0
  /\ pc[p] = "spin" => turn[p] < Total
  /\ pc[p] = "work" => turn[p] \in 1..Total
  /\ pc[p] \in {"end", "done"} => turn[p] = Total

\* The receiver noted one bit for each interval that is over, and saw none
\* before the sender began.
Notes ==
  LET r == "receiver" IN
  /\ seen \subseteq {0, 1}
  /\ pc[r] # "work" \/ turn["sender"] = 0 => seen = {}
  /\ data \in Seq({0, 1})
  /\ Len(data) = IF pc[r] = "work" THEN turn[r] - 1 ELSE turn[r]
  /\ pc[r] # "done" => msg = <<>>

Basic ==
  /\ \A p \in Process : Control(p)
  /\ Notes
  /\ together => \A p \in Process : turn[p] > 0

Open == now <= SYNC_JITTER_DEF

\* p began its bit in the window that is open.
BegunNow(p) == Open /\ pc[p] = "work" /\ since[p] <= now

\* A process at work began in the window, up to the jitter into it, and works for
\* one interval; one that came too late for its interval to end before the
\* next window ends it there, at once.
WorkInv(p) ==
  pc[p] = "work" =>
    /\ since[p] <= TX_INTERVAL_DEF
    /\ \/ since[p] <= now /\ now - since[p] <= SYNC_JITTER_DEF
       \/ now = 0 /\ since[p] = TX_INTERVAL_DEF

\* A process that spins in the window, and does not wait for its first bit, has
\* not looked since it opened.
SpinInv(p) ==
  pc[p] = "spin" =>
    /\ since[p] <= Gap
    /\ Open /\ turn[p] > 0 => since[p] >= now

\* It has begun a bit in each of its windows, save the one that is open.
PaceInv(p) ==
  Active(p) => windows[p] = IF turn[p] = 0 THEN 0
                            ELSE IF Open /\ ~BegunNow(p) THEN turn[p] + 1 ELSE turn[p]

Timely(p) == config[p] = Default => WorkInv(p) /\ SpinInv(p) /\ PaceInv(p)

\* How many bits p had begun when the window last opened or, if it is closed,
\* closed.
Round(p) == IF BegunNow(p) THEN turn[p] - 1 ELSE turn[p]

SameRound == Round("sender") = Round("receiver")

\* What the receiver saw is the bit of its turn, and it saw that bit at the
\* latest when the window closed.
SeenInv ==
  LET p == "receiver" IN
  /\ seen \subseteq (IF pc[p] = "work" THEN {bits[turn[p]]} ELSE {})
  /\ pc[p] = "work" /\ ~BegunNow(p) => bits[turn[p]] \in seen

DataInv == \A k \in 1..Len(data) : data[k] = bits[k]

\* The part about two processes that began in the same window.
Agree == SameRound /\ SeenInv /\ DataInv /\ ReceivedIsSent

PaceOfAll ==
  /\ ChannelType
  /\ Basic
  /\ \A p \in Process : Timely(p)

ChannelInv ==
  /\ PaceOfAll
  /\ BothDefault /\ together => Agree

-----------------------------------------------------------------------------
\* Numbers.

LEMMA DefaultFacts ==
  /\ Period \in Nat /\ Gap \in Nat /\ Bits \in Nat \ {0}
  /\ TX_INTERVAL_DEF \in Nat /\ SYNC_JITTER_DEF \in Nat
  /\ 0 < Gap /\ Gap <= SYNC_JITTER_DEF
  /\ SYNC_JITTER_DEF < TX_INTERVAL_DEF
  /\ TX_INTERVAL_DEF + SYNC_JITTER_DEF <= Period
  /\ SYNC_JITTER_DEF < Period - 1
<1>1. /\ Period \in Nat \ {0} /\ Gap \in Nat \ {0} /\ Bits \in Nat \ {0}
      /\ TX_INTERVAL_DEF \in Nat /\ SYNC_JITTER_DEF \in Nat
  BY ChannelAssumption
<1>2. QED
  BY <1>1, DefaultsAssumption

\* Of what a division by b leaves there is one quotient and one remainder.
LEMMA DivUnique ==
  ASSUME NEW b \in Nat \ {0}, NEW q \in Int, NEW i \in Int,
         NEW r \in 0..b - 1, NEW j \in 0..b - 1, b * q + r = b * i + j
  PROVE  q = i /\ r = j
<1>1. b * (q - i) = j - r
  OBVIOUS
<1>2. CASE q > i
  <2>1. b * (q - i) >= b
    BY <1>2
  <2>2. QED
    BY <1>1, <2>1
<1>3. CASE q < i
  <2>1. b * (i - q) >= b
    BY <1>3
  <2>2. b * (i - q) = r - j
    BY <1>1
  <2>3. QED
    BY <2>1, <2>2
<1>4. QED
  BY <1>2, <1>3

LEMMA DivMod ==
  ASSUME NEW b \in Nat \ {0}, NEW q \in Nat, NEW r \in 0..b - 1
  PROVE  (b * q + r) \div b = q /\ (b * q + r) % b = r
<1> DEFINE a == b * q + r
<1>1. a \in Nat /\ a = b * q + r
  OBVIOUS
<1> HIDE DEF a
<1>2. a = b * (a \div b) + (a % b) /\ a % b \in 0..b - 1 /\ a \div b \in Nat
  BY <1>1
<1>3. q = a \div b /\ r = a % b
  BY <1>1, <1>2, DivUnique
<1>4. QED
  BY <1>3 DEF a

\* The next digit.
LEMMA Halves ==
  ASSUME NEW c \in Nat, NEW b \in Nat \ {0}
  PROVE  /\ c \div b \in Nat
         /\ c \div b = 2 * (c \div (2 * b)) + ((c \div b) % 2)
<1>1. c \div b \in Nat
  OBVIOUS
<1>2. c \div b = 2 * (c \div (2 * b)) + ((c \div b) % 2)
  OBVIOUS
<1>3. QED
  BY <1>1, <1>2

LEMMA WeightFacts ==
  /\ \A j \in 0..Bits : Weight[j] \in Nat \ {0}
  /\ Weight[0] = 1
  /\ \A j \in 1..Bits : Weight[j] = 2 * Weight[j - 1]
<1> DEFINE V == Nat \ {0}
           N == Bits
           h == [n \in 1..N |-> [v \in V |-> 2 * v]]
           Def(w) == [j \in 0..N |-> IF j = 0 THEN 1 ELSE 2 * w[j - 1]]
           W == CHOOSE w : w = Def(w)
<1>1. N \in Nat /\ 1 \in V
  BY DefaultFacts
<1>2. h \in [1..N -> [V -> V]] /\ \A n \in 1..N, v \in V : h[n][v] = 2 * v
  OBVIOUS
<1> HIDE DEF h, N, V
<1>3. PICK w : Accumulates(w, V, 1, h, N)
  BY <1>1, <1>2, AccumulatesExists
<1>4. w = Def(w)
  <2>1. \A n \in 0..N : n # 0 => n \in 1..N /\ w[n - 1] \in V
    BY <1>1, <1>3 DEF Accumulates
  <2>2. \A n \in 0..N : w[n] = Def(w)[n]
    BY <1>1, <1>2, <1>3, <2>1 DEF Accumulates
  <2>3. w = [n \in 0..N |-> w[n]]
    BY <1>3 DEF Accumulates
  <2>4. QED
    BY <2>2, <2>3
<1>5. W = Def(W)
  <2> HIDE DEF Def
  <2>1. QED
    BY <1>4
<1>6. Weight = W
  BY Zenon DEF Weight, N
<1>7. W = [n \in 0..N |-> W[n]] /\ W[0] = 1 /\ \A n \in 1..N : W[n] = 2 * W[n - 1]
  <2> HIDE DEF W
  <2>1. \A n \in 0..N : W[n] = Def(W)[n]
    BY <1>5
  <2>2. W = [n \in 0..N |-> W[n]]
    BY <1>5, <2>1
  <2>3. W[0] = 1
    BY <1>1, <2>1
  <2>4. ASSUME NEW n \in 1..N PROVE W[n] = 2 * W[n - 1]
    <3>1. n \in 0..N /\ n # 0
      BY <1>1
    <3>2. QED
      BY <2>1, <3>1
  <2>5. QED
    BY <2>2, <2>3, <2>4
<1> HIDE DEF W, Def
<1>8. Accumulates(W, V, 1, h, N)
  BY <1>1, <1>2, <1>7, AccumulatesIfSteps
<1>9. QED
  BY <1>6, <1>7, <1>8 DEF Accumulates, N, V

\* What strtol makes of d, digit by digit.
LEMMA StrtolSteps ==
  ASSUME NEW d \in Seq(Nat)
  PROVE  \E v \in [0..Len(d) -> Nat] :
           /\ v[0] = 0
           /\ \A n \in 1..Len(d) : v[n] = 2 * v[n - 1] + d[n]
           /\ strtol(d) = v[Len(d)]
<1> DEFINE N == Len(d)
           h == [n \in 1..N |-> [v \in Nat |-> 2 * v + d[n]]]
           Def(w) == [n \in 0..N |-> IF n = 0 THEN 0 ELSE 2 * w[n - 1] + d[n]]
           W == CHOOSE w : w = Def(w)
<1>1. N \in Nat
  BY LenProperties
<1>2. \A n \in 1..N : d[n] \in Nat
  BY ElementOfSeq
<1>3. h \in [1..N -> [Nat -> Nat]] /\ \A n \in 1..N, v \in Nat : h[n][v] = 2 * v + d[n]
  BY <1>2
<1> HIDE DEF h, N
<1>4. PICK w : Accumulates(w, Nat, 0, h, N)
  BY <1>1, <1>3, AccumulatesExists
<1>5. w = Def(w)
  <2>1. \A n \in 0..N : n # 0 => n \in 1..N /\ w[n - 1] \in Nat
    BY <1>1, <1>4 DEF Accumulates
  <2>2. \A n \in 0..N : w[n] = Def(w)[n]
    BY <1>1, <1>3, <1>4, <2>1 DEF Accumulates
  <2>3. w = [n \in 0..N |-> w[n]]
    BY <1>4 DEF Accumulates
  <2>4. QED
    BY <2>2, <2>3
<1>6. W = Def(W)
  <2> HIDE DEF Def
  <2>1. QED
    BY <1>5
<1>7. strtol(d) = W[N]
  BY Zenon DEF strtol, N
<1>8. W = [n \in 0..N |-> W[n]] /\ W[0] = 0 /\ \A n \in 1..N : W[n] = 2 * W[n - 1] + d[n]
  <2> HIDE DEF W
  <2>1. \A n \in 0..N : W[n] = Def(W)[n]
    BY <1>6
  <2>2. W = [n \in 0..N |-> W[n]]
    BY <1>6, <2>1
  <2>3. W[0] = 0
    BY <1>1, <2>1
  <2>4. ASSUME NEW n \in 1..N PROVE W[n] = 2 * W[n - 1] + d[n]
    <3>1. n \in 0..N /\ n # 0
      BY <1>1
    <3>2. QED
      BY <2>1, <3>1
  <2>5. QED
    BY <2>2, <2>3, <2>4
<1> HIDE DEF W, Def
<1>9. Accumulates(W, Nat, 0, h, N)
  BY <1>1, <1>3, <1>8, AccumulatesIfSteps
<1>10. W \in [0..N -> Nat]
  BY <1>9 DEF Accumulates
<1>11. QED
  BY <1>7, <1>8, <1>10 DEF N

\* strtol makes of the binary digits of c the number c.
LEMMA DigitsGiveNumber ==
  ASSUME NEW c \in 0..Weight[Bits] - 1,
         NEW d \in Seq(Nat), Len(d) = Bits,
         \A j \in 1..Bits : d[j] = (c \div Weight[Bits - j]) % 2
  PROVE  strtol(d) = c
<1>1. /\ Bits \in Nat \ {0}
      /\ \A j \in 0..Bits : Weight[j] \in Nat \ {0}
      /\ Weight[0] = 1
      /\ \A j \in 1..Bits : Weight[j] = 2 * Weight[j - 1]
  BY DefaultFacts, WeightFacts
<1>2. c \in Nat /\ c < Weight[Bits]
  BY <1>1
<1>3. PICK v \in [0..Bits -> Nat] :
           /\ v[0] = 0
           /\ \A n \in 1..Bits : v[n] = 2 * v[n - 1] + d[n]
           /\ strtol(d) = v[Bits]
  BY StrtolSteps
<1> DEFINE S == {n \in Nat : n <= Bits => v[n] = c \div Weight[Bits - n]}
<1>4. 0 \in S
  <2>1. c \div Weight[Bits] = 0
    <3> DEFINE b == Weight[Bits]
    <3>1. b \in Nat \ {0} /\ c \in Nat /\ c < b
      BY <1>1, <1>2
    <3> HIDE DEF b
    <3>2. c \in 0..b - 1 /\ b * 0 + c = c
      BY <3>1
    <3>3. (b * 0 + c) \div b = 0
      BY <3>1, <3>2, DivMod
    <3>4. QED
      BY <3>2, <3>3 DEF b
  <2>2. Bits - 0 = Bits
    BY <1>1
  <2>3. QED
    BY <1>3, <2>1, <2>2
<1>5. ASSUME NEW n \in Nat, n \in S PROVE n + 1 \in S
  <2> SUFFICES ASSUME n + 1 <= Bits PROVE v[n + 1] = c \div Weight[Bits - (n + 1)]
    OBVIOUS
  <2> DEFINE b == Weight[Bits - (n + 1)]
  <2>1. b \in Nat \ {0}
    BY <1>1
  <2>2. Weight[Bits - n] = 2 * b
    <3>1. Bits - n \in 1..Bits /\ (Bits - n) - 1 = Bits - (n + 1)
      BY <1>1
    <3>2. QED
      BY <1>1, <3>1
  <2>3. v[n] = c \div (2 * b)
    BY <1>5, <2>2
  <2>4. d[n + 1] = (c \div b) % 2
    <3>1. n + 1 \in 1..Bits
      BY <1>1
    <3>2. QED
      BY <3>1
  <2>5. v[n + 1] = 2 * v[n] + d[n + 1]
    <3>1. n + 1 \in 1..Bits /\ (n + 1) - 1 = n
      BY <1>1
    <3>2. QED
      BY <1>3, <3>1
  <2> HIDE DEF b
  <2>6. c \div b = 2 * (c \div (2 * b)) + ((c \div b) % 2)
    BY <1>2, <2>1, Halves
  <2>7. v[n + 1] = c \div b
    BY <2>3, <2>4, <2>5, <2>6
  <2>8. QED
    BY <2>7 DEF b
<1>6. Bits \in S
  <2> HIDE DEF S
  <2>1. QED
    BY <1>1, <1>4, <1>5, NatInd
<1>7. v[Bits] = c \div 1
  BY <1>1, <1>6
<1>8. QED
  BY <1>2, <1>3, <1>7

LEMMA TextForm ==
  ASSUME NEW t \in Texts
  PROVE  /\ Len(t) \in Nat \ {0}
         /\ t = [i \in 1..Len(t) |-> t[i]]
         /\ \A i \in 1..Len(t) : t[i] \in 0..Weight[Bits] - 1
         /\ Bits * Len(t) \in Nat \ {0}
<1>1. t \in Seq(0..Weight[Bits] - 1) /\ t # <<>>
  BY ChannelAssumption
<1>2. Len(t) \in Nat \ {0}
  BY <1>1, LenProperties, EmptySeq
<1>3. t = [i \in 1..Len(t) |-> t[i]] /\ \A i \in 1..Len(t) : t[i] \in 0..Weight[Bits] - 1
  BY <1>1, LenProperties, ElementOfSeq
<1>4. Bits * Len(t) \in Nat \ {0}
  BY <1>2, DefaultFacts
<1>5. QED
  BY <1>2, <1>3, <1>4

\* string_to_binary gives the bits of the chars, from the highest on.
LEMMA BitsOfText ==
  ASSUME NEW t \in Texts
  PROVE  /\ string_to_binary(t) \in Seq({0, 1})
         /\ Len(string_to_binary(t)) = Bits * Len(t)
         /\ \A i \in 1..Len(t), j \in 1..Bits :
              /\ (i - 1) * Bits + j \in 1..Bits * Len(t)
              /\ string_to_binary(t)[(i - 1) * Bits + j] = (t[i] \div Weight[Bits - j]) % 2
<1> DEFINE N == Bits * Len(t)
           b == string_to_binary(t)
           Bit(i, j) == (t[i] \div Weight[Bits - j]) % 2
<1>1. Bits \in Nat \ {0} /\ Len(t) \in Nat \ {0} /\ N \in Nat
  BY DefaultFacts, TextForm
<1>2. \A j \in 0..Bits : Weight[j] \in Nat \ {0}
  BY WeightFacts
<1>3. ASSUME NEW i \in 1..Len(t), NEW j \in 1..Bits
      PROVE  Bit(i, j) \in {0, 1}
  <2>1. t[i] \in Nat /\ Weight[Bits - j] \in Nat \ {0}
    <3>1. Bits \in 0..Bits /\ Bits - j \in 0..Bits
      BY <1>1
    <3>2. Weight[Bits] \in Nat /\ t[i] \in 0..Weight[Bits] - 1
      BY <1>2, <3>1, TextForm
    <3>3. QED
      BY <1>2, <3>1, <3>2
  <2>2. t[i] \div Weight[Bits - j] \in Nat
    BY <2>1, Halves
  <2>3. QED
    BY <2>2
<1>4. ASSUME NEW k \in 1..N
      PROVE  /\ (k - 1) \div Bits + 1 \in 1..Len(t)
             /\ ((k - 1) % Bits) + 1 \in 1..Bits
  <2>1. /\ k - 1 = Bits * ((k - 1) \div Bits) + ((k - 1) % Bits)
        /\ (k - 1) % Bits \in 0..Bits - 1 /\ (k - 1) \div Bits \in Nat
    BY <1>1
  <2> DEFINE q == (k - 1) \div Bits
             r == (k - 1) % Bits
  <2>2. q \in Nat /\ r \in 0..Bits - 1 /\ Bits * q + r < Bits * Len(t)
    BY <1>1, <2>1
  <2> HIDE DEF q, r
  <2>3. q < Len(t)
    <3>1. CASE q >= Len(t)
      <4>1. Bits * q >= Bits * Len(t)
        BY <1>1, <2>2, <3>1
      <4>2. QED
        BY <1>1, <2>2, <4>1
    <3>2. QED
      BY <1>1, <2>2, <3>1
  <2>4. q + 1 \in 1..Len(t) /\ r + 1 \in 1..Bits
    BY <1>1, <2>2, <2>3
  <2>5. QED
    BY <2>4 DEF q, r
<1>5. b = [k \in 1..N |-> Bit((k - 1) \div Bits + 1, ((k - 1) % Bits) + 1)]
  <2>1. \A k \in 1..N : Bits - 1 - ((k - 1) % Bits) = Bits - (((k - 1) % Bits) + 1)
    BY <1>1, <1>4
  <2>2. QED
    BY <2>1 DEF string_to_binary
<1>6. b \in [1..N -> {0, 1}]
  <2> HIDE DEF Bit, N, b
  <2>1. \A k \in 1..N : Bit((k - 1) \div Bits + 1, ((k - 1) % Bits) + 1) \in {0, 1}
    BY <1>3, <1>4
  <2>2. QED
    BY <1>5, <2>1
<1>7. ASSUME NEW i \in 1..Len(t), NEW j \in 1..Bits
      PROVE  /\ (i - 1) * Bits + j \in 1..N
             /\ b[(i - 1) * Bits + j] = Bit(i, j)
  <2> DEFINE k == (i - 1) * Bits + j
  <2>1. i - 1 \in Nat /\ j - 1 \in 0..Bits - 1 /\ k - 1 = Bits * (i - 1) + (j - 1)
    BY <1>1
  <2>2. (k - 1) \div Bits = i - 1 /\ (k - 1) % Bits = j - 1
    <3> DEFINE q == i - 1
               r == j - 1
    <3>1. q \in Nat /\ r \in 0..Bits - 1 /\ Bits \in Nat \ {0} /\ k - 1 = Bits * q + r
      BY <1>1, <2>1
    <3> HIDE DEF k, q, r
    <3>2. (k - 1) \div Bits = q /\ (k - 1) % Bits = r
      BY <3>1, DivMod
    <3>3. QED
      BY <3>2 DEF q, r
  <2>3. k \in 1..N
    <3>1. Bits * i <= Bits * Len(t)
      BY <1>1
    <3>2. k <= Bits * i /\ k >= 1
      BY <1>1, <2>1
    <3>3. QED
      BY <1>1, <3>1, <3>2
  <2>4. b[k] = Bit((k - 1) \div Bits + 1, ((k - 1) % Bits) + 1)
    <3> HIDE DEF k, Bit, b, N
    <3>1. QED
      BY <1>5, <2>3
  <2>5. (k - 1) \div Bits + 1 = i /\ ((k - 1) % Bits) + 1 = j
    BY <1>1, <2>2
  <2>6. QED
    <3> HIDE DEF Bit
    <3>1. QED
      BY <2>3, <2>4, <2>5
<1>8. b \in Seq({0, 1}) /\ Len(b) = N
  <2> HIDE DEF b, N
  <2>1. QED
    BY <1>1, <1>6, SeqDef, LenProperties
<1>9. QED
  BY <1>7, <1>8

\* conv_char is the inverse of string_to_binary, if nothing follows tmp.
LEMMA Decoded ==
  ASSUME NEW t \in Texts
  PROVE  conv_char(string_to_binary(t), Len(t), <<>>) = t
<1> DEFINE b == string_to_binary(t)
           D(i) == SubSeq(b, (i - 1) * Bits + 1, i * Bits) \o <<>>
<1>1. Bits \in Nat \ {0} /\ Len(t) \in Nat \ {0}
  BY DefaultFacts, TextForm
<1>2. b \in Seq({0, 1}) /\ Len(b) = Bits * Len(t)
  BY BitsOfText
<1>3. \A i \in 1..Len(t), j \in 1..Bits :
        /\ (i - 1) * Bits + j \in 1..Len(b)
        /\ b[(i - 1) * Bits + j] = (t[i] \div Weight[Bits - j]) % 2
  BY <1>2, BitsOfText
<1> HIDE DEF b
<1>4. ASSUME NEW i \in 1..Len(t)
      PROVE  strtol(D(i)) % Weight[Bits] = t[i]
  <2> DEFINE m == (i - 1) * Bits
             n == i * Bits
             d == SubSeq(b, m + 1, n)
  <2>1. m \in Nat /\ n = m + Bits /\ n \in Nat
    BY <1>1
  <2>2. m + 1 \in 1..Len(b) /\ n \in 1..Len(b)
    <3>1. 1 \in 1..Bits /\ Bits \in 1..Bits
      BY <1>1
    <3>2. QED
      BY <1>3, <2>1, <3>1
  <2>3. \A j \in 1..Bits : b[m + j] = (t[i] \div Weight[Bits - j]) % 2
    BY <1>3
  <2> HIDE DEF m, n
  <2>4. d \in Seq({0, 1}) /\ Len(d) = Bits /\ \A j \in 1..Bits : d[j] = b[m + j]
    <3>1. d \in Seq({0, 1}) /\ Len(d) = n - (m + 1) + 1
      BY <1>1, <1>2, <2>1, <2>2, SubSeqProperties
    <3>2. Len(d) = Bits
      BY <1>1, <2>1, <3>1
    <3>3. \A j \in 1..Len(d) : d[j] = b[(m + 1) + j - 1]
      BY <1>1, <1>2, <2>1, <2>2, SubSeqProperties
    <3>4. \A j \in 1..Bits : (m + 1) + j - 1 = m + j
      BY <1>1, <2>1
    <3>5. QED
      BY <3>1, <3>2, <3>3, <3>4
  <2>5. D(i) = d
    <3>1. d \o <<>> = d
      BY <2>4, ConcatEmptySeq
    <3>2. QED
      BY <3>1 DEF m, n
  <2> HIDE DEF d, D
  <2>6. d \in Seq(Nat)
    BY <2>4
  <2>7. t[i] \in 0..Weight[Bits] - 1
    BY TextForm
  <2>8. strtol(d) = t[i]
    BY <2>3, <2>4, <2>6, <2>7, DigitsGiveNumber
  <2>9. Weight[Bits] \in Nat \ {0}
    BY <1>1, WeightFacts
  <2>10. t[i] % Weight[Bits] = t[i]
    BY <2>7, <2>9
  <2>11. QED
    BY <2>5, <2>8, <2>10
<1>5. conv_char(b, Len(t), <<>>) = [i \in 1..Len(t) |-> strtol(D(i)) % Weight[Bits]]
  BY DEF conv_char
<1>6. t = [i \in 1..Len(t) |-> t[i]]
  BY TextForm
<1> HIDE DEF D
<1>7. QED
  BY <1>4, <1>5, <1>6 DEF b

-----------------------------------------------------------------------------
\* The steps.

\* The bit of a turn.
LEMMA BitOfTurn ==
  ASSUME ChannelType
  PROVE  /\ Total \in Nat \ {0}
         /\ bits \in Seq({0, 1})
         /\ Len(bits) = Total
         /\ \A k \in 1..Total : bits[k] \in {0, 1}
<1>1. Total \in Nat \ {0}
  BY TextForm DEF ChannelType, Total
<1>2. bits \in Seq({0, 1}) /\ Len(bits) = Total
  BY BitsOfText DEF ChannelType, bits, Total
<1>3. QED
  BY <1>1, <1>2, ElementOfSeq

\* With the default parameters the window is as SpinInv and WorkInv have it.
LEMMA DefaultWindow ==
  ASSUME NEW p \in Process, config[p] = Default, now \in 0..Period - 1
  PROVE  InWindow(p) <=> Open
BY DefaultsAssumption DEF InWindow, Open, Default

LEMMA ChannelInit ==
  ASSUME Init
  PROVE  ChannelInv
<1>1. ChannelType
  BY ChannelAssumption DEF Init, ChannelType, States
<1>2. Basic
  BY EmptySeq DEF Init, Basic, Control, Notes, Process
<1>3. \A p \in Process : pc[p] = "options" /\ together = FALSE
  BY DEF Init
<1>4. \A p \in Process : Timely(p)
  BY <1>3 DEF Timely, WorkInv, SpinInv, PaceInv, Active
<1>5. QED
  BY <1>1, <1>2, <1>3, <1>4 DEF PaceOfAll, ChannelInv, Process

LEMMA TypeStep ==
  ASSUME ChannelType, [Next]_vars
  PROVE  ChannelType'
<1>1. CASE Tick
  <2>1. now' \in 0..Period - 1
    BY <1>1, DefaultFacts DEF Tick, ChannelType
  <2>2. since' \in [Process -> Nat] /\ windows' \in [Process -> Nat]
    BY <1>1 DEF Tick, ChannelType
  <2>3. QED
    BY <1>1, <2>1, <2>2 DEF Tick, ChannelType
<1>2. CASE Decode \/ UNCHANGED vars
  BY <1>2 DEF Decode, vars, wires, history, ChannelType, States
<1>3. ASSUME NEW p \in Process, ParseOption(p) \/ MapFile(p) \/ Exit(p) PROVE ChannelType'
  <2>1. /\ UNCHANGED <<now, since, turn, text, windows, together>>
        /\ pc' = pc \/ pc' = [pc EXCEPT ![p] = "spin"] \/ pc' = [pc EXCEPT ![p] = "exit"]
    BY <1>3 DEF ParseOption, MapFile, Exit, wires, history
  <2>2. DOMAIN config' = Process
    BY <1>3 DEF ParseOption, MapFile, Exit, ChannelType
  <2>3. QED
    BY <2>1, <2>2 DEF ChannelType, States
<1>4. ASSUME NEW p \in Process, cc_sync(p) PROVE ChannelType'
  <2>1. /\ UNCHANGED <<now, config, text>> /\ since' = [since EXCEPT ![p] = 0]
        /\ \/ /\ pc' = [pc EXCEPT ![p] = "work"] /\ turn' = [turn EXCEPT ![p] = @ + 1]
              /\ windows' = [windows EXCEPT ![p] = IF turn[p] = 0 THEN 1 ELSE @]
           \/ UNCHANGED <<pc, turn, windows>>
    BY <1>4 DEF cc_sync, wires, history
  <2>2. together' \in BOOLEAN
    BY <1>4 DEF cc_sync, history, ChannelType
  <2>3. windows' \in [Process -> Nat] /\ turn' \in [Process -> Nat]
    BY <2>1 DEF ChannelType
  <2>4. pc' \in [Process -> States]
    BY <2>1 DEF ChannelType, States
  <2>5. since' \in [Process -> Nat]
    BY <2>1 DEF ChannelType
  <2>6. QED
    BY <2>1, <2>2, <2>3, <2>4, <2>5 DEF ChannelType
<1>5. ASSUME NEW p \in Process, EndInterval(p) PROVE ChannelType'
  <2>1. /\ UNCHANGED <<now, config, text, turn, windows, together>>
        /\ since' = [since EXCEPT ![p] = 0]
        /\ pc' = [pc EXCEPT ![p] = "end"] \/ pc' = [pc EXCEPT ![p] = "spin"]
    BY <1>5 DEF EndInterval, history
  <2>2. QED
    BY <2>1 DEF ChannelType, States
<1>6. QED
  BY <1>1, <1>2, <1>3, <1>4, <1>5 DEF Next

\* A process that is started, or not.
LEMMA OptionStep ==
  ASSUME PaceOfAll, NEW q \in Process, ParseOption(q) \/ MapFile(q) \/ Exit(q)
  PROVE  Basic' /\ (\A p \in Process : Timely(p)') /\ ~together'
<1>1. /\ pc[q] = "options" /\ UNCHANGED <<now, since, turn, windows, together, text, seen, data, msg>>
      /\ pc' = pc \/ pc' = [pc EXCEPT ![q] = "spin"] \/ pc' = [pc EXCEPT ![q] = "exit"]
      /\ \A p \in Process \ {q} : config'[p] = config[p]
  BY DEF ParseOption, MapFile, Exit, wires, history, PaceOfAll, ChannelType
<1>2. /\ turn[q] = 0 /\ windows[q] = 0 /\ since[q] = 0 /\ Total \in Nat \ {0} /\ Total' = Total /\ Open' = Open
      /\ pc \in [Process -> States]
  BY <1>1, BitOfTurn DEF PaceOfAll, ChannelType, Basic, Control, Total, Open
<1>3. /\ pc'[q] \in {"options", "spin", "exit"}
      /\ \A p \in Process \ {q} : pc'[p] = pc[p]
  BY <1>1, <1>2
<1>4. ~together'
  BY <1>1, <1>2 DEF PaceOfAll, Basic
<1>5. \A p \in Process : Control(p)'
  BY <1>1, <1>2, <1>3 DEF PaceOfAll, Basic, Control
<1>6. Notes'
  <2>1. pc["receiver"] \notin {"work", "done"} \/ pc'["receiver"] = pc["receiver"]
    BY <1>1, <1>3 DEF Process
  <2>2. pc'["receiver"] = pc["receiver"] \/ pc'["receiver"] \in {"options", "spin", "exit"}
    BY <1>3 DEF Process
  <2>3. QED
    BY <1>1, <2>1, <2>2 DEF PaceOfAll, Basic, Notes
<1>7. ASSUME NEW p \in Process PROVE Timely(p)'
  <2>1. CASE p = q
    <3>1. turn'[q] = 0 /\ windows'[q] = 0 /\ since'[q] = 0 /\ pc'[q] # "work"
      BY <1>1, <1>2, <1>3
    <3>2. WorkInv(q)' /\ SpinInv(q)' /\ PaceInv(q)'
      BY <3>1, DefaultFacts DEF WorkInv, SpinInv, PaceInv
    <3>3. QED
      BY <2>1, <3>2 DEF Timely
  <2>2. CASE p # q
    BY <1>1, <1>2, <1>3, <2>2 DEF PaceOfAll, Timely, WorkInv, SpinInv, PaceInv, Active, BegunNow
  <2>3. QED
    BY <2>1, <2>2
<1>8. QED
  BY <1>4, <1>5, <1>6, <1>7 DEF Basic

\* What a look at the counter changes, for a process that looks and one that
\* does not.
Look(q) ==
  /\ pc[q] = "spin" /\ turn[q] < Total /\ Total \in Nat
  /\ Total' = Total /\ bits' = bits /\ Open' = Open /\ now \in Nat
  /\ now' = now /\ config' = config /\ text' = text
  /\ seen' = seen /\ data' = data /\ msg' = msg
  /\ \A p \in Process \ {q} :
       /\ pc'[p] = pc[p] /\ since'[p] = since[p]
       /\ turn'[p] = turn[p] /\ windows'[p] = windows[p]
  /\ since'[q] = 0
  /\ InWindow(q) =>
       /\ pc'[q] = "work" /\ turn'[q] = turn[q] + 1
       /\ windows'[q] = IF turn[q] = 0 THEN 1 ELSE windows[q]
       /\ together' = IF turn[q] = 0
            THEN \E p \in Process \ {q} : pc[p] = "work" /\ windows[p] = 1
            ELSE together
  /\ ~InWindow(q) =>
       /\ pc'[q] = pc[q] /\ turn'[q] = turn[q]
       /\ windows'[q] = windows[q] /\ together' = together

LEMMA SyncFrame ==
  ASSUME PaceOfAll, NEW q \in Process, cc_sync(q)
  PROVE  Look(q)
<1>1. /\ pc[q] = "spin"
      /\ since' = [since EXCEPT ![q] = 0]
      /\ UNCHANGED <<now, config, text, seen, data, msg>>
  BY DEF cc_sync, wires
<1>2. /\ pc \in [Process -> States] /\ since \in [Process -> Nat] /\ turn \in [Process -> Nat]
      /\ windows \in [Process -> Nat] /\ now \in Nat /\ Total \in Nat /\ turn[q] < Total
  BY <1>1, BitOfTurn, DefaultFacts DEF PaceOfAll, ChannelType, Basic, Control
<1>3. Total' = Total /\ bits' = bits /\ Open' = Open
  BY <1>1 DEF Total, bits, Open
<1>4. CASE InWindow(q)
  <2>1. /\ pc' = [pc EXCEPT ![q] = "work"]
        /\ turn' = [turn EXCEPT ![q] = @ + 1]
        /\ windows' = [windows EXCEPT ![q] = IF turn[q] = 0 THEN 1 ELSE @]
        /\ together' = IF turn[q] = 0
                       THEN \E p \in Process \ {q} : pc[p] = "work" /\ windows[p] = 1
                       ELSE together
    BY <1>4 DEF cc_sync
  <2>2. windows'[q] = IF turn[q] = 0 THEN 1 ELSE windows[q]
    BY <1>2, <2>1
  <2>3. \A p \in Process \ {q} : pc'[p] = pc[p] /\ since'[p] = since[p] /\ turn'[p] = turn[p] /\ windows'[p] = windows[p]
    BY <1>1, <1>2, <2>1
  <2>4. pc'[q] = "work" /\ turn'[q] = turn[q] + 1 /\ since'[q] = 0
    BY <1>1, <1>2, <2>1
  <2>5. QED
    BY <1>1, <1>2, <1>3, <1>4, <2>1, <2>2, <2>3, <2>4 DEF Look
<1>5. CASE ~InWindow(q)
  <2>1. UNCHANGED <<pc, turn, windows, together>>
    BY <1>5 DEF cc_sync, history
  <2>2. \A p \in Process \ {q} : pc'[p] = pc[p] /\ since'[p] = since[p] /\ turn'[p] = turn[p] /\ windows'[p] = windows[p]
    BY <1>1, <1>2, <2>1
  <2>3. QED
    BY <1>1, <1>2, <1>3, <1>5, <2>1, <2>2 DEF Look
<1>6. QED
  BY <1>4, <1>5

\* A look at the counter: the process begins its bit, or goes on.
LEMMA SyncPace ==
  ASSUME PaceOfAll, NEW q \in Process, cc_sync(q)
  PROVE  Basic' /\ \A p \in Process : Timely(p)'
<1>0. Look(q)
  BY SyncFrame
<1>1. /\ pc[q] = "spin" /\ turn[q] \in Nat /\ turn[q] < Total /\ Total \in Nat /\ Total' = Total
      /\ Open' = Open /\ now \in Nat /\ now' = now /\ config' = config
      /\ seen' = seen /\ data' = data /\ msg' = msg /\ since'[q] = 0
      /\ windows[q] \in Nat
  BY <1>0 DEF Look, PaceOfAll, ChannelType
<1>2. ASSUME NEW p \in Process \ {q}
      PROVE  pc'[p] = pc[p] /\ since'[p] = since[p] /\ turn'[p] = turn[p] /\ windows'[p] = windows[p]
  BY <1>0 DEF Look
<1>3. \/ /\ InWindow(q) /\ pc'[q] = "work" /\ turn'[q] = turn[q] + 1
         /\ windows'[q] = IF turn[q] = 0 THEN 1 ELSE windows[q]
      \/ ~InWindow(q) /\ pc'[q] = "spin" /\ turn'[q] = turn[q] /\ windows'[q] = windows[q]
  BY <1>0 DEF Look
<1>4. Control(q)'
  BY <1>1, <1>3 DEF Control
<1>5. \A p \in Process : Control(p)'
  <2>1. ASSUME NEW p \in Process \ {q} PROVE Control(p)'
    BY <1>1, <1>2 DEF PaceOfAll, Basic, Control
  <2>2. QED
    BY <1>4, <2>1
<1>6. Notes'
  <2>1. Notes
    BY DEF PaceOfAll, Basic
  <2>2. CASE q = "receiver"
    <3>1. seen = {} /\ msg = <<>> /\ data \in Seq({0, 1}) /\ Len(data) = turn[q]
      BY <1>1, <2>1, <2>2 DEF Notes
    <3>2. pc'[q] # "done" /\ Len(data) = IF pc'[q] = "work" THEN turn'[q] - 1 ELSE turn'[q]
      BY <1>1, <1>3, <3>1
    <3>3. QED
      BY <1>1, <2>2, <3>1, <3>2 DEF Notes
  <2>3. CASE q # "receiver"
    <3>1. q = "sender" /\ "receiver" \in Process \ {q}
      BY <2>3 DEF Process
    <3>2. pc'["receiver"] = pc["receiver"] /\ turn'["receiver"] = turn["receiver"]
      BY <1>2, <3>1
    <3>3. turn'["sender"] = 0 => turn["sender"] = 0
      BY <1>1, <1>3, <3>1
    <3>4. QED
      BY <1>1, <2>1, <3>2, <3>3 DEF Notes
  <2>4. QED
    BY <2>2, <2>3
<1>7. together' => \A p \in Process : turn'[p] > 0
  <2>1. CASE InWindow(q) /\ turn[q] = 0
    <3>1. turn'[q] > 0
      BY <1>1, <1>3, <2>1
    <3>2. together' => \E p \in Process \ {q} : pc[p] = "work"
      BY <1>0, <2>1 DEF Look
    <3>3. ASSUME NEW p \in Process \ {q}, pc[p] = "work" PROVE turn'[p] > 0
      <4>1. turn[p] \in 1..Total
        BY <3>3 DEF PaceOfAll, Basic, Control
      <4>2. QED
        BY <1>1, <1>2, <4>1
    <3>4. \A p1, p2 \in Process \ {q} : p1 = p2
      BY DEF Process
    <3>5. QED
      BY <3>1, <3>2, <3>3, <3>4
  <2>2. CASE ~(InWindow(q) /\ turn[q] = 0)
    <3>1. together' = together
      BY <1>0, <2>2 DEF Look
    <3>2. together => \A p \in Process : turn[p] > 0
      BY DEF PaceOfAll, Basic
    <3>3. turn[q] > 0 => turn'[q] > 0
      BY <1>1, <1>3
    <3>4. QED
      BY <1>2, <3>1, <3>2, <3>3
  <2>3. QED
    BY <2>1, <2>2
<1>8. ASSUME NEW p \in Process PROVE Timely(p)'
  <2>1. CASE p # q
    <3>1. Timely(p)
      BY DEF PaceOfAll
    <3>2. QED
      BY <1>1, <1>2, <2>1, <3>1
         DEF Timely, WorkInv, SpinInv, PaceInv, Active, BegunNow, Default
  <2>2. CASE p = q /\ config[q] = Default
    <3>1. InWindow(q) <=> Open
      BY <2>2, DefaultWindow DEF PaceOfAll, ChannelType
    <3>2. WorkInv(q)'
      <4>1. Open => now <= SYNC_JITTER_DEF
        BY DEF Open
      <4>2. QED
        BY <1>1, <1>3, <3>1, <4>1, DefaultFacts DEF WorkInv
    <3>3. SpinInv(q)'
      BY <1>1, <1>3, <3>1, DefaultFacts DEF SpinInv
    <3>4. PaceInv(q)
      BY <2>2 DEF PaceOfAll, Timely
    <3>5. windows[q] = IF turn[q] = 0 THEN 0 ELSE IF Open THEN turn[q] + 1 ELSE turn[q]
      BY <1>1, <3>4 DEF PaceInv, Active, BegunNow
    <3>6. PaceInv(q)'
      <4>1. CASE InWindow(q)
        BY <1>1, <1>3, <3>1, <3>5, <4>1 DEF PaceInv, BegunNow
      <4>2. CASE ~InWindow(q)
        BY <1>1, <1>3, <3>1, <3>5, <4>2 DEF PaceInv, BegunNow
      <4>3. QED
        BY <4>1, <4>2
    <3>7. QED
      BY <2>2, <3>2, <3>3, <3>6 DEF Timely
  <2>3. CASE p = q /\ config[q] # Default
    BY <1>1, <2>3 DEF Timely, Default
  <2>4. QED
    BY <2>1, <2>2, <2>3
<1>9. QED
  BY <1>5, <1>6, <1>7, <1>8 DEF Basic

LEMMA SyncAgree ==
  ASSUME ChannelInv, NEW q \in Process, cc_sync(q), BothDefault', together'
  PROVE  Agree'
<1> DEFINE r == "receiver"
<1>0. Look(q) /\ PaceOfAll
  BY SyncFrame DEF ChannelInv
<1>1. /\ pc[q] = "spin" /\ turn[q] \in Nat /\ Total \in Nat /\ bits' = bits
      /\ Open' = Open /\ now \in Nat /\ now' = now /\ config' = config
      /\ seen' = seen /\ data' = data /\ msg' = msg /\ text' = text /\ since'[q] = 0
  BY <1>0 DEF Look, PaceOfAll, ChannelType
<1>2. ASSUME NEW p \in Process \ {q}
      PROVE  pc'[p] = pc[p] /\ since'[p] = since[p] /\ turn'[p] = turn[p]
  BY <1>0 DEF Look
<1>3. BothDefault
  BY <1>1 DEF BothDefault, Default
<1>4. ASSUME NEW p \in Process
      PROVE  WorkInv(p) /\ SpinInv(p) /\ PaceInv(p) /\ Control(p)
  BY <1>0, <1>3 DEF PaceOfAll, Timely, BothDefault, Basic
<1>5. InWindow(q) <=> Open
  BY <1>0, <1>3, DefaultWindow DEF PaceOfAll, ChannelType, BothDefault
<1>6. \/ Open /\ pc'[q] = "work" /\ turn'[q] = turn[q] + 1
      \/ ~Open /\ pc'[q] = "spin" /\ turn'[q] = turn[q]
  BY <1>0, <1>5 DEF Look
<1>7. CASE together
  <2>1. SameRound /\ SeenInv /\ DataInv /\ ReceivedIsSent
    BY <1>3, <1>7 DEF ChannelInv, Agree
  <2>2. ASSUME NEW p \in Process PROVE Round(p)' = Round(p)
    <3>1. CASE p # q
      BY <1>1, <1>2, <3>1 DEF Round, BegunNow
    <3>2. CASE p = q
      <4>1. ~BegunNow(q) /\ (Open => BegunNow(q)') /\ (~Open => ~BegunNow(q)')
        BY <1>1, <1>6 DEF BegunNow
      <4>2. QED
        BY <1>1, <1>6, <3>2, <4>1 DEF Round
    <3>3. QED
      BY <3>1, <3>2
  <2>3. SameRound'
    BY <2>1, <2>2 DEF SameRound, Process
  <2>4. DataInv' /\ ReceivedIsSent'
    BY <1>1, <1>3, <1>7, <2>1 DEF DataInv, ReceivedIsSent
  <2>5. SeenInv'
    <3>1. CASE q = r
      <4>1. seen' = {} /\ (pc'[r] = "work" => Open /\ since'[r] = 0)
        BY <1>1, <1>6, <2>1, <3>1 DEF SeenInv
      <4>2. pc'[r] = "work" => BegunNow(r)'
        BY <1>1, <4>1 DEF BegunNow
      <4>3. QED
        BY <4>1, <4>2 DEF SeenInv
    <3>2. CASE q # r
      <4>1. r \in Process \ {q}
        BY <3>2 DEF Process
      <4>2. QED
        BY <1>1, <1>2, <2>1, <4>1 DEF SeenInv, BegunNow
    <3>3. QED
      BY <3>1, <3>2
  <2>6. QED
    BY <2>3, <2>4, <2>5 DEF Agree
<1>8. CASE ~together
  <2>1. Open /\ turn[q] = 0 /\ \E p \in Process \ {q} : pc[p] = "work" /\ windows[p] = 1
    BY <1>0, <1>5, <1>8 DEF Look
  <2>2. PICK p \in Process \ {q} : pc[p] = "work" /\ windows[p] = 1
    BY <2>1
  <2>3. turn[p] \in Nat /\ turn[p] > 0
    BY <1>1, <1>4, <2>2 DEF Control
  <2>4. windows[p] = IF Open /\ ~BegunNow(p) THEN turn[p] + 1 ELSE turn[p]
    <3>1. PaceInv(p)
      BY <1>4
    <3>2. QED
      BY <2>2, <2>3, <3>1 DEF PaceInv, Active
  <2>5. BegunNow(p) /\ turn[p] = 1
    BY <2>1, <2>2, <2>3, <2>4
  <2>6. BegunNow(p)' /\ turn'[p] = 1 /\ pc'[p] = "work"
    BY <1>1, <1>2, <2>2, <2>5 DEF BegunNow
  <2>7. BegunNow(q)' /\ turn'[q] = 1 /\ pc'[q] = "work"
    BY <1>1, <1>6, <2>1 DEF BegunNow
  <2>8. /\ BegunNow("sender")' /\ turn'["sender"] = 1
        /\ BegunNow(r)' /\ turn'[r] = 1 /\ pc'[r] = "work"
    BY <2>6, <2>7 DEF Process
  <2>9. SameRound'
    BY <2>8 DEF SameRound, Round
  <2>10. seen' = {}
    <3>1. q = r \/ q = "sender"
      BY DEF Process
    <3>2. pc[r] # "work" \/ turn["sender"] = 0
      BY <1>1, <2>1, <3>1
    <3>3. QED
      BY <1>0, <1>1, <3>2 DEF PaceOfAll, Basic, Notes
  <2>11. Notes'
    BY <1>0, SyncPace DEF Basic
  <2>12. Len(data') = 0 /\ msg' = <<>>
    BY <2>8, <2>11 DEF Notes
  <2>13. SeenInv' /\ DataInv'
    BY <2>8, <2>10, <2>12 DEF SeenInv, DataInv
  <2>14. QED
    BY <2>9, <2>12, <2>13 DEF Agree, ReceivedIsSent
<1>9. QED
  BY <1>7, <1>8

\* The end of an interval.
Finish(q) ==
  /\ pc[q] = "work" /\ since[q] >= config[q].tx_interval
  /\ pc'[q] = IF turn[q] = Total THEN "end" ELSE "spin"
  /\ since'[q] = 0
  /\ turn' = turn /\ windows' = windows /\ together' = together
  /\ now' = now /\ config' = config /\ text' = text /\ msg' = msg
  /\ Total' = Total /\ bits' = bits /\ Open' = Open
  /\ now \in Nat /\ Total \in Nat /\ turn[q] \in 1..Total /\ since[q] \in Nat
  /\ \A p \in Process \ {q} : pc'[p] = pc[p] /\ since'[p] = since[p]
  /\ q # "receiver" => data' = data /\ seen' = seen

LEMMA EndFrame ==
  ASSUME PaceOfAll, NEW q \in Process, EndInterval(q)
  PROVE  Finish(q)
<1>1. /\ pc[q] = "work" /\ since[q] >= config[q].tx_interval
      /\ pc' = [pc EXCEPT ![q] = IF turn[q] = Total THEN "end" ELSE "spin"]
      /\ since' = [since EXCEPT ![q] = 0]
      /\ turn' = turn /\ windows' = windows /\ together' = together
      /\ now' = now /\ config' = config /\ text' = text /\ msg' = msg
      /\ q # "receiver" => data' = data /\ seen' = seen
  BY DEF EndInterval, history
<1>2. /\ pc \in [Process -> States] /\ since \in [Process -> Nat] /\ now \in Nat
      /\ Total \in Nat /\ turn[q] \in 1..Total
  BY <1>1, BitOfTurn, DefaultFacts DEF PaceOfAll, ChannelType, Basic, Control
<1>3. Total' = Total /\ bits' = bits /\ Open' = Open
  BY <1>1 DEF Total, bits, Open
<1>4. QED
  BY <1>1, <1>2, <1>3 DEF Finish

LEMMA EndPace ==
  ASSUME PaceOfAll, NEW q \in Process, EndInterval(q)
  PROVE  Basic' /\ \A p \in Process : Timely(p)'
<1>0. Finish(q)
  BY EndFrame
<1>1. /\ pc[q] = "work" /\ since[q] >= config[q].tx_interval
      /\ pc'[q] = IF turn[q] = Total THEN "end" ELSE "spin"
      /\ since'[q] = 0 /\ turn' = turn /\ windows' = windows /\ together' = together
      /\ now' = now /\ config' = config /\ msg' = msg /\ Total' = Total /\ Open' = Open
      /\ now \in Nat /\ Total \in Nat /\ turn[q] \in 1..Total /\ since[q] \in Nat
      /\ q # "receiver" => data' = data /\ seen' = seen
  BY <1>0 DEF Finish
<1>2. ASSUME NEW p \in Process \ {q}
      PROVE  pc'[p] = pc[p] /\ since'[p] = since[p]
  BY <1>0 DEF Finish
<1>3. \A p \in Process : Control(p)'
  <2>1. ASSUME NEW p \in Process \ {q} PROVE Control(p)'
    BY <1>1, <1>2 DEF PaceOfAll, Basic, Control
  <2>2. Control(q)'
    BY <1>1 DEF Control
  <2>3. QED
    BY <2>1, <2>2
<1>4. Notes'
  <2>1. Notes
    BY DEF PaceOfAll, Basic
  <2>2. CASE q = "receiver"
    <3>1. seen \subseteq {0, 1} /\ data \in Seq({0, 1}) /\ Len(data) = turn[q] - 1 /\ msg = <<>>
      BY <1>1, <2>1, <2>2 DEF Notes
    <3>2. PICK b \in {0, 1} : data' = Append(data, b)
      <4>1. \E b \in (IF seen = {} THEN {0, 1} ELSE seen) : data' = Append(data, b)
        BY <2>2 DEF EndInterval
      <4>2. QED
        BY <3>1, <4>1
    <3>3. seen' = {}
      BY <2>2 DEF EndInterval
    <3>4. data' \in Seq({0, 1}) /\ Len(data') = turn[q]
      BY <1>1, <3>1, <3>2, AppendProperties
    <3>5. pc'[q] \notin {"work", "done"}
      BY <1>1
    <3>6. QED
      BY <1>1, <2>2, <3>1, <3>3, <3>4, <3>5 DEF Notes
  <2>3. CASE q # "receiver"
    <3>1. pc'["receiver"] = pc["receiver"]
      BY <1>2, <2>3 DEF Process
    <3>2. QED
      BY <1>1, <2>1, <2>3, <3>1 DEF Notes
  <2>4. QED
    BY <2>2, <2>3
<1>5. together' => \A p \in Process : turn'[p] > 0
  BY <1>1 DEF PaceOfAll, Basic
<1>6. ASSUME NEW p \in Process PROVE Timely(p)'
  <2>1. CASE p # q
    <3>1. Timely(p)
      BY DEF PaceOfAll
    <3>2. QED
      BY <1>1, <1>2, <2>1, <3>1
         DEF Timely, WorkInv, SpinInv, PaceInv, Active, BegunNow, Default
  <2>2. CASE p = q /\ config[q] = Default
    <3>1. WorkInv(q) /\ PaceInv(q)
      BY <2>2 DEF PaceOfAll, Timely
    <3>2. since[q] >= TX_INTERVAL_DEF
      BY <1>1, <2>2 DEF Default
    <3>3. ~BegunNow(q) /\ (Open => now = 0)
      BY <1>1, <3>1, <3>2, DefaultFacts DEF WorkInv, BegunNow, Open
    <3>4. WorkInv(q)' /\ SpinInv(q)'
      BY <1>1, <3>3, DefaultFacts DEF WorkInv, SpinInv
    <3>5. windows[q] = IF Open THEN turn[q] + 1 ELSE turn[q]
      BY <1>1, <3>1, <3>3 DEF PaceInv, Active
    <3>6. PaceInv(q)'
      BY <1>1, <3>5 DEF PaceInv, BegunNow
    <3>7. QED
      BY <2>2, <3>4, <3>6 DEF Timely
  <2>3. CASE p = q /\ config[q] # Default
    BY <1>1, <2>3 DEF Timely, Default
  <2>4. QED
    BY <2>1, <2>2, <2>3
<1>7. QED
  BY <1>3, <1>4, <1>5, <1>6 DEF Basic

\* By the end of its interval the receiver saw its bit.
LEMMA EndAgree ==
  ASSUME ChannelInv, NEW q \in Process, EndInterval(q), BothDefault', together'
  PROVE  Agree'
<1> DEFINE r == "receiver"
<1>0. Finish(q) /\ PaceOfAll
  BY EndFrame DEF ChannelInv
<1>1. /\ pc[q] = "work" /\ since[q] >= config[q].tx_interval
      /\ pc'[q] = IF turn[q] = Total THEN "end" ELSE "spin"
      /\ since'[q] = 0 /\ turn' = turn /\ together' = together
      /\ now' = now /\ config' = config /\ msg' = msg /\ text' = text
      /\ bits' = bits /\ Open' = Open
      /\ now \in Nat /\ Total \in Nat /\ turn[q] \in 1..Total /\ since[q] \in Nat
      /\ q # r => data' = data /\ seen' = seen
  BY <1>0 DEF Finish
<1>2. ASSUME NEW p \in Process \ {q}
      PROVE  pc'[p] = pc[p] /\ since'[p] = since[p]
  BY <1>0 DEF Finish
<1>3. BothDefault /\ together
  BY <1>1 DEF BothDefault, Default
<1>4. SameRound /\ SeenInv /\ DataInv /\ ReceivedIsSent
  BY <1>3 DEF ChannelInv, Agree
<1>5. WorkInv(q) /\ config[q] = Default
  BY <1>0, <1>3 DEF PaceOfAll, Timely, BothDefault
<1>6. since[q] >= TX_INTERVAL_DEF
  BY <1>1, <1>5 DEF Default
<1>7. ~BegunNow(q)
  BY <1>1, <1>5, <1>6, DefaultFacts DEF WorkInv, BegunNow, Open
<1>8. ASSUME NEW p \in Process PROVE Round(p)' = Round(p)
  <2>1. CASE p # q
    BY <1>1, <1>2, <2>1 DEF Round, BegunNow
  <2>2. CASE p = q
    <3>1. ~BegunNow(q)'
      BY <1>1 DEF BegunNow
    <3>2. QED
      BY <1>1, <1>7, <2>2, <3>1 DEF Round
  <2>3. QED
    BY <2>1, <2>2
<1>9. SameRound'
  BY <1>4, <1>8 DEF SameRound, Process
<1>10. SeenInv' /\ DataInv'
  <2>1. CASE q # r
    <3>1. pc'[r] = pc[r] /\ since'[r] = since[r]
      BY <1>2, <2>1 DEF Process
    <3>2. QED
      BY <1>1, <1>4, <2>1, <3>1 DEF SeenInv, DataInv, BegunNow
  <2>2. CASE q = r
    <3> DEFINE b == bits[turn[r]]
    <3>1. seen = {b}
      BY <1>1, <1>4, <1>7, <2>2 DEF SeenInv
    <3>2. data' = Append(data, b) /\ seen' = {}
      BY <2>2, <3>1 DEF EndInterval
    <3>3. b \in {0, 1}
      BY <1>0, <1>1, <2>2, BitOfTurn DEF PaceOfAll
    <3>4. data \in Seq({0, 1}) /\ Len(data) = turn[r] - 1 /\ \A k \in 1..Len(data) : data[k] = bits[k]
      BY <1>0, <1>1, <1>4, <2>2 DEF PaceOfAll, Basic, Notes, DataInv
    <3> HIDE DEF b
    <3>5. /\ data' \in Seq({0, 1}) /\ Len(data') = turn[r]
          /\ \A k \in 1..turn[r] - 1 : data'[k] = data[k]
          /\ data'[turn[r]] = b
      BY <1>1, <2>2, <3>2, <3>3, <3>4, AppendProperties
    <3>6. \A k \in 1..turn[r] : data'[k] = bits[k]
      <4>1. turn[r] \in Nat
        BY <1>1, <2>2
      <4>2. \A k \in 1..turn[r] - 1 : data'[k] = bits[k]
        BY <3>4, <3>5
      <4>3. data'[turn[r]] = bits[turn[r]]
        BY <3>5 DEF b
      <4>4. QED
        BY <4>1, <4>2, <4>3
    <3>7. pc'[r] # "work"
      BY <1>1, <2>2
    <3>8. QED
      BY <1>1, <3>2, <3>5, <3>6, <3>7 DEF SeenInv, DataInv
  <2>3. QED
    BY <2>1, <2>2
<1>11. ReceivedIsSent'
  BY <1>1, <1>3, <1>4 DEF ReceivedIsSent
<1>12. QED
  BY <1>4, <1>9, <1>10, <1>11 DEF Agree

\* The receiver has all bits, and makes the text of them.
LEMMA DecodeFrame ==
  ASSUME PaceOfAll, Decode
  PROVE  /\ pc["receiver"] = "end" /\ pc'["receiver"] = "done" /\ pc'["sender"] = pc["sender"]
         /\ now' = now /\ config' = config /\ since' = since /\ turn' = turn /\ text' = text
         /\ seen' = seen /\ data' = data /\ windows' = windows /\ together' = together
         /\ Total' = Total /\ bits' = bits /\ Open' = Open
<1>1. /\ pc["receiver"] = "end" /\ pc' = [pc EXCEPT !["receiver"] = "done"]
      /\ UNCHANGED <<now, config, since, turn, text, seen, data, history>>
  BY DEF Decode
<1>2. pc \in [Process -> States] /\ Process = {"sender", "receiver"}
  BY DEF PaceOfAll, ChannelType, Process
<1>3. QED
  BY <1>1, <1>2 DEF history, Total, bits, Open

LEMMA DecodePace ==
  ASSUME PaceOfAll, Decode
  PROVE  Basic' /\ \A p \in Process : Timely(p)'
<1> DEFINE r == "receiver"
<1>1. /\ pc[r] = "end" /\ pc'[r] = "done" /\ pc'["sender"] = pc["sender"]
      /\ now' = now /\ config' = config /\ since' = since /\ turn' = turn
      /\ seen' = seen /\ data' = data /\ windows' = windows /\ together' = together
      /\ Total' = Total /\ Open' = Open
  BY DecodeFrame
<1>2. \A p \in Process : Control(p)'
  <2>1. \A p \in Process : Control(p)
    BY DEF PaceOfAll, Basic
  <2>2. Control("sender")' /\ Control(r)'
    BY <1>1, <2>1 DEF Control, Process
  <2>3. QED
    BY <2>2 DEF Process
<1>3. Notes'
  BY <1>1 DEF PaceOfAll, Basic, Notes
<1>4. together' => \A p \in Process : turn'[p] > 0
  BY <1>1 DEF PaceOfAll, Basic
<1>5. Timely(r)'
  BY <1>1 DEF Timely, WorkInv, SpinInv, PaceInv, Active
<1>6. Timely("sender")'
  <2>1. Timely("sender")
    BY DEF PaceOfAll, Process
  <2>2. QED
    BY <1>1, <2>1 DEF Timely, WorkInv, SpinInv, PaceInv, Active, BegunNow, Default
<1>7. QED
  BY <1>2, <1>3, <1>4, <1>5, <1>6 DEF Basic, Process

LEMMA DecodeAgree ==
  ASSUME ChannelInv, Decode, BothDefault', together'
  PROVE  Agree'
<1> DEFINE r == "receiver"
<1>0. PaceOfAll
  BY DEF ChannelInv
<1>1. /\ pc[r] = "end" /\ pc'[r] = "done" /\ pc'["sender"] = pc["sender"]
      /\ now' = now /\ config' = config /\ since' = since /\ turn' = turn /\ text' = text
      /\ seen' = seen /\ data' = data /\ together' = together
      /\ bits' = bits /\ Open' = Open
  BY <1>0, DecodeFrame
<1>2. SameRound /\ SeenInv /\ DataInv
  BY <1>1 DEF ChannelInv, Agree, BothDefault, Default
<1>3. SameRound' /\ SeenInv' /\ DataInv'
  BY <1>1, <1>2 DEF SameRound, Round, BegunNow, SeenInv, DataInv
<1>4. data = bits
  <2>1. Len(data) = Total /\ data \in Seq({0, 1}) /\ \A k \in 1..Total : data[k] = bits[k]
    BY <1>0, <1>1, <1>2 DEF DataInv, PaceOfAll, Basic, Notes, Control, Process
  <2>2. QED
    BY <1>0, <2>1, BitOfTurn, SeqEqual DEF PaceOfAll
<1>5. PICK behind \in Beyond : msg' = <<behind, conv_char(data, Len(text), behind)>>
  BY DEF Decode
<1>6. text \in Texts /\ text' = text
  BY <1>0, <1>1 DEF PaceOfAll, ChannelType
<1>7. ReceivedIsSent'
  <2>1. CASE behind = <<>>
    BY <1>4, <1>5, <1>6, <2>1, Decoded DEF ReceivedIsSent, bits
  <2>2. CASE behind # <<>>
    BY <1>5, <2>2 DEF ReceivedIsSent
  <2>3. QED
    BY <2>1, <2>2
<1>8. QED
  BY <1>3, <1>7 DEF Agree

\* What the tick of the counter changes.  A process that works when time passes
\* began in the window that is open or closed last; with the window open, it
\* began in this one.
LEMMA TickFrame ==
  ASSUME PaceOfAll, Tick
  PROVE  /\ now \in 0..Period - 1 /\ now' = (now + 1) % Period
         /\ config' = config /\ pc' = pc /\ turn' = turn /\ text' = text
         /\ data' = data /\ msg' = msg /\ together' = together
         /\ Total' = Total /\ bits' = bits
         /\ seen' = IF pc["receiver"] = "work" THEN seen \cup Transmitting ELSE seen
BY DEF Tick, PaceOfAll, ChannelType, Total, bits

LEMMA TickProcess ==
  ASSUME PaceOfAll, Tick, NEW p \in Process
  PROVE  /\ since[p] \in Nat /\ turn[p] \in Nat /\ windows[p] \in Nat
         /\ since'[p] = IF Active(p) THEN since[p] + 1 ELSE 0
         /\ windows'[p] = IF now' = 0 /\ Active(p) /\ turn[p] > 0
                          THEN windows[p] + 1 ELSE windows[p]
         /\ pc[p] = "spin" => since[p] < Gap
         /\ pc[p] = "work" => since[p] < config[p].tx_interval
BY DEF Tick, PaceOfAll, ChannelType

\* Time passes within the window, out of it, outside, or into the next one.
LEMMA TickNow ==
  ASSUME PaceOfAll, Tick
  PROVE  \/ now < SYNC_JITTER_DEF /\ now' = now + 1
         \/ now = SYNC_JITTER_DEF /\ now' = now + 1
         \/ now > SYNC_JITTER_DEF /\ now < Period - 1 /\ now' = now + 1
         \/ now = Period - 1 /\ now > SYNC_JITTER_DEF /\ now' = 0
<1>1. now \in 0..Period - 1 /\ now' = (now + 1) % Period
  BY TickFrame
<1>2. CASE now = Period - 1
  BY <1>1, <1>2, DefaultFacts
<1>3. CASE now < Period - 1
  BY <1>1, <1>3, DefaultFacts
<1>4. QED
  BY <1>1, <1>2, <1>3, DefaultFacts

LEMMA TickTimely ==
  ASSUME PaceOfAll, Tick, NEW p \in Process, config[p] = Default
  PROVE  /\ pc[p] = "work" => /\ since[p] < TX_INTERVAL_DEF
                              /\ since[p] <= now
                              /\ now - since[p] <= SYNC_JITTER_DEF
                              /\ BegunNow(p) <=> Open
         /\ pc[p] = "spin" => /\ since[p] < Gap
                              /\ Open /\ turn[p] > 0 => since[p] >= now /\ now < SYNC_JITTER_DEF
<1>1. now \in Nat /\ since[p] \in Nat
  BY TickFrame, TickProcess, DefaultFacts
<1>2. WorkInv(p) /\ SpinInv(p)
  BY DEF PaceOfAll, Timely
<1>3. CASE pc[p] = "work"
  <2>1. since[p] < TX_INTERVAL_DEF
    BY <1>3, TickProcess DEF Default
  <2>2. since[p] <= now /\ now - since[p] <= SYNC_JITTER_DEF
    BY <1>1, <1>2, <1>3, <2>1, DefaultFacts DEF WorkInv
  <2>3. BegunNow(p) <=> Open
    BY <1>3, <2>2 DEF BegunNow
  <2>4. QED
    BY <1>3, <2>1, <2>2, <2>3
<1>4. CASE pc[p] = "spin"
  <2>1. since[p] < Gap
    BY <1>4, TickProcess
  <2>2. Open /\ turn[p] > 0 => since[p] >= now /\ now < SYNC_JITTER_DEF
    BY <1>1, <1>2, <1>4, <2>1, DefaultFacts DEF SpinInv
  <2>3. QED
    BY <1>4, <2>1, <2>2
<1>5. QED
  BY <1>3, <1>4

LEMMA TickPace ==
  ASSUME PaceOfAll, Tick
  PROVE  Basic' /\ \A p \in Process : Timely(p)'
<1> DEFINE r == "receiver"
<1>1. /\ now \in 0..Period - 1 /\ now' = (now + 1) % Period
      /\ config' = config /\ pc' = pc /\ turn' = turn
      /\ data' = data /\ msg' = msg /\ together' = together /\ Total' = Total
      /\ seen' = IF pc[r] = "work" THEN seen \cup Transmitting ELSE seen
  BY TickFrame
<1>2. now \in Nat
  BY <1>1, DefaultFacts
<1>3. \A p \in Process : Control(p)'
  <2>1. ASSUME NEW p \in Process PROVE Control(p)'
    <3>1. pc[p] \in {"options", "exit"} => since'[p] = 0 /\ windows'[p] = windows[p]
      BY TickProcess DEF Active
    <3>2. QED
      BY <1>1, <3>1 DEF PaceOfAll, Basic, Control
  <2>2. QED
    BY <2>1
<1>4. Notes'
  <2>1. Notes
    BY DEF PaceOfAll, Basic
  <2>2. Transmitting \subseteq {0, 1}
    <3>1. CASE pc["sender"] = "work"
      <4>1. turn["sender"] \in 1..Total
        BY <3>1 DEF PaceOfAll, Basic, Control, Process
      <4>2. bits[turn["sender"]] \in {0, 1}
        BY <4>1, BitOfTurn DEF PaceOfAll
      <4>3. QED
        BY <4>2 DEF Transmitting, bits
    <3>2. QED
      BY <3>1 DEF Transmitting
  <2>3. turn["sender"] = 0 => Transmitting = {}
    BY BitOfTurn DEF PaceOfAll, Basic, Control, Process, Transmitting
  <2>4. QED
    BY <1>1, <2>1, <2>2, <2>3 DEF Notes
<1>5. together' => \A p \in Process : turn'[p] > 0
  BY <1>1 DEF PaceOfAll, Basic
<1>6. ASSUME NEW p \in Process PROVE Timely(p)'
  <2> SUFFICES ASSUME config[p] = Default PROVE WorkInv(p)' /\ SpinInv(p)' /\ PaceInv(p)'
    BY <1>1 DEF Timely, Default
  <2>1. PaceInv(p)
    BY DEF PaceOfAll, Timely
  <2>2. /\ since[p] \in Nat /\ turn[p] \in Nat /\ windows[p] \in Nat
        /\ Active(p) => since'[p] = since[p] + 1
        /\ windows'[p] = IF now' = 0 /\ Active(p) /\ turn[p] > 0
                         THEN windows[p] + 1 ELSE windows[p]
    BY TickProcess
  <2>3. CASE pc[p] = "work"
    <3>1. /\ since'[p] = since[p] + 1 /\ turn[p] > 0
          /\ since[p] < TX_INTERVAL_DEF /\ since[p] <= now /\ now - since[p] <= SYNC_JITTER_DEF
      BY <2>2, <2>3, TickTimely DEF Active, PaceOfAll, Basic, Control
    <3>2. /\ since'[p] <= TX_INTERVAL_DEF
          /\ \/ since'[p] <= now' /\ now' - since'[p] <= SYNC_JITTER_DEF
             \/ now' = 0 /\ since'[p] = TX_INTERVAL_DEF
      BY <1>2, <2>2, <3>1, TickNow, DefaultFacts
    <3>3. WorkInv(p)' /\ SpinInv(p)'
      BY <1>1, <2>3, <3>2 DEF WorkInv, SpinInv
    <3>4. BegunNow(p) <=> Open
      BY <2>3, TickTimely
    <3>5. windows[p] = turn[p]
      BY <2>1, <2>3, <3>1, <3>4 DEF PaceInv, Active
    <3>6. PaceInv(p)'
      <4>1. now' # 0 => (Open' => BegunNow(p)') /\ windows'[p] = turn[p]
        BY <1>1, <1>2, <2>2, <2>3, <3>1, <3>5, TickNow, DefaultFacts DEF BegunNow, Open
      <4>2. now' = 0 => Open' /\ ~BegunNow(p)' /\ windows'[p] = turn[p] + 1
        BY <1>1, <2>2, <2>3, <3>1, <3>5, DefaultFacts DEF BegunNow, Open, Active
      <4>3. QED
        BY <1>1, <3>1, <4>1, <4>2 DEF PaceInv
    <3>7. QED
      BY <3>3, <3>6
  <2>4. CASE pc[p] = "spin"
    <3>1. /\ since'[p] = since[p] + 1 /\ since[p] < Gap
          /\ Open /\ turn[p] > 0 => since[p] >= now /\ now < SYNC_JITTER_DEF
      BY <2>2, <2>4, TickTimely DEF Active
    <3>2. since'[p] <= Gap
      BY <2>2, <3>1, DefaultFacts
    <3>3. Open' /\ turn[p] > 0 => since'[p] >= now'
      BY <1>2, <2>2, <3>1, TickNow, DefaultFacts DEF Open
    <3>4. WorkInv(p)' /\ SpinInv(p)'
      BY <1>1, <2>4, <3>2, <3>3 DEF WorkInv, SpinInv
    <3>5. windows[p] = IF turn[p] = 0 THEN 0 ELSE IF Open THEN turn[p] + 1 ELSE turn[p]
      BY <2>1, <2>4 DEF PaceInv, Active, BegunNow
    <3>6. CASE turn[p] = 0
      <4>1. windows'[p] = 0
        BY <2>2, <3>5, <3>6
      <4>2. QED
        BY <1>1, <3>4, <3>6, <4>1 DEF PaceInv
    <3>7. CASE turn[p] > 0
      <4>1. now' # 0 => (Open' <=> Open) /\ windows'[p] = windows[p]
        BY <1>2, <2>2, <3>1, <3>7, TickNow, DefaultFacts DEF Open
      <4>2. now' = 0 => Open' /\ ~Open /\ windows'[p] = windows[p] + 1
        BY <1>2, <2>2, <2>4, <3>7, TickNow, DefaultFacts DEF Open, Active
      <4>3. windows'[p] = IF Open' THEN turn[p] + 1 ELSE turn[p]
        BY <2>2, <3>5, <3>7, <4>1, <4>2
      <4>4. QED
        BY <1>1, <2>4, <3>4, <3>7, <4>3 DEF PaceInv, BegunNow
    <3>8. QED
      BY <2>2, <3>6, <3>7
  <2>5. CASE ~Active(p)
    BY <1>1, <2>5 DEF WorkInv, SpinInv, PaceInv, Active
  <2>6. QED
    BY <2>3, <2>4, <2>5 DEF Active
<1>7. QED
  BY <1>3, <1>4, <1>5, <1>6 DEF Basic

\* When the window closes both have begun the bit: one that has none left would
\* be a round ahead.
LEMMA WindowCloses ==
  ASSUME ChannelInv, Tick, BothDefault, together, now = SYNC_JITTER_DEF
  PROVE  \A p \in Process : pc[p] = "work" /\ BegunNow(p)
<1>0. PaceOfAll /\ SameRound
  BY DEF ChannelInv, Agree
<1>1. ASSUME NEW p \in Process
      PROVE  /\ turn[p] \in Nat /\ turn[p] > 0 /\ Control(p)
             /\ config[p] = Default /\ pc[p] \in States
  BY <1>0 DEF PaceOfAll, ChannelType, Basic, BothDefault
<1>2. Open
  BY DefaultFacts DEF Open
<1>3. ASSUME NEW p \in Process PROVE pc[p] # "spin" /\ (pc[p] = "work" => BegunNow(p))
  BY <1>0, <1>1, <1>2, TickTimely, DefaultFacts
<1>4. PICK q \in Process : pc[q] = "work"
  BY <1>3 DEF Tick, Active
<1>5. Round(q) = turn[q] - 1 /\ turn[q] \in 1..Total /\ Total \in Nat
  BY <1>0, <1>1, <1>3, <1>4, BitOfTurn DEF Round, Control, PaceOfAll
<1>6. ASSUME NEW p \in Process, pc[p] # "work" PROVE FALSE
  <2>1. pc[p] \in {"end", "done"}
    BY <1>1, <1>3, <1>6 DEF Control, States
  <2>2. Round(p) = Total
    BY <1>1, <2>1 DEF Control, Round, BegunNow
  <2>3. Round(p) = Round(q)
    BY <1>0 DEF SameRound, Process
  <2>4. QED
    BY <1>5, <2>2, <2>3
<1>7. QED
  BY <1>3, <1>6

\* Two processes at work are at the same bit.
LEMMA SameBit ==
  ASSUME ChannelInv, Tick, BothDefault, together, pc["sender"] = "work", pc["receiver"] = "work"
  PROVE  turn["sender"] = turn["receiver"]
<1>1. PaceOfAll /\ SameRound
  BY DEF ChannelInv, Agree
<1>2. BegunNow("sender") <=> BegunNow("receiver")
  BY <1>1, TickTimely DEF Process, BothDefault
<1>3. turn["sender"] \in Nat /\ turn["receiver"] \in Nat
  BY <1>1 DEF PaceOfAll, ChannelType, Process
<1>4. QED
  BY <1>1, <1>2, <1>3 DEF SameRound, Round

LEMMA TickAgree ==
  ASSUME ChannelInv, Tick, BothDefault', together'
  PROVE  Agree'
<1> DEFINE r == "receiver"
           b == bits[turn[r]]
<1>0. PaceOfAll
  BY DEF ChannelInv
<1>1. /\ now \in 0..Period - 1
      /\ config' = config /\ pc' = pc /\ turn' = turn /\ text' = text
      /\ data' = data /\ msg' = msg /\ together' = together /\ bits' = bits
      /\ seen' = IF pc[r] = "work" THEN seen \cup Transmitting ELSE seen
  BY <1>0, TickFrame
<1>2. BothDefault /\ together
  BY <1>1 DEF BothDefault, Default
<1>3. SameRound /\ SeenInv /\ DataInv /\ ReceivedIsSent
  BY <1>2 DEF ChannelInv, Agree
<1>4. ASSUME NEW p \in Process
      PROVE  /\ config[p] = Default /\ since[p] \in Nat /\ turn[p] \in Nat
             /\ pc[p] = "work" => since'[p] = since[p] + 1
  BY <1>0, <1>2, TickProcess DEF BothDefault, Active
<1>5. ASSUME NEW p \in Process, pc[p] = "work"
      PROVE  since[p] <= now /\ (BegunNow(p) <=> Open)
  BY <1>0, <1>4, <1>5, TickTimely
<1>6. ASSUME NEW p \in Process, pc[p] = "work", now # SYNC_JITTER_DEF
      PROVE  BegunNow(p)' <=> Open
  BY <1>0, <1>1, <1>4, <1>5, <1>6, TickNow, DefaultFacts DEF BegunNow, Open
<1>7. SameRound'
  <2>1. CASE now # SYNC_JITTER_DEF
    <3>1. ASSUME NEW p \in Process PROVE Round(p)' = Round(p)
      <4>1. BegunNow(p)' <=> BegunNow(p)
        <5>1. CASE pc[p] = "work"
          BY <1>5, <1>6, <2>1, <5>1
        <5>2. CASE pc[p] # "work"
          BY <1>1, <5>2 DEF BegunNow
        <5>3. QED
          BY <5>1, <5>2
      <4>2. QED
        BY <1>1, <4>1 DEF Round
    <3>2. QED
      BY <1>3, <3>1 DEF SameRound, Process
  <2>2. CASE now = SYNC_JITTER_DEF
    <3>1. ~Open'
      BY <1>0, <2>2, TickNow, DefaultFacts DEF Open
    <3>2. turn["sender"] = turn["receiver"]
      BY <1>2, <2>2, WindowCloses, SameBit DEF Process
    <3>3. QED
      BY <1>1, <3>1, <3>2 DEF SameRound, Round, BegunNow
  <2>3. QED
    BY <2>1, <2>2
<1>8. DataInv' /\ ReceivedIsSent'
  BY <1>1, <1>2, <1>3 DEF DataInv, ReceivedIsSent
<1>9. SeenInv'
  <2>1. CASE pc[r] # "work"
    BY <1>1, <1>3, <2>1 DEF SeenInv
  <2>2. CASE pc[r] = "work"
    <3>1. Transmitting = IF pc["sender"] = "work" THEN {b} ELSE {}
      BY <1>2, <2>2, SameBit DEF Transmitting, bits
    <3>2. seen \subseteq {b} /\ (~BegunNow(r) => b \in seen)
      BY <1>3, <2>2 DEF SeenInv
    <3>3. seen' \subseteq {b}
      BY <1>1, <2>2, <3>1, <3>2
    <3>4. b \in seen' \/ BegunNow(r)'
      <4>1. CASE ~Open
        BY <1>1, <1>5, <2>2, <3>2, <4>1 DEF Process
      <4>2. CASE now = SYNC_JITTER_DEF
        <5>1. pc["sender"] = "work"
          BY <1>2, <4>2, WindowCloses DEF Process
        <5>2. QED
          BY <1>1, <2>2, <3>1, <5>1
      <4>3. CASE Open /\ now # SYNC_JITTER_DEF
        BY <1>6, <2>2, <4>3 DEF Process
      <4>4. QED
        BY <4>1, <4>2, <4>3
    <3>5. QED
      BY <1>1, <2>2, <3>3, <3>4 DEF SeenInv
  <2>3. QED
    BY <2>1, <2>2
<1>10. QED
  BY <1>7, <1>8, <1>9 DEF Agree

LEMMA ChannelStep ==
  ASSUME ChannelInv, [Next]_vars
  PROVE  ChannelInv'
<1>0. PaceOfAll
  BY DEF ChannelInv
<1>1. ChannelType'
  BY <1>0, TypeStep DEF PaceOfAll
<1>2. CASE Next
  <2>1. Basic' /\ \A p \in Process : Timely(p)'
    BY <1>0, <1>2, OptionStep, SyncPace, EndPace, DecodePace, TickPace DEF Next
  <2>2. BothDefault' /\ together' => Agree'
    BY <1>0, <1>2, OptionStep, SyncAgree, EndAgree, DecodeAgree, TickAgree DEF Next
  <2>3. QED
    BY <1>1, <2>1, <2>2 DEF ChannelInv, PaceOfAll
<1>3. CASE UNCHANGED vars
  <2>1. /\ now' = now /\ config' = config /\ pc' = pc /\ since' = since /\ turn' = turn
        /\ text' = text /\ seen' = seen /\ data' = data /\ msg' = msg
        /\ windows' = windows /\ together' = together
    BY <1>3 DEF vars, wires, history
  <2>2. Basic'
    BY <1>0, <2>1 DEF PaceOfAll, Basic, Control, Notes, Total
  <2>3. \A p \in Process : Timely(p)'
    BY <1>0, <2>1 DEF PaceOfAll, Timely, WorkInv, SpinInv, PaceInv, Active, BegunNow, Open, Default
  <2>4. BothDefault' /\ together' => Agree'
    BY <2>1 DEF ChannelInv, BothDefault, Agree, SameRound, Round, BegunNow, Open, SeenInv,
       DataInv, ReceivedIsSent, bits, Default
  <2>5. QED
    BY <1>1, <2>2, <2>3, <2>4 DEF ChannelInv, PaceOfAll
<1>4. QED
  BY <1>2, <1>3

\* The invariant says what the two properties do.
LEMMA ChannelInvShows ==
  ASSUME ChannelInv
  PROVE  InStep /\ ReceivedIsSent
<1>1. InStep
  <2> SUFFICES ASSUME NEW p \in Process, config[p] = Default, Active(p), ~InWindow(p)
               PROVE  turn[p] = windows[p]
    BY DEF InStep
  <2>1. ~Open
    BY DefaultWindow DEF ChannelInv, PaceOfAll, ChannelType
  <2>2. PaceInv(p)
    BY DEF ChannelInv, PaceOfAll, Timely
  <2>3. QED
    BY <2>1, <2>2 DEF PaceInv
<1>2. ReceivedIsSent
  BY DEF ChannelInv, Agree, ReceivedIsSent
<1>3. QED
  BY <1>1, <1>2

\* With the default parameters a process has begun one bit in each window since
\* its first, none twice and none too late: whenever it is started, whatever
\* the other one does, and wherever in each window it sees it open.
THEOREM ProcessesKeepStep == Spec => []InStep
<1>1. Init => ChannelInv
  BY ChannelInit
<1>2. ChannelInv /\ [Next]_vars => ChannelInv'
  BY ChannelStep
<1>3. ChannelInv => InStep
  BY ChannelInvShows
<1>4. QED
  BY <1>1, <1>2, <1>3, PTL DEF Spec

\* If two such processes begin their first bit in the same window every bit
\* arrives, and conv_char makes of them the text that was sent, if the memory
\* behind tmp ends it: it undoes string_to_binary, for chars of any width.
THEOREM TextArrives == Spec => []ReceivedIsSent
<1>1. Init => ChannelInv
  BY ChannelInit
<1>2. ChannelInv /\ [Next]_vars => ChannelInv'
  BY ChannelStep
<1>3. ChannelInv => ReceivedIsSent
  BY ChannelInvShows
<1>4. QED
  BY <1>1, <1>2, <1>3, PTL DEF Spec
=============================================================================
