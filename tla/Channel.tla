------------------------------ MODULE Channel ------------------------------
(***************************************************************************)
(* The helpers of fr_util.c for two processes that exchange a string, bit  *)
(* by bit, without a message between them: init_config, cc_sync, and the   *)
(* conversions between a string and its bits.                              *)
(*                                                                         *)
(* No program of the repository is such a process; the two here do what    *)
(* struct config and the comment of cc_sync say they are for.  Each is     *)
(* started on its own, at any time, with its own arguments.  They call     *)
(* cc_sync before each bit, and work for the transmission interval after   *)
(* it, in which the receiver sees what the sender transmits meanwhile.     *)
(* All they share is the time stamp counter.                               *)
(***************************************************************************)
EXTENDS Integers, Sequences

CONSTANTS
  BitAnd(_, _),      \* & of C
  Period,            \* SYNC_TIME_MASK_DEF + 1, a power of 2
  TX_INTERVAL_DEF,
  SYNC_JITTER_DEF,
  Optioned,          \* bound: the processes that are started with options
  Intervals,         \* bound: the arguments of -i
  Masks,             \* bound: the arguments of -s
  Gap,               \* bound: the time between two rdtscp of a spinning process
  Bits,              \* bound: the bits of a char, 8 in the code
  Texts,             \* bound: the strings to send
  Beyond             \* what may follow tmp[8] on the stack, as binary digits

Process == {"sender", "receiver"}

\* 1 << j
Weight[j \in 0..Bits] == IF j = 0 THEN 1 ELSE 2 * Weight[j - 1]

ASSUME ChannelAssumption ==
  /\ {Period, Gap, Bits} \subseteq Nat \ {0}
  /\ {TX_INTERVAL_DEF, SYNC_JITTER_DEF} \subseteq Nat
  /\ Optioned \subseteq Process
  /\ Intervals \subseteq Nat
  /\ Masks \subseteq 0..Period - 1
  /\ Texts \subseteq Seq(0..Weight[Bits] - 1) \ {<<>>}

\* The defaults: an interval is longer than the window, both together make up
\* a period at most, and SYNC_TIME_MASK_DEF keeps all bits below the period.  The
\* window holds a look at the counter of every process that spins when it opens.
ASSUME DefaultsAssumption ==
  /\ SYNC_JITTER_DEF < TX_INTERVAL_DEF
  /\ TX_INTERVAL_DEF + SYNC_JITTER_DEF <= Period
  /\ \A t \in 0..Period - 1 : BitAnd(t, Period - 1) = t
  /\ Gap <= SYNC_JITTER_DEF

VARIABLES
  now,       \* the time stamp counter.  The masks keep its low bits only
  config,    \* the parameters of each process
  pc,
  since,     \* the time since a process last read the counter
  turn,      \* how many bits a process has begun
  text,      \* what is sent
  seen,      \* the bits the receiver saw in its running interval
  data,      \* what it noted at the ends of the intervals
  msg,       \* what it makes of that
  windows,   \* history: the windows since a process began its first bit, with
             \* the one it began it in, as long as it has bits left
  together   \* history: both began their first bit in the same window

wires == <<text, seen, data, msg>>
history == <<windows, together>>
vars == <<now, config, pc, since, turn, wires, history>>

-----------------------------------------------------------------------------
\* Mutant: the bits come in the order of their weight.
string_to_binary_lsb(s) ==
  [k \in 1..Bits * Len(s) |-> (s[(k - 1) \div Bits + 1] \div Weight[(k - 1) % Bits]) % 2]

\* The bits of each char, from the highest on.
string_to_binary(s) ==
  [k \in 1..Bits * Len(s) |->
     (s[(k - 1) \div Bits + 1] \div Weight[Bits - 1 - ((k - 1) % Bits)]) % 2]

strtol(digits) ==
  LET v[n \in 0..Len(digits)] == IF n = 0 THEN 0 ELSE 2 * v[n - 1] + digits[n]
  IN  v[Len(digits)]

\* tmp has no terminating zero: strtol reads on over what is behind it.  The
\* number is cut off to a char.
conv_char(bits, size, behind) ==
  [i \in 1..size |->
     strtol(SubSeq(bits, (i - 1) * Bits + 1, i * Bits) \o behind) % Weight[Bits]]

-----------------------------------------------------------------------------
\* Mutant: the jitter is scaled down like the other two parameters.
Default_scaled ==
  [tx_interval |-> TX_INTERVAL_DEF, sync_time_mask |-> Period - 1,
   sync_jitter |-> SYNC_JITTER_DEF \div 2^4]

Default ==
  [tx_interval |-> TX_INTERVAL_DEF, sync_time_mask |-> Period - 1,
   sync_jitter |-> SYNC_JITTER_DEF]

Init ==
  /\ now \in 0..Period - 1
  /\ config = [p \in Process |-> Default]
  /\ pc = [p \in Process |-> "options"]
  /\ since = [p \in Process |-> 0]
  /\ turn = [p \in Process |-> 0]
  /\ text \in Texts
  /\ seen = {}
  /\ data = <<>>
  /\ msg = <<>>
  /\ windows = [p \in Process |-> 0]
  /\ together = FALSE

\* One option of the command line.  -o and -f choose what is mapped.
ParseOption(p) ==
  /\ pc[p] = "options" /\ p \in Optioned
  /\ \/ \E v \in Intervals : config' = [config EXCEPT ![p].tx_interval = v]
     \/ \E v \in Masks : config' = [config EXCEPT ![p].sync_time_mask = v]
  /\ UNCHANGED <<now, pc, since, turn, wires, history>>

\* The file is mapped, and the process goes to work, ...
MapFile(p) ==
  /\ pc[p] = "options"
  /\ pc' = [pc EXCEPT ![p] = "spin"]
  /\ UNCHANGED <<now, config, since, turn, wires, history>>

\* ... or it cannot be, or an option is unknown.
Exit(p) ==
  /\ pc[p] = "options"
  /\ pc' = [pc EXCEPT ![p] = "exit"]
  /\ UNCHANGED <<now, config, since, turn, wires, history>>

\* Mutant: the jitter is not allowed for.
InWindow_sharp(p) == BitAnd(now, config[p].sync_time_mask) = 0

InWindow(p) == BitAnd(now, config[p].sync_time_mask) <= config[p].sync_jitter

\* One rdtscp of cc_sync: it returns, or reads again.  A window that is open
\* already will do.
cc_sync(p) ==
  /\ pc[p] = "spin"
  /\ since' = [since EXCEPT ![p] = 0]
  /\ IF InWindow(p)
     THEN /\ pc' = [pc EXCEPT ![p] = "work"]
          /\ turn' = [turn EXCEPT ![p] = @ + 1]
          /\ windows' = [windows EXCEPT ![p] = IF turn[p] = 0 THEN 1 ELSE @]
          /\ together' = IF turn[p] = 0
                         THEN \E q \in Process \ {p} : pc[q] = "work" /\ windows[q] = 1
                         ELSE together
     ELSE UNCHANGED <<pc, turn, history>>
  /\ UNCHANGED <<now, config, wires>>

Total == Bits * Len(text)

\* The interval is over.  A receiver that saw no bit notes any.
EndInterval(p) ==
  /\ pc[p] = "work"
  /\ since[p] >= config[p].tx_interval
  /\ pc' = [pc EXCEPT ![p] = IF turn[p] = Total THEN "end" ELSE "spin"]
  /\ since' = [since EXCEPT ![p] = 0]
  /\ IF p = "receiver"
     THEN /\ \E b \in (IF seen = {} THEN {0, 1} ELSE seen) : data' = Append(data, b)
          /\ seen' = {}
     ELSE UNCHANGED <<data, seen>>
  /\ UNCHANGED <<now, config, turn, text, msg, history>>

\* The receiver has all bits.
Decode ==
  /\ pc["receiver"] = "end"
  /\ pc' = [pc EXCEPT !["receiver"] = "done"]
  /\ \E behind \in Beyond :
       msg' = <<behind, conv_char(data, Len(text), behind)>>
  /\ UNCHANGED <<now, config, since, turn, text, seen, data, history>>

Transmitting ==
  IF pc["sender"] = "work" THEN {string_to_binary(text)[turn["sender"]]} ELSE {}

Active(p) == pc[p] \in {"spin", "work"}

\* Time passes.  No process spins for longer than Gap without a look at it,
\* or works on after its interval.
Tick ==
  /\ \E p \in Process : Active(p)
  /\ \A p \in Process : /\ pc[p] = "spin" => since[p] < Gap
                        /\ pc[p] = "work" => since[p] < config[p].tx_interval
  /\ now' = (now + 1) % Period
  /\ since' = [p \in Process |-> IF Active(p) THEN since[p] + 1 ELSE 0]
  /\ seen' = IF pc["receiver"] = "work" THEN seen \cup Transmitting ELSE seen
  /\ windows' = [p \in Process |->
       IF now' = 0 /\ Active(p) /\ turn[p] > 0 THEN windows[p] + 1 ELSE windows[p]]
  /\ UNCHANGED <<config, pc, turn, text, data, msg, together>>

Next ==
  \/ Decode \/ Tick
  \/ \E p \in Process : ParseOption(p) \/ MapFile(p) \/ Exit(p) \/ cc_sync(p) \/ EndInterval(p)

\* Time goes on, and neither process is kept from running.
Spec ==
  /\ Init /\ [][Next]_vars
  /\ WF_vars(Tick)
  /\ \A p \in Process : WF_vars(cc_sync(p)) /\ WF_vars(EndInterval(p))

-----------------------------------------------------------------------------
\* cc_sync returns, whatever mask -s gives it, one less than a power of 2 or
\* not: after each period there are instants enough that have few bits.
SyncReturns ==
  \A p \in Process : pc[p] = "spin" ~> pc[p] = "work"

\* With the default parameters a process keeps step with the counter: from its
\* first bit on it begins one in every window, none twice and none too late.
\* So two of them stay apart by as many bits as they began.
InStep ==
  \A p \in Process :
    (config[p] = Default /\ Active(p) /\ ~InWindow(p)) => turn[p] = windows[p]

BothDefault == \A p \in Process : config[p] = Default

\* With them, every bit of two processes that began in the same window arrives,
\* and only that bit: the last instant of the window and the interval make up
\* no more than the period.  The string is what was sent, provided that the
\* stack behind tmp ends the number.
ReceivedIsSent ==
  (BothDefault /\ together /\ msg # <<>> /\ msg[1] = <<>>) => msg[2] = text

\* "Convert 8 bit data stream into character": what conv_char returns has the
\* bits of its data.
ConvCharConverts == msg # <<>> => string_to_binary(msg[2]) = data
=============================================================================
