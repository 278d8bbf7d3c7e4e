---------------------------- MODULE EvsetBuild ----------------------------
(***************************************************************************)
(* evset_generation.c: generate_llc_eviction_set looks for pages that      *)
(* together evict a target from the last-level cache.  It retries ps_evset *)
(* until that returns PS_SUCCESS.                                          *)
(*                                                                         *)
(* One action is one guess, one test of the list, or one round of the      *)
(* reduction.  What the code learns from the time of an access to the      *)
(* target is whether the target was evicted.  The cache is external, and   *)
(* the answer to a guess, which rests on one access, may be anything.  A   *)
(* test of the list takes the median of ten: it tells whether the list is  *)
(* an Evicting set, or anything too if tests are Noisy.                    *)
(***************************************************************************)
EXTENDS ElemList, Functions

CONSTANTS
  Evicting,        \* the sets of pages that evict the target
  Noisy,           \* can a test of the list be wrong?
  Pools,           \* what the draws of rand() may put into the guess pool
  ways,            \* the argument of generate_llc_eviction_set, LLC_WAYS (16)
  MAX_POOL_SIZE,   \* bound, 32768 in configurations.h
  MAX_EXTENSION,   \* bound, 32 in configurations.h
  MAX_ATTEMPT      \* bound, 20 in configurations.h

\* A list that does not evict is extended at least once.
ASSUME PoolAssumption ==
  /\ Evicting \subseteq SUBSET Page
  /\ Noisy \in BOOLEAN
  /\ MAX_ATTEMPT \in Nat \ {0}
  /\ MAX_EXTENSION \in Nat
  /\ ways \in 2..MAX_EXTENSION - 2
  /\ MAX_POOL_SIZE \in Nat \ {0}
  /\ Pools \subseteq [0..MAX_POOL_SIZE - 1 -> Page]

VARIABLES
  evset,             \* the list: *evset and the memory of the pages
  guess_pool,
  pool_size,
  guess_index,
  counter_attempt,
  list_len,          \* the length as list_append reported it
  len,               \* the length to reach, extended when the list fails
  rounds,            \* the rounds the reduction has left
  pc,                \* where control is
  result,            \* what the last ps_evset returned
  evsetLLC,          \* the array the caller gets
  drawn,             \* history: the pool as this trial drew it
  cuts               \* history: how often this trial found the head of its list
                     \* again, counted up to MAX_POOL_SIZE

poolVars == <<guess_pool, pool_size, guess_index, counter_attempt>>
history == <<drawn, cuts>>
vars == <<evset, poolVars, list_len, len, rounds, pc, result, evsetLLC, history>>

PS_SUCCESS == 1
PS_FAIL_CONSTRUCTION == -1
PS_FAIL_EXTENSION == -3
PS_FAIL_REDUCTION == -4

\* What a test of list l may return.
ps_evset_test(l) == IF Noisy THEN BOOLEAN ELSE {Elements(l) \in Evicting}

-----------------------------------------------------------------------------
Init ==
  /\ evset = [head |-> Null, next |-> [p \in Page |-> Null]]
  /\ guess_pool \in Pools
  /\ pool_size = MAX_POOL_SIZE
  /\ guess_index = 0
  /\ counter_attempt = 0
  /\ list_len = 0
  /\ len = ways
  /\ rounds = 0
  /\ pc = "place"
  /\ result = 0
  /\ evsetLLC = <<>>
  /\ drawn = guess_pool
  /\ cuts = 0

Return(code) ==
  /\ result' = code
  /\ pc' = IF code = PS_SUCCESS THEN "return" ELSE "retry"

\* ps_evset failed: generate_llc_eviction_set calls it again.  The list is
\* emptied and the pool drawn anew; the memory of the pages stays.
ps_evset(pool) ==
  /\ pc = "retry"
  /\ evset' = [evset EXCEPT !.head = Null]
  /\ guess_pool' = pool
  /\ pool_size' = MAX_POOL_SIZE
  /\ guess_index' = 0
  /\ counter_attempt' = 0
  /\ list_len' = 0
  /\ len' = ways
  /\ pc' = "place"
  /\ drawn' = pool
  /\ cuts' = 0
  /\ UNCHANGED <<rounds, result, evsetLLC>>

\* The list is too short: load the target and try guesses.
PlaceTarget ==
  /\ pc = "place"
  /\ list_len < len
  /\ pc' = "guess"
  /\ UNCHANGED <<evset, poolVars, list_len, len, rounds, result, evsetLLC, history>>

\* Mutants: the pool wraps around one guess late, and wrap-arounds are not
\* counted.
Wrap_late(gi, ps, ca, goOn) ==
  IF gi > ps
  THEN /\ guess_index' = 0
       /\ counter_attempt' = ca + 1
       /\ IF ca + 1 >= MAX_ATTEMPT
          THEN Return(PS_FAIL_CONSTRUCTION)
          ELSE pc' = "place" /\ UNCHANGED result
  ELSE /\ guess_index' = gi
       /\ counter_attempt' = ca
       /\ pc' = goOn
       /\ UNCHANGED result

Wrap_uncounted(gi, ps, ca, goOn) ==
  /\ guess_index' = IF gi >= ps - 1 THEN 0 ELSE gi
  /\ counter_attempt' = ca
  /\ pc' = IF gi >= ps - 1 THEN "place" ELSE goOn
  /\ UNCHANGED result

\* The end of a guess, at index gi of a pool of ps pages, after ca attempts:
\* wrap around before the last page, give up after too many wrap-arounds.
Wrap(gi, ps, ca, goOn) ==
  IF gi >= ps - 1
  THEN /\ guess_index' = 0
       /\ counter_attempt' = ca + 1
       /\ IF ca + 1 >= MAX_ATTEMPT
          THEN Return(PS_FAIL_CONSTRUCTION)
          ELSE pc' = "place" /\ UNCHANGED result
  ELSE /\ guess_index' = gi
       /\ counter_attempt' = ca
       /\ pc' = goOn
       /\ UNCHANGED result

guess == guess_pool[guess_index]

\* `pool_size--' and the wrap-around after a hit.  Nothing stops the code at
\* an empty pool.  It goes on below 0, where every comparison with pool_size
\* comes out as it does at 0: the model stays at 0.
TakeGuess ==
  /\ pool_size' = IF pool_size > 0 THEN pool_size - 1 ELSE 0
  /\ Wrap(guess_index, pool_size - 1, 0, "place")
  /\ cuts' = IF guess = evset.head /\ cuts < MAX_POOL_SIZE THEN cuts + 1 ELSE cuts
  /\ UNCHANGED drawn

\* Mutant: the last page is dropped in place of the guess.
Hit_drops_last ==
  /\ pc = "guess"
  /\ evset' = list_append(evset, guess)
  /\ list_len' = list_append_length(evset, guess)
  /\ TakeGuess
  /\ UNCHANGED <<guess_pool, len, rounds, evsetLLC>>

\* The target was evicted: the guess goes from the pool to the list.
Hit ==
  /\ pc = "guess"
  /\ evset' = list_append(evset, guess)
  /\ list_len' = list_append_length(evset, guess)
  /\ guess_pool' = [k \in DOMAIN guess_pool |->
       IF guess_index <= k /\ k < pool_size - 1 THEN guess_pool[k + 1] ELSE guess_pool[k]]
  /\ TakeGuess
  /\ UNCHANGED <<len, rounds, evsetLLC>>

\* Mutant: the next guess is taken without a look at the end of the pool.
Miss_no_wrap ==
  /\ pc = "guess"
  /\ guess_index' = guess_index + 1
  /\ UNCHANGED <<evset, guess_pool, pool_size, counter_attempt, list_len, len,
                 rounds, pc, result, evsetLLC, history>>

Miss ==
  /\ pc = "guess"
  /\ Wrap(guess_index + 1, pool_size, counter_attempt, "guess")
  /\ UNCHANGED <<evset, guess_pool, pool_size, list_len, len, rounds, evsetLLC, history>>

\* The list is long enough by its count and does not evict: ask for one more.
Extend ==
  /\ pc = "place"
  /\ list_len >= len
  /\ FALSE \in ps_evset_test(evset)
  /\ len' = len + 1
  /\ IF len + 1 < MAX_EXTENSION
     THEN UNCHANGED <<pc, result>>
     ELSE Return(PS_FAIL_EXTENSION)
  /\ UNCHANGED <<evset, poolVars, list_len, rounds, evsetLLC, history>>

\* Mutants: an extended list is returned as it is, the list is not tested,
\* and the reduction gets one round too few.
Accept_unreduced ==
  /\ pc = "place"
  /\ list_len >= len
  /\ TRUE \in ps_evset_test(evset)
  /\ Return(PS_SUCCESS)
  /\ UNCHANGED <<evset, poolVars, list_len, len, rounds, evsetLLC, history>>

Accept_untested ==
  /\ pc = "place"
  /\ list_len >= len
  /\ IF list_len > ways
     THEN pc' = "reduce" /\ rounds' = list_length(evset) /\ UNCHANGED result
     ELSE Return(PS_SUCCESS) /\ UNCHANGED rounds
  /\ UNCHANGED <<evset, poolVars, list_len, len, evsetLLC, history>>

Accept_short_rounds ==
  /\ pc = "place"
  /\ list_len >= len
  /\ TRUE \in ps_evset_test(evset)
  /\ IF list_len > ways
     THEN pc' = "reduce" /\ rounds' = list_length(evset) - 1 /\ UNCHANGED result
     ELSE Return(PS_SUCCESS) /\ UNCHANGED rounds
  /\ UNCHANGED <<evset, poolVars, list_len, len, evsetLLC, history>>

\* It evicts: done, or reduce it to the length asked for.
Accept ==
  /\ pc = "place"
  /\ list_len >= len
  /\ TRUE \in ps_evset_test(evset)
  /\ IF list_len > ways
     THEN pc' = "reduce" /\ rounds' = list_length(evset) /\ UNCHANGED result
     ELSE Return(PS_SUCCESS) /\ UNCHANGED rounds
  /\ UNCHANGED <<evset, poolVars, list_len, len, evsetLLC, history>>

\* A round of ps_evset_reduce that finds the first page to be dispensable ...
ReduceDrop ==
  LET shorter == list_pop(evset) IN
  /\ pc = "reduce"
  /\ rounds > 0
  /\ TRUE \in ps_evset_test(shorter)
  /\ evset' = shorter
  /\ rounds' = rounds - 1
  /\ IF list_length(shorter) = ways
     THEN Return(PS_SUCCESS)
     ELSE UNCHANGED <<pc, result>>
  /\ UNCHANGED <<poolVars, list_len, len, evsetLLC, history>>

\* Mutant: the page that is needed is not put back.
ReduceKeep_lost ==
  LET shorter == list_pop(evset) IN
  /\ pc = "reduce"
  /\ rounds > 0
  /\ FALSE \in ps_evset_test(shorter)
  /\ evset' = shorter
  /\ rounds' = rounds - 1
  /\ UNCHANGED <<poolVars, list_len, len, pc, result, evsetLLC, history>>

\* ... and one that does not, and puts it back at the end.
ReduceKeep ==
  LET shorter == list_pop(evset) IN
  /\ pc = "reduce"
  /\ rounds > 0
  /\ FALSE \in ps_evset_test(shorter)
  /\ evset' = list_append(shorter, evset.head)
  /\ rounds' = rounds - 1
  /\ UNCHANGED <<poolVars, list_len, len, pc, result, evsetLLC, history>>

ReduceFail ==
  /\ pc = "reduce"
  /\ rounds = 0
  /\ Return(PS_FAIL_REDUCTION)
  /\ UNCHANGED <<evset, poolVars, list_len, len, rounds, evsetLLC, history>>

\* generate_llc_eviction_set copies the list for its caller.
CopyOut ==
  /\ pc = "return"
  /\ evsetLLC' = list_to_array(evset)
  /\ pc' = "done"
  /\ UNCHANGED <<evset, poolVars, list_len, len, rounds, result, history>>

Trial ==
  \/ PlaceTarget \/ Hit \/ Miss \/ Extend \/ Accept
  \/ ReduceDrop \/ ReduceKeep \/ ReduceFail \/ CopyOut

Next == Trial \/ \E pool \in Pools : ps_evset(pool)

\* One thread, which the scheduler does not abandon in a trial.
Spec == Init /\ [][Next]_vars /\ WF_vars(Trial)

-----------------------------------------------------------------------------
TypeOK ==
  /\ evset \in List
  /\ guess_pool \in [0..MAX_POOL_SIZE - 1 -> Page]
  /\ pool_size \in 0..MAX_POOL_SIZE
  /\ guess_index \in 0..MAX_POOL_SIZE - 1
  /\ counter_attempt \in 0..MAX_ATTEMPT
  /\ {list_len, len, rounds} \subseteq Nat
  /\ pc \in {"retry", "place", "guess", "reduce", "return", "done"}
  /\ result \in {0, PS_SUCCESS, PS_FAIL_CONSTRUCTION, PS_FAIL_EXTENSION, PS_FAIL_REDUCTION}
  /\ drawn \in [0..MAX_POOL_SIZE - 1 -> Page]
  /\ cuts \in 0..MAX_POOL_SIZE

\* Every loop over the list ends: no pages are linked in a circle, although
\* they keep their links from one trial to the next.
NoCycle ==
  \A S \in SUBSET Page : S # {} => \E p \in S : evset.next[p] \notin S

\* Between two hits on the head of its list, with which the list starts anew,
\* a trial finds at most MAX_EXTENSION - 3 other pages before it stops
\* guessing.  So these many pages keep a trial from using up its pool.
PagesSuffice(n) == n > 1 + (cuts + 1) * (MAX_EXTENSION - 3)

\* Guesses are taken from the part of the pool that was not used up, as long
\* as the trial drew enough different pages.
GuessIsLive ==
  (pc = "guess" /\ PagesSuffice(Cardinality(Range(drawn)))) => guess_index < pool_size

\* The caller's array has room for the list: evsetLLC[LLC_WAYS].
ListFitsArray == Len(evsetLLC) <= ways

\* The list has the length asked for, whatever pages were drawn more than
\* once, unless the head of the list was found again.
SuccessExact == (pc = "done" /\ cuts = 0) => Len(evsetLLC) = ways

\* With reliable tests, the list that is returned evicts the target.
SuccessEvicts == pc = "done" => {evsetLLC[k] : k \in DOMAIN evsetLLC} \in Evicting

\* With reliable tests, the reduction never loses an eviction set: what it
\* tests is what it keeps.
ReduceKeepsEvicting == pc = "reduce" => Elements(evset) \in Evicting

\* With reliable tests, and no more pages needed than asked for, one round
\* for each page is enough to reduce the list to the length asked for.
ReductionSucceeds == result # PS_FAIL_REDUCTION

\* Every page that was drawn, and has no place in the pool any more, is in the
\* list, until the head of the list is found again.
FoundAreListed ==
  (pc \in {"place", "guess"} /\ cuts = 0) =>
    \A p \in Range(drawn) :
      (\A k \in 0..pool_size - 1 : guess_pool[k] # p) => p \in Elements(evset)

\* Each call of ps_evset returns, whatever the clock says, or uses up its pool.
TrialReturns == pc = "place" ~> (pc \in {"retry", "done"} \/ pool_size = 0)

\* "If too many wrap-arounds, return with fail": each call of ps_evset returns.
GivesUp == pc = "place" ~> pc \in {"retry", "done"}

\* "add element to the end of the list": a hit leaves the list as it was, or
\* with the guess behind it.
AppendAddsAtEnd ==
  [][Hit /\ evset.head # Null =>
       Walk(evset') \in {Walk(evset), Append(Walk(evset), guess)}]_vars

\* "append works the same for empty list": the first hit of a trial makes a
\* list of the length it reports.
EmptyAppendWorks ==
  [][Hit /\ evset.head = Null => list_length(evset') = list_len']_vars
=============================================================================
