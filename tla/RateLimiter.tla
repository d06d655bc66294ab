----------------------------- MODULE RateLimiter -----------------------------
(***************************************************************************)
(* How many requests of a client are let in                                *)
(* (src/src/infrastructure/api/local_rate_limiter.py): a sliding window    *)
(* for each key, of which only the most recently used are remembered.      *)
(*                                                                         *)
(* No await lies between reading the clock and storing the window, as the  *)
(* lock is always free; the clock never goes back.                         *)
(***************************************************************************)
EXTENDS Integers, SequencesExt

CONSTANTS RateLimit, RateWindow, MaxKeys

\* The history is a sequence of entries [key, times], least recently used first,
\* with at most one entry of a key.
Places(history, key) == {i \in DOMAIN history : history[i].key = key}
Place(history, key) == CHOOSE i \in Places(history, key) : TRUE

\* _history.pop(key, []): what is remembered of a key, and what is left.
TimesOf(history, key) ==
  IF Places(history, key) = {} THEN <<>>
  ELSE history[Place(history, key)].times
Others(history, key) ==
  IF Places(history, key) = {} THEN history
  ELSE RemoveAt(history, Place(history, key))

\* The times that are within the window.
Recent(times, now) ==
  LET kept[i \in 0..Len(times)] ==
        IF i = 0 THEN <<>>
        ELSE IF now - times[i] < RateWindow THEN Append(kept[i - 1], times[i])
        ELSE kept[i - 1] IN
  kept[Len(times)]

\* Mutant: a key that is remembered keeps its place.
RememberInPlace(history, entry) ==
  LET at == Places(history, entry.key) IN
  IF at # {} THEN [i \in DOMAIN history |->
                     IF i \in at THEN entry ELSE history[i]]
  ELSE SubSeq(Append(history, entry),
              IF Len(history) < MaxKeys THEN 1 ELSE 2, Len(history) + 1)

\* The key moves to the end; the keys used longest ago are forgotten.
Remember(history, entry) ==
  LET all == Append(Others(history, entry.key), entry) IN
  SubSeq(all, IF Len(all) > MaxKeys THEN Len(all) - MaxKeys + 1 ELSE 1,
         Len(all))

\* allow(): a request that is refused leaves no time, but uses its key.
Allow(history, key, now) ==
  LET recent  == Recent(TimesOf(history, key), now)
      allowed == Len(recent) < RateLimit IN
  [allowed |-> allowed,
   history |-> Remember(history,
                 [key |-> key,
                  times |-> IF allowed THEN Append(recent, now) ELSE recent])]
=============================================================================
