------------------------------- MODULE Ppbloom -------------------------------
(***************************************************************************)
(* The ping-pong Bloom filter in which ss-local keeps the salts it has     *)
(* used and seen (shadowsocks-libev ppbloom.c), as a module of operators.  *)
(* Two filters take turns: when the current one holds Entries salts, the   *)
(* other one is emptied and becomes current.  A filter is an exact set     *)
(* here: false positives have a rate of 1e-15 (crypto.h).                  *)
(***************************************************************************)
EXTENDS Naturals

CONSTANT Entries    \* entries of one filter, half of what ppbloom_init is asked for

ASSUME EntriesAssumption == Entries \in Nat \ {0}

PING == 0
PONG == 1

ppbloom_init ==
    [bloom |-> [i \in {PING, PONG} |-> {}],
     bloom_count |-> [i \in {PING, PONG} |-> 0],
     current |-> PING]

ppbloom_check(pp, salt) == salt \in pp.bloom[PING] \cup pp.bloom[PONG]

\* The current filter is full: the other one is emptied and takes over.
SwapFilters(pp) ==
    LET other == IF pp.current = PING THEN PONG ELSE PING
    IN  [bloom |-> [pp.bloom EXCEPT ![other] = {}],
         bloom_count |-> [pp.bloom_count EXCEPT ![pp.current] = 0],
         current |-> other]

ppbloom_add(pp, salt) ==
    LET added == [bloom |-> [pp.bloom EXCEPT ![pp.current] = @ \cup {salt}],
                  bloom_count |-> [pp.bloom_count EXCEPT ![pp.current] = @ + 1],
                  current |-> pp.current]
    IN  IF added.bloom_count[pp.current] >= Entries THEN SwapFilters(added) ELSE added

==============================================================================
