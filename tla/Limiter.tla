------------------------------- MODULE Limiter -------------------------------
(***************************************************************************)
(* The shared operation limiter of src/src/limiter.rs: one entry per       *)
(* dimension (an operation and a peer key) with its attempts in a sliding  *)
(* window, its cool-down and its place in the recency order; a hard cap on *)
(* the entries; and a clock clamped to the latest reading.                 *)
(*                                                                         *)
(* Seconds and recency numbers are u64: U64Max is the width, so the two    *)
(* checked additions fail where they fail in the code.  The HMAC of a      *)
(* canonical address prefix is injective, hence the prefix itself.  The    *)
(* two metric counters are left out.                                       *)
(***************************************************************************)
EXTENDS Integers, Sequences, FiniteSets, FiniteSetsExt

CONSTANTS
    Operation,
    Address,              \* canonical peer addresses
    limit, window_seconds,\* the OperationPolicy of each operation
    entry_cap, sweep_interval,
    Cooldown,             \* COOLDOWN_SECONDS
    U64Max,
    Reading,              \* clock readings a caller may pass
    None

\* What Limiter::new accepts.
ASSUME LimiterAssumption ==
    /\ limit \in [Operation -> Nat \ {0}]
    /\ window_seconds \in [Operation -> Nat \ {0}]
    /\ entry_cap \in Nat \ {0} /\ sweep_interval \in Nat \ {0}
    /\ Cooldown \in Nat \ {0} /\ U64Max \in Nat
    /\ Reading \subseteq 0..U64Max
    /\ None \notin Nat

VARIABLES
    entries,        \* dimension -> [attempts, cooldown_until, recency]
    recency,        \* the BTreeSet of <<recency, dimension>>
    next_recency,
    last_now, last_sweep,
    verdicts        \* history: the answers given, one record per check that
                    \*   took a recency number; an eviction drops those of
                    \*   the evicted dimension

vars == <<entries, recency, next_recency, last_now, last_sweep, verdicts>>

\* IPv4 and IPv4-mapped IPv6 share a key, other IPv6 counts by its /64.
peer_key(address) ==
    CASE address.family \in {"v4", "mapped"} -> <<4, address.prefix>>
      [] address.family = "v6" -> <<6, address.prefix>>
      [] OTHER -> <<0, address.prefix>>

Dimension == {<<op, peer_key(address)>> : op \in Operation, address \in Address}

Entry == [attempts : Seq(0..U64Max), cooldown_until : 0..U64Max \cup {None},
          recency : 0..U64Max]

Verdict == [n : 0..U64Max, dim : Dimension, time : 0..U64Max,
            until : 0..U64Max \cup {None}]

TypeOK ==
    /\ DOMAIN entries \subseteq Dimension
    /\ \A d \in DOMAIN entries : entries[d] \in Entry
    /\ recency \subseteq (0..U64Max) \X Dimension
    /\ next_recency \in 0..U64Max
    /\ last_now \in 0..U64Max \cup {None}
    /\ last_sweep \in 0..U64Max \cup {None}
    /\ verdicts \subseteq Verdict

Init ==
    /\ entries = <<>> /\ recency = {} /\ next_recency = 0
    /\ last_now = None /\ last_sweep = None
    /\ verdicts = {}

-----------------------------------------------------------------------------
(* Helpers.                                                                *)

observe_time(reading) ==
    IF last_now = None \/ reading >= last_now THEN reading ELSE last_now

\* Attempts are dropped from the front while they are older than the window.
prune_attempts(attempts, window, now) ==
    LET recent == {i \in DOMAIN attempts : now - attempts[i] < window}
    IN  IF recent = {} THEN <<>>
        ELSE SubSeq(attempts, Min(recent), Len(attempts))

Cooling(e, now) == e.cooldown_until # None /\ now < e.cooldown_until

Pruned(d, e, now) ==
    IF e.cooldown_until # None THEN e
    ELSE [e EXCEPT !.attempts = prune_attempts(@, window_seconds[d[1]], now)]

\* Variant: a cooling dimension without recent attempts is swept too.
Inactive_cooling(d, e, now) ==
    IF Cooling(e, now)
    THEN prune_attempts(e.attempts, window_seconds[d[1]], now) = <<>>
    ELSE \/ e.cooldown_until # None
         \/ prune_attempts(e.attempts, window_seconds[d[1]], now) = <<>>

Inactive(d, e, now) ==
    IF e.cooldown_until # None THEN now >= e.cooldown_until
    ELSE prune_attempts(e.attempts, window_seconds[d[1]], now) = <<>>

Removed(now) == {d \in DOMAIN entries : Inactive(d, entries[d], now)}

SweptEntries(now) ==
    [d \in DOMAIN entries \ Removed(now) |-> Pruned(d, entries[d], now)]

\* Variant: a swept entry leaves its recency tuple behind.
SweptRecency_left(now) == recency

SweptRecency(now) == recency \ {<<entries[d].recency, d>> : d \in Removed(now)}

Due(now) == last_sweep = None \/ now - last_sweep >= sweep_interval

\* The time, and the sweep when one is due, that begin every check.
Observe(now) ==
    /\ last_now' = now
    /\ last_sweep' = IF Due(now) THEN now ELSE last_sweep

EntriesAt(now) == IF Due(now) THEN SweptEntries(now) ELSE entries
RecencyAt(now) == IF Due(now) THEN SweptRecency(now) ELSE recency

With(f, k, v) == [x \in DOMAIN f \cup {k} |-> IF x = k THEN v ELSE f[x]]


\* The first element of the recency set, if there is one.
Victims(rs) == {r \in rs : \A s \in rs : r[1] <= s[1]}

-----------------------------------------------------------------------------
(* check                                                                   *)

Answer(d, now, until) ==
    verdicts' = verdicts \cup
        {[n |-> next_recency, dim |-> d, time |-> now, until |-> until]}

\* touch: the entry e replaces that of d, as the most recently used.
Touched(now, d, e) ==
    /\ entries' = With(EntriesAt(now), d, [e EXCEPT !.recency = next_recency])
    /\ recency' = (RecencyAt(now) \ {<<EntriesAt(now)[d].recency, d>>})
                    \cup {<<next_recency, d>>}
    /\ next_recency' = next_recency + 1
    /\ Observe(now)

Known(now, d) == d \in DOMAIN EntriesAt(now) /\ next_recency < U64Max

CheckCooling(now, d) ==
    /\ Known(now, d)
    /\ LET e == EntriesAt(now)[d]
       IN  /\ Cooling(e, now)
           /\ Touched(now, d, e)
           /\ Answer(d, now, e.cooldown_until)

\* A cool-down that has elapsed is cleared with the attempts before it.
Resumed(e) ==
    IF e.cooldown_until = None THEN e
    ELSE [e EXCEPT !.cooldown_until = None, !.attempts = <<>>]

Current(now, d) == Pruned(d, Resumed(EntriesAt(now)[d]), now)

\* Variant: one attempt more than the limit.
Spent_over(d, e) == Len(e.attempts) > limit[d[1]]

Spent(d, e) == Len(e.attempts) >= limit[d[1]]

\* The overflow is an error, which refuses without promising a time.
CheckExceeds(now, d) ==
    /\ Known(now, d) /\ ~Cooling(EntriesAt(now)[d], now)
    /\ Spent(d, Current(now, d))
    /\ IF now + Cooldown > U64Max
       THEN Touched(now, d, Current(now, d)) /\ Answer(d, now, now)
       ELSE /\ Touched(now, d, [Current(now, d) EXCEPT !.cooldown_until = now + Cooldown])
            /\ Answer(d, now, now + Cooldown)

CheckAllowed(now, d) ==
    /\ Known(now, d) /\ ~Cooling(EntriesAt(now)[d], now)
    /\ ~Spent(d, Current(now, d))
    /\ Touched(now, d, [Current(now, d) EXCEPT !.attempts = Append(@, now)])
    /\ Answer(d, now, None)

\* take_recency fails after touch has removed the old recency tuple.
CheckExhausted(now, d) ==
    /\ d \in DOMAIN EntriesAt(now) /\ next_recency = U64Max
    /\ entries' = EntriesAt(now)
    /\ recency' = RecencyAt(now) \ {<<EntriesAt(now)[d].recency, d>>}
    /\ Observe(now)
    /\ UNCHANGED <<next_recency, verdicts>>

\* Variant: the cap is passed by one.
Evicted_late(now) ==
    IF Cardinality(DOMAIN EntriesAt(now)) > entry_cap
    THEN Victims(RecencyAt(now)) ELSE {}

\* evict_lru: at the cap, the victim's entry and its recency tuple go.
Evicted(now) ==
    IF Cardinality(DOMAIN EntriesAt(now)) >= entry_cap
    THEN Victims(RecencyAt(now)) ELSE {}

Retained(now) ==
    [d \in DOMAIN EntriesAt(now) \ {r[2] : r \in Evicted(now)} |-> EntriesAt(now)[d]]

Remembered(now) == {v \in verdicts : v.dim \notin {r[2] : r \in Evicted(now)}}

CheckNew(now, d) ==
    /\ d \notin DOMAIN EntriesAt(now)
    /\ Observe(now)
    /\ IF next_recency = U64Max
       THEN /\ entries' = Retained(now)
            /\ recency' = RecencyAt(now) \ Evicted(now)
            /\ verdicts' = Remembered(now)
            /\ UNCHANGED next_recency
       ELSE /\ entries' = With(Retained(now), d,
                [attempts |-> <<now>>, cooldown_until |-> None,
                 recency |-> next_recency])
            /\ recency' = (RecencyAt(now) \ Evicted(now)) \cup {<<next_recency, d>>}
            /\ next_recency' = next_recency + 1
            /\ verdicts' = Remembered(now) \cup
                 {[n |-> next_recency, dim |-> d, time |-> now, until |-> None]}

check(operation, address, reading) ==
    LET now == observe_time(reading)
        d == <<operation, peer_key(address)>>
    IN  \/ CheckCooling(now, d)
        \/ CheckExceeds(now, d)
        \/ CheckAllowed(now, d)
        \/ CheckExhausted(now, d)
        \/ CheckNew(now, d)

-----------------------------------------------------------------------------
(* Sweeping.                                                               *)

sweep(reading) ==
    LET now == observe_time(reading)
    IN  /\ last_now' = now /\ last_sweep' = now
        /\ entries' = SweptEntries(now)
        /\ recency' = SweptRecency(now)
        /\ UNCHANGED <<next_recency, verdicts>>

\* The relay's periodic call.
sweep_if_due(reading) ==
    LET now == observe_time(reading)
    IN  /\ Observe(now)
        /\ entries' = EntriesAt(now)
        /\ recency' = RecencyAt(now)
        /\ UNCHANGED <<next_recency, verdicts>>

Next ==
    \E reading \in Reading :
        \/ \E operation \in Operation, address \in Address :
                check(operation, address, reading)
        \/ sweep(reading)
        \/ sweep_if_due(reading)

Spec == Init /\ [][Next]_vars

-----------------------------------------------------------------------------
(* Properties.                                                             *)

\* The recency set and the entries tell the same story: one tuple per entry,
\* every recency number used once and below the next one.  When the numbers
\* run out an entry may lose its tuple, never the other way round, and the next
\* one stays within its width.
RecencyMirrors ==
    /\ next_recency <= U64Max
    /\ recency \subseteq {<<entries[d].recency, d>> : d \in DOMAIN entries}
    /\ next_recency < U64Max =>
        \A d \in DOMAIN entries : <<entries[d].recency, d>> \in recency
    /\ \A d \in DOMAIN entries : entries[d].recency < next_recency
    /\ \A c, d \in DOMAIN entries :
        entries[c].recency = entries[d].recency => c = d

\* The table never outgrows its cap, however many peers there are.
CapHolds == Cardinality(DOMAIN entries) <= entry_cap

Grants(d) == {v \in verdicts : v.dim = d /\ v.until = None}

\* Any window of an operation holds at most `limit` allowed attempts of one
\* peer that was not evicted meanwhile, through clock steps, sweeps and
\* cool-downs; the cool-down must be at least as long as the window.
WindowBudget ==
    \A d \in Dimension : window_seconds[d[1]] <= Cooldown =>
        \A g \in Grants(d) :
            Cardinality({h \in Grants(d) :
                h.time \in g.time..(g.time + window_seconds[d[1]] - 1)}) <= limit[d[1]]

\* A peer told to retry at a given second is allowed nothing before it, unless
\* the cap evicted it in between: sweeps and clock steps do not shorten a
\* cool-down.
CooldownHonoured ==
    \A r, g \in verdicts :
        (r.dim = g.dim /\ r.until # None /\ g.until = None /\ r.n < g.n)
            => g.time >= r.until

LastCheck(d) == Max({v.n : v \in {w \in verdicts : w.dim = d}})

=============================================================================
