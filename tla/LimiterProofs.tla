---------------------------- MODULE LimiterProofs ----------------------------
(***************************************************************************)
(* The limiter's table, cap and cool-downs, for every policy, cap, clock   *)
(* and number of peers.  The sweep that begins a call and the change it    *)
(* then makes are separate lemmas over a table E with its recency set R.   *)
(***************************************************************************)
EXTENDS Limiter, FiniteSetTheorems, SequenceTheorems, WellFoundedInduction, TLAPS

Second == 0..U64Max

\* A table and its recency set, when n is the next recency number.
Table(E, R, n) ==
    /\ DOMAIN E \subseteq Dimension /\ IsFiniteSet(DOMAIN E)
    /\ \A d \in DOMAIN E : E[d] \in Entry
    /\ R \subseteq {<<E[d].recency, d>> : d \in DOMAIN E}
    /\ n < U64Max => \A d \in DOMAIN E : <<E[d].recency, d>> \in R
    /\ \A d \in DOMAIN E : E[d].recency < n
    /\ \A c, d \in DOMAIN E : E[c].recency = E[d].recency => c = d

\* Whoever was told to come back after now is still cooling down in E.
Cools(E, V, now) ==
    \A r \in V : r.until # None /\ r.until > now =>
        /\ r.dim \in DOMAIN E /\ E[r.dim].cooldown_until # None
        /\ E[r.dim].cooldown_until >= r.until

\* The verdicts so far are older than the next one.
Past(V, n, now) == \A v \in V : v.n < n /\ v.time <= now

\* The inductive invariant.
LimiterInv ==
    /\ next_recency \in Second
    /\ last_now \in Second \cup {None} /\ last_sweep \in Second \cup {None}
    /\ verdicts \subseteq Verdict
    /\ Table(entries, recency, next_recency)
    /\ CapHolds
    /\ last_now = None => verdicts = {}
    /\ last_now # None => /\ Past(verdicts, next_recency, last_now)
                          /\ Cools(entries, verdicts, last_now)
    /\ CooldownHonoured

-----------------------------------------------------------------------------
(* Least elements and pruning.                                             *)

LEMMA LeastNat ==
    ASSUME NEW T, T \subseteq Nat, T # {}
    PROVE  \E x \in T : \A y \in T : x <= y
  <1> DEFINE R == OpToRel(<, Nat)
  <1>1. IsWellFoundedOn(R, Nat)
    BY NatLessThanWellFounded, Zenon
  <1>2. PICK x \in T : \A y \in T : ~(<<y, x>> \in R)
    <2> HIDE DEF R
    <2> QED BY <1>1, WFMin, Zenon
  <1>3. \A y \in T : ~(y < x)
    BY <1>2, Zenon DEF OpToRel
  <1>4. ASSUME NEW y \in T PROVE x <= y
    <2>1. x \in Nat /\ y \in Nat
      OBVIOUS
    <2>2. ~(y < x)
      BY <1>3
    <2> HIDE DEF R
    <2> QED BY <2>1, <2>2
  <1> HIDE DEF R
  <1> QED BY <1>4

LEMMA LeastMember ==
    ASSUME NEW T, T \subseteq Nat, T # {}
    PROVE  Min(T) \in T
  BY LeastNat, Zenon DEF Min

\* What is left of a sequence of attempts are attempts.
LEMMA PruneType ==
    ASSUME NEW s \in Seq(Second), NEW w, NEW now
    PROVE  prune_attempts(s, w, now) \in Seq(Second)
  <1> DEFINE recent == {i \in DOMAIN s : now - s[i] < w}
  <1>1. recent \subseteq 1..Len(s)
    OBVIOUS
  <1>2. CASE recent = {}
    BY <1>2 DEF prune_attempts
  <1>3. CASE recent # {}
    <2>1. Min(recent) \in 1..Len(s)
      <3> HIDE DEF recent
      <3>1. recent \subseteq Nat
        BY <1>1
      <3> QED BY <1>1, <1>3, <3>1, LeastMember, Zenon
    <2>2. SubSeq(s, Min(recent), Len(s)) \in Seq(Second)
      <3> DEFINE m == Min(recent)
      <3>1. m \in 1..Len(s)
        BY <2>1
      <3> HIDE DEF m
      <3>2. m \in Int /\ Len(s) \in Int /\ \A i \in m..Len(s) : s[i] \in Second
        <4>1. \A i \in 1..Len(s) : s[i] \in Second
          OBVIOUS
        <4>2. Len(s) \in Nat
          OBVIOUS
        <4> QED BY <3>1, <4>1, <4>2
      <3>3. SubSeq(s, m, Len(s)) \in Seq(Second)
        BY <3>2, SubSeqProperties, ZenonT(30)
      <3> QED BY <3>3 DEF m
    <2> QED BY <1>3, <2>2 DEF prune_attempts
  <1> QED BY <1>2, <1>3

LEMMA PrunedType ==
    ASSUME NEW d, NEW e \in Entry, NEW now
    PROVE  /\ Pruned(d, e, now) \in Entry
           /\ Pruned(d, e, now).recency = e.recency
           /\ Pruned(d, e, now).cooldown_until = e.cooldown_until
  <1>1. prune_attempts(e.attempts, window_seconds[d[1]], now) \in Seq(Second)
    <2>1. e.attempts \in Seq(Second)
      BY DEF Entry, Second
    <2> QED BY <2>1, PruneType
  <1> QED BY <1>1 DEF Pruned, Entry, Second

-----------------------------------------------------------------------------
(* The sweep.                                                              *)

LEMMA SweptTable ==
    ASSUME Table(entries, recency, next_recency), NEW now
    PROVE  /\ Table(SweptEntries(now), SweptRecency(now), next_recency)
           /\ DOMAIN SweptEntries(now) \subseteq DOMAIN entries
  <1> DEFINE E == SweptEntries(now)
             R == SweptRecency(now)
  <1>1. DOMAIN E = DOMAIN entries \ Removed(now)
    BY DEF SweptEntries
  <1>2. \A d \in DOMAIN E : E[d] = Pruned(d, entries[d], now)
    BY DEF SweptEntries
  <1>3. \A d \in DOMAIN E : E[d] \in Entry /\ E[d].recency = entries[d].recency
    BY <1>1, <1>2, PrunedType DEF Table
  <1>4. R = recency \ {<<entries[d].recency, d>> : d \in Removed(now)}
    BY DEF SweptRecency
  <1> HIDE DEF E, R
  <1>5. IsFiniteSet(DOMAIN E)
    BY <1>1, FS_Subset DEF Table
  <1>6. R \subseteq {<<E[d].recency, d>> : d \in DOMAIN E}
    BY <1>1, <1>3, <1>4 DEF Table
  <1>7. next_recency < U64Max => \A d \in DOMAIN E : <<E[d].recency, d>> \in R
    BY <1>1, <1>3, <1>4 DEF Table
  <1>8. /\ \A d \in DOMAIN E : E[d].recency < next_recency
        /\ \A c, d \in DOMAIN E : E[c].recency = E[d].recency => c = d
    BY <1>1, <1>3 DEF Table
  <1>9. Table(E, R, next_recency) /\ DOMAIN E \subseteq DOMAIN entries
    BY <1>1, <1>3, <1>5, <1>6, <1>7, <1>8 DEF Table
  <1> QED BY <1>9 DEF E, R

\* A dimension that cools down is not swept.
LEMMA SweptCools ==
    ASSUME Table(entries, recency, next_recency), verdicts \subseteq Verdict,
           NEW before \in Second, NEW now \in Second, before <= now,
           Cools(entries, verdicts, before)
    PROVE  /\ Cools(entries, verdicts, now)
           /\ Cools(SweptEntries(now), verdicts, now)
  <1>0. U64Max \in Nat /\ None \notin Nat
    BY LimiterAssumption
  <1> SUFFICES ASSUME NEW r \in verdicts, r.until # None, r.until > now
               PROVE  /\ r.dim \in DOMAIN entries \cap DOMAIN SweptEntries(now)
                      /\ entries[r.dim].cooldown_until # None
                      /\ entries[r.dim].cooldown_until >= r.until
                      /\ SweptEntries(now)[r.dim].cooldown_until =
                            entries[r.dim].cooldown_until
    BY DEF Cools
  <1>1. r.until \in Second
    BY DEF Verdict, Second
  <1>2. r.until > before
    BY <1>0, <1>1 DEF Second
  <1>3. /\ r.dim \in DOMAIN entries /\ entries[r.dim].cooldown_until # None
        /\ entries[r.dim].cooldown_until >= r.until
    BY <1>2 DEF Cools
  <1>4. entries[r.dim] \in Entry /\ entries[r.dim].cooldown_until \in Second
    BY <1>3 DEF Table, Entry, Second
  <1>5. ~Inactive(r.dim, entries[r.dim], now)
    BY <1>0, <1>1, <1>3, <1>4 DEF Inactive, Second
  <1>6. r.dim \in DOMAIN SweptEntries(now)
    BY <1>3, <1>5 DEF SweptEntries, Removed
  <1>7. SweptEntries(now)[r.dim] = Pruned(r.dim, entries[r.dim], now)
    BY <1>6 DEF SweptEntries
  <1> QED BY <1>3, <1>4, <1>6, <1>7, PrunedType

-----------------------------------------------------------------------------
(* The two ways a check changes the table.                                 *)

LEMMA TouchedTable ==
    ASSUME NEW E, NEW R, NEW n \in Second, n < U64Max, Table(E, R, n),
           NEW d \in DOMAIN E, NEW e \in Entry
    PROVE  /\ Table(With(E, d, [e EXCEPT !.recency = n]),
                    (R \ {<<E[d].recency, d>>}) \cup {<<n, d>>}, n + 1)
           /\ DOMAIN With(E, d, [e EXCEPT !.recency = n]) = DOMAIN E
  <1>0. U64Max \in Nat
    BY LimiterAssumption
  <1> DEFINE f == [e EXCEPT !.recency = n]
             F == With(E, d, f)
             Q == (R \ {<<E[d].recency, d>>}) \cup {<<n, d>>}
  <1>1. f \in Entry /\ f.recency = n
    BY <1>0 DEF Entry, Second
  <1>2. DOMAIN F = DOMAIN E /\ F[d] = f /\ \A x \in DOMAIN E \ {d} : F[x] = E[x]
    BY DEF With
  <1>3. \A x \in DOMAIN E : E[x].recency \in Nat /\ E[x].recency < n
    BY DEF Table, Entry
  <1> HIDE DEF f, F, Q
  <1>4. \A x \in DOMAIN F : F[x] \in Entry /\ F[x].recency < n + 1
    BY <1>0, <1>1, <1>2, <1>3 DEF Table, Second
  <1>5. Q \subseteq {<<F[x].recency, x>> : x \in DOMAIN F}
    BY <1>1, <1>2 DEF Table, Q
  <1>6. \A x \in DOMAIN F : <<F[x].recency, x>> \in Q
    BY <1>1, <1>2 DEF Table, Q
  <1>7. \A c, x \in DOMAIN F : F[c].recency = F[x].recency => c = x
    BY <1>0, <1>1, <1>2, <1>3 DEF Table, Second
  <1>8. Table(F, Q, n + 1)
    BY <1>2, <1>4, <1>5, <1>6, <1>7 DEF Table
  <1> QED BY <1>2, <1>8 DEF F, f, Q

\* A new dimension, after the victims W have gone.
LEMMA EvictedTable ==
    ASSUME NEW E, NEW R, NEW n \in Second, Table(E, R, n), NEW W \in SUBSET R
    PROVE  LET F == [x \in DOMAIN E \ {r[2] : r \in W} |-> E[x]]
           IN  Table(F, R \ W, n) /\ DOMAIN F \subseteq DOMAIN E
  <1> DEFINE F == [x \in DOMAIN E \ {r[2] : r \in W} |-> E[x]]
  <1>1. /\ DOMAIN F = DOMAIN E \ {r[2] : r \in W}
        /\ \A x \in DOMAIN F : F[x] = E[x] /\ x \in DOMAIN E
    OBVIOUS
  <1>2. \A r \in R : \E x \in DOMAIN E : r = <<E[x].recency, x>>
    BY DEF Table
  <1> HIDE DEF F
  <1>3. IsFiniteSet(DOMAIN F)
    BY <1>1, FS_Subset DEF Table
  <1>4. R \ W \subseteq {<<F[x].recency, x>> : x \in DOMAIN F}
    <2> SUFFICES ASSUME NEW r \in R \ W
                 PROVE  r \in {<<F[x].recency, x>> : x \in DOMAIN F}
      OBVIOUS
    <2>1. PICK x \in DOMAIN E : r = <<E[x].recency, x>>
      BY <1>2
    <2>2. ASSUME NEW w \in W, w[2] = x PROVE FALSE
      <3>1. PICK y \in DOMAIN E : w = <<E[y].recency, y>>
        BY <1>2
      <3>2. w = r
        BY <2>1, <2>2, <3>1
      <3> QED BY <3>2
    <2> QED BY <1>1, <2>1, <2>2
  <1>5. n < U64Max => \A x \in DOMAIN F : <<F[x].recency, x>> \in R \ W
    <2> SUFFICES ASSUME n < U64Max, NEW x \in DOMAIN F
                 PROVE  <<E[x].recency, x>> \in R \ W
      BY <1>1
    <2>1. <<E[x].recency, x>> \in R
      BY <1>1 DEF Table
    <2>2. <<E[x].recency, x>> \notin W
      BY <1>1
    <2> QED BY <2>1, <2>2
  <1>6. /\ DOMAIN F \subseteq Dimension
        /\ \A x \in DOMAIN F : F[x] \in Entry /\ F[x].recency < n
        /\ \A c, x \in DOMAIN F : F[c].recency = F[x].recency => c = x
    BY <1>1 DEF Table
  <1>7. Table(F, R \ W, n) /\ DOMAIN F \subseteq DOMAIN E
    BY <1>1, <1>3, <1>4, <1>5, <1>6 DEF Table
  <1> QED BY <1>7 DEF F

LEMMA AddedTable ==
    ASSUME NEW E, NEW R, NEW n \in Second, n < U64Max, Table(E, R, n),
           NEW d \in Dimension \ DOMAIN E, NEW e \in Entry, e.recency = n
    PROVE  Table(With(E, d, e), R \cup {<<n, d>>}, n + 1)
  <1>0. U64Max \in Nat
    BY LimiterAssumption
  <1> DEFINE F == With(E, d, e)
             Q == R \cup {<<n, d>>}
  <1>2. DOMAIN F = DOMAIN E \cup {d} /\ F[d] = e /\ \A x \in DOMAIN E : F[x] = E[x]
    BY DEF With
  <1>3. \A x \in DOMAIN E : E[x].recency \in Nat /\ E[x].recency < n
    BY DEF Table, Entry
  <1> HIDE DEF F, Q
  <1>4. \A x \in DOMAIN F : F[x] \in Entry /\ F[x].recency < n + 1
    BY <1>0, <1>2, <1>3 DEF Table, Second
  <1>5. Q \subseteq {<<F[x].recency, x>> : x \in DOMAIN F}
    BY <1>2 DEF Table, Q
  <1>6. \A x \in DOMAIN F : <<F[x].recency, x>> \in Q
    BY <1>2 DEF Table, Q
  <1>7. \A c, x \in DOMAIN F : F[c].recency = F[x].recency => c = x
    BY <1>0, <1>2, <1>3 DEF Table, Second
  <1>8. IsFiniteSet(DOMAIN F)
    BY <1>2, FS_AddElement DEF Table
  <1>9. Table(F, Q, n + 1)
    BY <1>2, <1>4, <1>5, <1>6, <1>7, <1>8 DEF Table
  <1> QED BY <1>9 DEF F, Q

\* While numbers last, a table with entries has a victim, so an eviction makes
\* room.
LEMMA VictimsLeave ==
    ASSUME NEW E, NEW R, NEW n \in Second, n < U64Max, Table(E, R, n),
           DOMAIN E # {}
    PROVE  /\ DOMAIN E \ {r[2] : r \in Victims(R)} # DOMAIN E
           /\ Victims(R) \subseteq R
  <1> DEFINE T == {r[1] : r \in R}
  <1>1. T \subseteq Nat /\ T # {}
    <2>1. \A x \in DOMAIN E : E[x].recency \in Nat
      BY DEF Table, Entry
    <2>2. \A r \in R : \E x \in DOMAIN E : r = <<E[x].recency, x>>
      BY DEF Table
    <2>3. \A r \in R : r[1] \in Nat
      BY <2>1, <2>2
    <2>4. PICK x \in DOMAIN E : <<E[x].recency, x>> \in R
      BY DEF Table
    <2> QED BY <2>3, <2>4
  <1> HIDE DEF T
  <1>2. PICK x \in T : \A y \in T : x <= y
    BY <1>1, LeastNat, Zenon
  <1>3. PICK r \in R : r[1] = x
    BY DEF T
  <1>4. r \in Victims(R)
    BY <1>2, <1>3 DEF T, Victims
  <1>5. r[2] \in DOMAIN E
    BY DEF Table
  <1> QED BY <1>4, <1>5 DEF Victims

-----------------------------------------------------------------------------
(* The verdicts.                                                           *)

Honoured(V) ==
    \A r, g \in V :
        (r.dim = g.dim /\ r.until # None /\ g.until = None /\ r.n < g.n)
            => g.time >= r.until

\* The verdicts V and the answer to d.
Noted(V, n, d, now, until) ==
    V \cup {[n |-> n, dim |-> d, time |-> now, until |-> until]}

\* A check turns the table E into F, answers d, and keeps a cool-down that has
\* not elapsed.
Answers(E, R, F, V, n, now, d, until) ==
    /\ n \in Second /\ now \in Second /\ n < U64Max
    /\ V \subseteq Verdict /\ Table(E, R, n)
    /\ Past(V, n, now) /\ Cools(E, V, now) /\ Honoured(V)
    /\ d \in Dimension /\ until \in Second \cup {None}
    /\ DOMAIN F = DOMAIN E \cup {d} /\ \A x \in DOMAIN E \ {d} : F[x] = E[x]
    /\ until # None /\ until > now =>
            F[d].cooldown_until # None /\ F[d].cooldown_until >= until
    /\ d \in DOMAIN E /\ Cooling(E[d], now) =>
            until # None /\ F[d].cooldown_until = E[d].cooldown_until

LEMMA Answered ==
    ASSUME NEW E, NEW R, NEW F, NEW V, NEW n, NEW now, NEW d, NEW until,
           Answers(E, R, F, V, n, now, d, until)
    PROVE  LET W == Noted(V, n, d, now, until)
           IN  /\ W \subseteq Verdict /\ Past(W, n + 1, now)
               /\ Cools(F, W, now) /\ Honoured(W)
  <1> DEFINE v == [n |-> n, dim |-> d, time |-> now, until |-> until]
             W == V \cup {v}
  <1> USE DEF Answers
  <1>0. U64Max \in Nat /\ None \notin Nat
    BY LimiterAssumption
  <1>1. v \in Verdict /\ v.n = n /\ v.dim = d /\ v.time = now /\ v.until = until
    BY DEF Verdict, Second
  <1> HIDE DEF v
  <1>2. W \subseteq Verdict
    BY <1>1
  <1>3. \A r \in W : /\ r.n \in Second /\ r.time \in Second
                     /\ r.until \in Second \cup {None}
    BY <1>2 DEF Verdict, Second
  <1>4. Past(W, n + 1, now)
    BY <1>0, <1>1, <1>3 DEF Past, Second
  <1>5. ASSUME NEW r \in V, r.until # None, r.until > now, r.dim = d
        PROVE  d \in DOMAIN E /\ Cooling(E[d], now) /\ E[d].cooldown_until >= r.until
    <2>1. /\ d \in DOMAIN E /\ E[d].cooldown_until # None
          /\ E[d].cooldown_until >= r.until
      BY <1>5 DEF Cools
    <2>2. E[d].cooldown_until \in Second /\ r.until \in Second
      BY <1>3, <1>5, <2>1 DEF Table, Entry, Second
    <2> QED BY <1>0, <1>5, <2>1, <2>2 DEF Cooling, Second
  <1>6. Cools(F, W, now)
    <2> SUFFICES ASSUME NEW r \in W, r.until # None, r.until > now
                 PROVE  /\ r.dim \in DOMAIN F /\ F[r.dim].cooldown_until # None
                        /\ F[r.dim].cooldown_until >= r.until
      BY DEF Cools
    <2>1. CASE r = v
      BY <1>1, <2>1
    <2>2. CASE r \in V /\ r.dim # d
      BY <2>2 DEF Cools
    <2>3. CASE r \in V /\ r.dim = d
      BY <1>5, <2>3 DEF Cooling
    <2> QED BY <2>1, <2>2, <2>3
  <1>7. Honoured(W)
    <2> SUFFICES ASSUME NEW r \in W, NEW g \in W, r.dim = g.dim,
                        r.until # None, g.until = None, r.n < g.n
                 PROVE  g.time >= r.until
      BY DEF Honoured
    <2>1. CASE r \in V /\ g \in V
      BY <2>1 DEF Honoured
    <2>2. CASE r \in V /\ g = v
      <3>1. ~(r.until > now)
        BY <1>1, <1>5, <2>2
      <3>2. r.until \in Second
        BY <1>3
      <3> QED BY <1>0, <1>1, <2>2, <3>1, <3>2 DEF Second
    <2>3. CASE r = v
      <3>1. g.n <= n
        BY <1>0, <1>1, <1>3 DEF Past, Second
      <3> QED BY <1>0, <1>1, <1>3, <2>3, <3>1 DEF Second
    <2> QED BY <2>1, <2>2, <2>3
  <1> QED BY <1>2, <1>4, <1>6, <1>7 DEF Noted, v

-----------------------------------------------------------------------------
(* The steps.                                                              *)

\* What a call finds once the clock is observed and a due sweep is done.
Ready(E, R, now) ==
    /\ now \in Second
    /\ Table(E, R, next_recency) /\ Cardinality(DOMAIN E) <= entry_cap
    /\ Past(verdicts, next_recency, now) /\ Cools(E, verdicts, now)

LEMMA SweptReady ==
    ASSUME LimiterInv, NEW reading \in Reading
    PROVE  LET now == observe_time(reading)
           IN  /\ Ready(SweptEntries(now), SweptRecency(now), now)
               /\ Ready(EntriesAt(now), RecencyAt(now), now)
  <1> DEFINE now == observe_time(reading)
  <1>0. U64Max \in Nat /\ None \notin Nat /\ Reading \subseteq 0..U64Max
    BY LimiterAssumption
  <1>1. now \in Second /\ (last_now # None => last_now \in Second /\ last_now <= now)
    BY <1>0 DEF observe_time, LimiterInv, Second
  <1> HIDE DEF now
  <1>2. Past(verdicts, next_recency, now)
    <2>1. CASE last_now = None
      BY <2>1 DEF LimiterInv, Past
    <2>2. CASE last_now # None
      <3> SUFFICES ASSUME NEW v \in verdicts PROVE v.n < next_recency /\ v.time <= now
        BY DEF Past
      <3>1. v.n < next_recency /\ v.time <= last_now /\ v.time \in Second
        BY <2>2 DEF LimiterInv, Past, Verdict, Second
      <3> QED BY <1>0, <1>1, <2>2, <3>1 DEF Second
    <2> QED BY <2>1, <2>2
  <1>3. Cools(entries, verdicts, now) /\ Cools(SweptEntries(now), verdicts, now)
    <2>1. CASE last_now = None
      BY <2>1 DEF LimiterInv, Cools
    <2>2. CASE last_now # None
      BY <1>1, <2>2, SweptCools DEF LimiterInv
    <2> QED BY <2>1, <2>2
  <1>4. /\ Table(SweptEntries(now), SweptRecency(now), next_recency)
        /\ DOMAIN SweptEntries(now) \subseteq DOMAIN entries
    BY SweptTable DEF LimiterInv
  <1>5. Cardinality(DOMAIN SweptEntries(now)) <= entry_cap
    <2>1. IsFiniteSet(DOMAIN entries) /\ Cardinality(DOMAIN entries) <= entry_cap
      BY DEF LimiterInv, Table, CapHolds
    <2>2. /\ Cardinality(DOMAIN SweptEntries(now)) <= Cardinality(DOMAIN entries)
          /\ IsFiniteSet(DOMAIN SweptEntries(now))
      BY <1>4, <2>1, FS_Subset
    <2>3. /\ Cardinality(DOMAIN SweptEntries(now)) \in Nat
          /\ Cardinality(DOMAIN entries) \in Nat
      BY <2>1, <2>2, FS_CardinalityType
    <2> QED BY <2>1, <2>2, <2>3, LimiterAssumption
  <1>6. Ready(SweptEntries(now), SweptRecency(now), now)
    BY <1>1, <1>2, <1>3, <1>4, <1>5 DEF Ready
  <1>7. Ready(entries, recency, now)
    BY <1>1, <1>2, <1>3 DEF Ready, LimiterInv, CapHolds
  <1> QED BY <1>6, <1>7 DEF EntriesAt, RecencyAt, now

\* A step that only sweeps.
LEMMA StepSweep ==
    ASSUME LimiterInv, NEW now \in Second, Ready(entries', recency', now),
           last_now' = now, last_sweep' \in Second \cup {None},
           UNCHANGED <<next_recency, verdicts>>
    PROVE  LimiterInv'
  <1>1. now # None
    BY LimiterAssumption DEF Second
  <1> QED BY <1>1 DEF LimiterInv, Ready, CapHolds, CooldownHonoured

\* Whichever entry of d a check writes, an unelapsed cool-down stays.
LEMMA StepTouched ==
    ASSUME LimiterInv, NEW now, Ready(EntriesAt(now), RecencyAt(now), now),
           NEW d, Known(now, d), NEW e \in Entry,
           Touched(now, d, e), NEW until \in Second \cup {None},
           Answer(d, now, until),
           until # None /\ until > now =>
                e.cooldown_until # None /\ e.cooldown_until >= until,
           Cooling(EntriesAt(now)[d], now) =>
                until # None /\ e.cooldown_until = EntriesAt(now)[d].cooldown_until
    PROVE  LimiterInv'
  <1> DEFINE E == EntriesAt(now)
             R == RecencyAt(now)
             n == next_recency
             f == [e EXCEPT !.recency = n]
  <1>0. U64Max \in Nat /\ now \in Second /\ now # None
    BY LimiterAssumption DEF Ready, Second
  <1>1. n \in Second /\ n < U64Max /\ d \in DOMAIN E /\ Table(E, R, n) /\ d \in Dimension
    BY DEF LimiterInv, Known, Ready, Table
  <1>2. f.cooldown_until = e.cooldown_until
    BY DEF Entry
  <1>3. /\ entries' = With(E, d, f)
        /\ recency' = (R \ {<<E[d].recency, d>>}) \cup {<<n, d>>}
        /\ next_recency' = n + 1
        /\ last_now' = now /\ last_sweep' = (IF Due(now) THEN now ELSE last_sweep)
        /\ verdicts' = verdicts \cup
                {[n |-> n, dim |-> d, time |-> now, until |-> until]}
    BY DEF Touched, Observe, Answer
  <1> HIDE DEF E, R, n
  <1>4. Table(entries', recency', next_recency') /\ DOMAIN entries' = DOMAIN E
    BY <1>1, <1>3, TouchedTable
  <1>5. /\ DOMAIN entries' = DOMAIN E \cup {d} /\ entries'[d] = f
        /\ \A x \in DOMAIN E \ {d} : entries'[x] = E[x]
    <2> HIDE DEF f
    <2> QED BY <1>3 DEF With
  <1> HIDE DEF f
  <1>6. /\ verdicts \subseteq Verdict /\ Past(verdicts, n, now) /\ Cools(E, verdicts, now)
        /\ Honoured(verdicts)
    BY DEF LimiterInv, Ready, CooldownHonoured, Honoured, E, n
  <1>7. /\ verdicts' \subseteq Verdict /\ Past(verdicts', n + 1, now)
        /\ Cools(entries', verdicts', now) /\ Honoured(verdicts')
    <2>1. until # None /\ until > now =>
              entries'[d].cooldown_until # None /\ entries'[d].cooldown_until >= until
      BY <1>2, <1>5
    <2>2. d \in DOMAIN E /\ Cooling(E[d], now) =>
              until # None /\ entries'[d].cooldown_until = E[d].cooldown_until
      BY <1>2, <1>5 DEF E
    <2>3. DOMAIN entries' = DOMAIN E \cup {d} /\ \A x \in DOMAIN E \ {d} : entries'[x] = E[x]
      BY <1>5
    <2> DEFINE W == Noted(verdicts, n, d, now, until)
    <2>4. /\ W \subseteq Verdict /\ Past(W, n + 1, now)
          /\ Cools(entries', W, now) /\ Honoured(W)
      <3>1. Answers(E, R, entries', verdicts, n, now, d, until)
        BY <1>0, <1>1, <1>6, <2>1, <2>2, <2>3 DEF Answers
      <3> QED BY <3>1, Answered
    <2> QED BY <1>3, <2>4 DEF Noted
  <1>8. CapHolds'
    BY <1>4 DEF Ready, CapHolds, E
  <1>9. next_recency' \in Second /\ last_sweep' \in Second \cup {None}
    <2>1. n + 1 \in Second
      BY <1>0, <1>1 DEF Second
    <2>2. last_sweep \in Second \cup {None}
      BY DEF LimiterInv
    <2> QED BY <1>0, <1>3, <2>1, <2>2
  <1> QED BY <1>0, <1>3, <1>4, <1>7, <1>8, <1>9
          DEF LimiterInv, CooldownHonoured, Honoured

LEMMA CurrentType ==
    ASSUME NEW now, NEW d, EntriesAt(now)[d] \in Entry
    PROVE  Current(now, d) \in Entry
  <1> DEFINE e == EntriesAt(now)[d]
  <1>1. [e EXCEPT !.cooldown_until = None, !.attempts = <<>>] \in Entry
    <2>1. <<>> \in Seq(0..U64Max)
      OBVIOUS
    <2> QED BY <2>1, Zenon DEF Entry
  <1>2. Resumed(e) \in Entry
    BY <1>1 DEF Resumed
  <1> QED BY <1>2, PrunedType DEF Current

LEMMA StepKnown ==
    ASSUME LimiterInv, NEW now, Ready(EntriesAt(now), RecencyAt(now), now), NEW d,
           CheckCooling(now, d) \/ CheckExceeds(now, d) \/ CheckAllowed(now, d)
    PROVE  LimiterInv'
  <1> DEFINE e == EntriesAt(now)[d]
             c == Current(now, d)
  <1>0. /\ U64Max \in Nat /\ Cooldown \in Nat \ {0} /\ None \notin Nat
        /\ now \in Second /\ now \in Nat
    BY LimiterAssumption DEF Ready, Second
  <1>1. Known(now, d)
    BY DEF CheckCooling, CheckExceeds, CheckAllowed
  <1>2. e \in Entry /\ e.cooldown_until \in Second \cup {None}
    BY <1>1 DEF Known, Ready, Table, Entry, Second
  <1>3. c \in Entry
    BY <1>2, CurrentType
  <1>4. CASE CheckCooling(now, d)
    <2>1. Touched(now, d, e) /\ Answer(d, now, e.cooldown_until) /\ Cooling(e, now)
      BY <1>4 DEF CheckCooling
    <2> HIDE DEF e
    <2>2. /\ e.cooldown_until # None /\ e.cooldown_until >= e.cooldown_until
      BY <1>0, <1>2, <2>1 DEF Cooling, Second
    <2> QED BY <1>1, <1>2, <2>1, <2>2, StepTouched DEF e
  <1>5. CASE CheckExceeds(now, d)
    <2>1. ~Cooling(EntriesAt(now)[d], now)
      BY <1>5 DEF CheckExceeds
    <2>2. CASE now + Cooldown > U64Max
      <3>1. Touched(now, d, c) /\ Answer(d, now, now)
        BY <1>5, <2>2 DEF CheckExceeds
      <3>2. ~(now > now)
        BY <1>0
      <3> HIDE DEF c
      <3> QED BY <1>0, <1>1, <1>3, <2>1, <3>1, <3>2, StepTouched
    <2>3. CASE ~(now + Cooldown > U64Max)
      <3> DEFINE u == now + Cooldown
                 f == [c EXCEPT !.cooldown_until = u]
      <3>1. Touched(now, d, f) /\ Answer(d, now, u)
        BY <1>5, <2>3 DEF CheckExceeds
      <3>2. u \in Second /\ u # None /\ u >= u
        BY <1>0, <2>3 DEF Second
      <3> HIDE DEF c, u
      <3>3. f \in Entry /\ f.cooldown_until = u
        BY <1>3, <3>2 DEF Entry, Second
      <3> HIDE DEF f
      <3> QED BY <1>1, <2>1, <3>1, <3>2, <3>3, StepTouched
    <2> QED BY <2>2, <2>3
  <1>6. CASE CheckAllowed(now, d)
    <2> DEFINE f == [c EXCEPT !.attempts = Append(@, now)]
    <2>1. ~Cooling(EntriesAt(now)[d], now)
      BY <1>6 DEF CheckAllowed
    <2>2. Touched(now, d, f) /\ Answer(d, now, None)
      BY <1>6 DEF CheckAllowed
    <2> HIDE DEF c
    <2>3. f \in Entry
      <3>1. c.attempts \in Seq(Second)
        BY <1>3 DEF Entry, Second
      <3>2. Append(c.attempts, now) \in Seq(Second)
        BY <1>0, <3>1
      <3> QED BY <1>3, <3>2, Zenon DEF Entry, Second
    <2> HIDE DEF f
    <2> QED BY <1>1, <2>1, <2>2, <2>3, StepTouched
  <1> QED BY <1>4, <1>5, <1>6

LEMMA StepExhausted ==
    ASSUME LimiterInv, NEW now, Ready(EntriesAt(now), RecencyAt(now), now), NEW d,
           CheckExhausted(now, d)
    PROVE  LimiterInv'
  <1>1. Table(entries', recency', next_recency')
    <2>1. Table(EntriesAt(now), RecencyAt(now), next_recency) /\ ~(next_recency < U64Max)
      BY LimiterAssumption DEF Ready, CheckExhausted
    <2>2. /\ entries' = EntriesAt(now) /\ recency' \subseteq RecencyAt(now)
          /\ next_recency' = next_recency
      BY DEF CheckExhausted
    <2> QED BY <2>1, <2>2 DEF Table
  <1>2. /\ entries' = EntriesAt(now) /\ now \in Second /\ last_now' = now
        /\ last_sweep' \in Second \cup {None} /\ UNCHANGED <<next_recency, verdicts>>
    BY DEF CheckExhausted, Observe, Ready, LimiterInv
  <1>3. Ready(entries', recency', now)
    BY <1>1, <1>2 DEF Ready
  <1> QED BY <1>2, <1>3, StepSweep

LEMMA StepNew ==
    ASSUME LimiterInv, NEW now, Ready(EntriesAt(now), RecencyAt(now), now),
           NEW d \in Dimension, CheckNew(now, d)
    PROVE  LimiterInv'
  <1> DEFINE E == EntriesAt(now)
             R == RecencyAt(now)
             n == next_recency
             W == Evicted(now)
             G == {r[2] : r \in W}
             F == Retained(now)
             U == Remembered(now)
  <1>0. /\ U64Max \in Nat /\ entry_cap \in Nat \ {0} /\ None \notin Nat
        /\ now \in Second /\ now # None
    BY LimiterAssumption DEF Ready, Second
  <1>1. n \in Second /\ Table(E, R, n) /\ Cardinality(DOMAIN E) <= entry_cap
    BY DEF LimiterInv, Ready
  <1>2. W \in SUBSET R
    BY DEF Evicted, Victims
  <1>3. F = [x \in DOMAIN E \ G |-> E[x]] /\ U = {r \in verdicts : r.dim \notin G}
    BY DEF Retained, Remembered
  <1>4. /\ U \subseteq verdicts /\ \A r \in U : r.dim \notin G
        /\ DOMAIN F = DOMAIN E \ G /\ \A x \in DOMAIN F : F[x] = E[x]
    BY <1>3
  <1>5. d \notin DOMAIN E
    BY DEF CheckNew
  <1>6. last_now' = now /\ last_sweep' \in Second \cup {None}
    BY <1>0 DEF CheckNew, Observe, LimiterInv
  <1>7. /\ verdicts \subseteq Verdict /\ Past(verdicts, n, now) /\ Cools(E, verdicts, now)
        /\ Honoured(verdicts)
    BY DEF LimiterInv, Ready, CooldownHonoured, Honoured
  <1>8. U \subseteq Verdict /\ Past(U, n, now) /\ Cools(F, U, now) /\ Honoured(U)
    <2> HIDE DEF E, n, W, G, F, U
    <2>1. U \subseteq Verdict /\ Past(U, n, now) /\ Honoured(U)
      BY <1>4, <1>7 DEF Past, Honoured
    <2>2. Cools(F, U, now)
      BY <1>4, <1>7 DEF Cools
    <2> QED BY <2>1, <2>2
  <1>9. W = IF Cardinality(DOMAIN E) >= entry_cap THEN Victims(R) ELSE {}
    BY DEF Evicted
  <1>10. CASE n = U64Max
    <2>1. /\ entries' = F /\ recency' = R \ W /\ verdicts' = U /\ next_recency' = n
      BY <1>10 DEF CheckNew
    <2> HIDE DEF E, R, n, W, F, U
    <2>2. Table(F, R \ W, n) /\ DOMAIN F \subseteq DOMAIN E
      BY <1>1, <1>2, <1>3, EvictedTable, ZenonT(30)
    <2>3. U \subseteq Verdict /\ Past(U, n, now) /\ Cools(F, U, now) /\ Honoured(U)
      BY <1>8
    <2>4. Cardinality(DOMAIN F) <= entry_cap
      <3>1. IsFiniteSet(DOMAIN E)
        BY <1>1 DEF Table
      <3>2. IsFiniteSet(DOMAIN F) /\ Cardinality(DOMAIN F) <= Cardinality(DOMAIN E)
        BY <2>2, <3>1, FS_Subset
      <3>3. Cardinality(DOMAIN E) \in Nat /\ Cardinality(DOMAIN F) \in Nat
        BY <3>1, <3>2, FS_CardinalityType
      <3> QED BY <1>0, <1>1, <3>2, <3>3
    <2> QED BY <1>0, <1>1, <1>6, <2>1, <2>2, <2>3, <2>4
            DEF LimiterInv, CapHolds, CooldownHonoured, Honoured
  <1>11. CASE n # U64Max
    <2> DEFINE e == [attempts |-> <<now>>, cooldown_until |-> None, recency |-> n]
               v == [n |-> n, dim |-> d, time |-> now, until |-> None]
    <2>1. /\ entries' = With(F, d, e) /\ recency' = (R \ W) \cup {<<n, d>>}
          /\ verdicts' = U \cup {v} /\ next_recency' = n + 1
      BY <1>11 DEF CheckNew
    <2>2. n < U64Max
      BY <1>0, <1>1, <1>11 DEF Second
    <2> HIDE DEF E, R, n, W, F, U
    <2>3. Table(F, R \ W, n) /\ DOMAIN F = DOMAIN E \ G
      BY <1>1, <1>2, <1>3, EvictedTable
    <2>4. e \in Entry /\ e.recency = n
      <3>1. <<now>> \in Seq(Second)
        BY <1>0
      <3> QED BY <1>1, <3>1 DEF Entry, Second
    <2>5. d \in Dimension \ DOMAIN F
      BY <1>5, <2>3
    <2>6. Table(entries', recency', n + 1)
      <3> HIDE DEF e, G
      <3> QED BY <1>1, <2>1, <2>2, <2>3, <2>4, <2>5, AddedTable
    <2>7. /\ DOMAIN entries' = DOMAIN F \cup {d}
          /\ \A x \in DOMAIN F \ {d} : entries'[x] = F[x]
      BY <2>1 DEF With
    <2>8. U \subseteq Verdict /\ Past(U, n, now) /\ Cools(F, U, now) /\ Honoured(U)
      BY <1>8
    <2>9. /\ verdicts' \subseteq Verdict /\ Past(verdicts', n + 1, now)
          /\ Cools(entries', verdicts', now) /\ Honoured(verdicts')
      <3> DEFINE X == U \cup {v}
      <3>1. X \subseteq Verdict /\ Past(X, n + 1, now) /\ Cools(entries', X, now) /\ Honoured(X)
        <4>1. d \in Dimension /\ d \notin DOMAIN F
          BY <2>5
        <4>2. Table(F, R \ W, n)
          BY <2>3
        <4> DEFINE Q == R \ W
                   until == None
        <4>3. X = Noted(U, n, d, now, until)
          BY DEF Noted
        <4>4. until \in Second \cup {None} /\ ~(until # None)
          OBVIOUS
        <4> HIDE DEF G, e, Q, until, v, X
        <4>5. Table(F, Q, n)
          BY <4>2 DEF Q
        <4>6. Answers(F, Q, entries', U, n, now, d, until)
          BY <1>0, <1>1, <2>2, <2>7, <2>8, <4>1, <4>4, <4>5 DEF Answers
        <4> QED BY <4>3, <4>6, Answered
      <3> QED BY <2>1, <3>1
    <2>10. Cardinality(DOMAIN entries') <= entry_cap
      <3>1. IsFiniteSet(DOMAIN E) /\ IsFiniteSet(DOMAIN F)
        BY <1>1, <2>3 DEF Table
      <3>2. Cardinality(DOMAIN F) <= Cardinality(DOMAIN E)
        BY <2>3, <3>1, FS_Subset
      <3>3. Cardinality(DOMAIN E) \in Nat /\ Cardinality(DOMAIN F) \in Nat
        BY <3>1, FS_CardinalityType
      <3>4. Cardinality(DOMAIN entries') = Cardinality(DOMAIN F) + 1
        BY <2>5, <2>7, <3>1, FS_AddElement
      <3>5. CASE Cardinality(DOMAIN E) >= entry_cap
        <4>1. DOMAIN E # {}
          BY <1>0, <3>5, FS_EmptySet
        <4>2. DOMAIN F # DOMAIN E /\ DOMAIN F \subseteq DOMAIN E
          BY <1>1, <1>9, <2>2, <2>3, <3>5, <4>1, VictimsLeave, Zenon
        <4>3. Cardinality(DOMAIN F) < Cardinality(DOMAIN E)
          BY <3>1, <3>3, <4>2, FS_Subset
        <4> QED BY <1>0, <1>1, <3>3, <3>4, <4>3
      <3>6. CASE ~(Cardinality(DOMAIN E) >= entry_cap)
        BY <1>0, <3>2, <3>3, <3>4, <3>6
      <3> QED BY <3>5, <3>6
    <2>11. next_recency' \in Second
      BY <1>0, <1>1, <2>1, <2>2 DEF Second
    <2>12. next_recency' = n + 1
      BY <2>1
    <2> HIDE DEF e, v
    <2> QED BY <1>0, <1>6, <2>6, <2>9, <2>10, <2>11, <2>12
            DEF LimiterInv, CapHolds, CooldownHonoured, Honoured
  <1> QED BY <1>10, <1>11

-----------------------------------------------------------------------------
(* The theorems.                                                           *)

LEMMA InvInit ==
    Init => LimiterInv
  <1> SUFFICES ASSUME Init PROVE LimiterInv
    OBVIOUS
  <1>1. DOMAIN entries = {} /\ recency = {} /\ verdicts = {} /\ next_recency = 0
    BY DEF Init
  <1>2. Table(entries, recency, next_recency)
    BY <1>1, FS_EmptySet DEF Table
  <1>3. CapHolds
    BY <1>1, FS_EmptySet, LimiterAssumption DEF CapHolds
  <1> QED BY <1>1, <1>2, <1>3, LimiterAssumption
          DEF LimiterInv, Init, CooldownHonoured, Second

LEMMA InvStep ==
    LimiterInv /\ [Next]_vars => LimiterInv'
  <1> SUFFICES ASSUME LimiterInv, [Next]_vars PROVE LimiterInv'
    OBVIOUS
  <1>1. CASE UNCHANGED vars
    BY <1>1 DEF vars, LimiterInv, CapHolds, CooldownHonoured, Table, Cools, Past
  <1>2. CASE Next
    <2>1. PICK reading \in Reading :
            \/ \E operation \in Operation, address \in Address :
                  check(operation, address, reading)
            \/ sweep(reading)
            \/ sweep_if_due(reading)
      BY <1>2 DEF Next
    <2> DEFINE now == observe_time(reading)
    <2>2. /\ Ready(SweptEntries(now), SweptRecency(now), now)
          /\ Ready(EntriesAt(now), RecencyAt(now), now)
      BY SweptReady
    <2>3. now \in Second
      BY <2>2 DEF Ready
    <2>4. CASE sweep(reading)
      <3>1. /\ entries' = SweptEntries(now) /\ recency' = SweptRecency(now)
            /\ last_now' = now /\ last_sweep' = now
            /\ UNCHANGED <<next_recency, verdicts>>
        BY <2>4 DEF sweep
      <3> HIDE DEF now
      <3> QED BY <2>2, <2>3, <3>1, StepSweep
    <2>5. CASE sweep_if_due(reading)
      <3>1. /\ entries' = EntriesAt(now) /\ recency' = RecencyAt(now)
            /\ last_now' = now /\ last_sweep' = (IF Due(now) THEN now ELSE last_sweep)
            /\ UNCHANGED <<next_recency, verdicts>>
        BY <2>5 DEF sweep_if_due, Observe
      <3> HIDE DEF now
      <3>2. last_sweep' \in Second \cup {None}
        BY <2>3, <3>1 DEF LimiterInv
      <3> QED BY <2>2, <2>3, <3>1, <3>2, StepSweep
    <2>6. CASE \E operation \in Operation, address \in Address :
                  check(operation, address, reading)
      <3>1. PICK operation \in Operation, address \in Address :
                check(operation, address, reading)
        BY <2>6
      <3> DEFINE d == <<operation, peer_key(address)>>
      <3>2. \/ CheckCooling(now, d) \/ CheckExceeds(now, d) \/ CheckAllowed(now, d)
            \/ CheckExhausted(now, d) \/ CheckNew(now, d)
        BY <3>1 DEF check
      <3>3. d \in Dimension
        BY DEF Dimension
      <3> HIDE DEF now, d
      <3> QED BY <2>2, <3>2, <3>3, StepKnown, StepExhausted, StepNew
    <2> QED BY <2>1, <2>4, <2>5, <2>6
  <1> QED BY <1>1, <1>2

\* The inductive invariant of the limiter holds through every check, sweep and
\* clock step.
THEOREM Invariance ==
    Spec => []LimiterInv
  BY InvInit, InvStep, PTL DEF Spec

\* Entries, recency tuples, times and verdicts stay within their types and
\* widths.
THEOREM TypeCorrect ==
    Spec => []TypeOK
  <1>1. LimiterInv => TypeOK
    <2> SUFFICES ASSUME LimiterInv PROVE TypeOK
      OBVIOUS
    <2>1. /\ DOMAIN entries \subseteq Dimension
          /\ \A d \in DOMAIN entries : entries[d] \in Entry /\ entries[d].recency \in Second
      BY DEF LimiterInv, Table, Entry, Second
    <2>2. recency \subseteq Second \X Dimension
      BY <2>1 DEF LimiterInv, Table
    <2> QED BY <2>1, <2>2 DEF LimiterInv, TypeOK, Second
  <1> QED BY <1>1, Invariance, PTL

\* The recency set mirrors the table: what evict_lru relies on when it takes the
\* set's first element for the least recently used entry.
THEOREM Recency ==
    Spec => []RecencyMirrors
  <1>1. LimiterInv => RecencyMirrors
    BY LimiterAssumption DEF LimiterInv, Table, RecencyMirrors, Second
  <1> QED BY <1>1, Invariance, PTL

\* The table never holds more than entry_cap entries, for any number of peers.
THEOREM Cap ==
    Spec => []CapHolds
  <1>1. LimiterInv => CapHolds
    BY DEF LimiterInv
  <1> QED BY <1>1, Invariance, PTL

\* A peer that was told when to come back is allowed nothing before, unless it
\* was evicted: no sweep, clock step or check shortens a cool-down.
THEOREM CooldownKept ==
    Spec => []CooldownHonoured
  <1>1. LimiterInv => CooldownHonoured
    BY DEF LimiterInv
  <1> QED BY <1>1, Invariance, PTL
=============================================================================
