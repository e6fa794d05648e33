-------------------------- MODULE MCBucketShuffles --------------------------
(* All permutations of short arrays; of longer ones, three that treat the    *)
(* buckets differently.                                                      *)
EXTENDS BucketShuffles

Perms(n) == {p \in [1 .. n -> 0 .. n - 1] : IsInjective(p)}

Reversed(n) == [k \in 1 .. n |-> n - k]

Ordered(n) == [k \in 1 .. n |-> k - 1]

Strided(n, d) == [k \in 1 .. n |-> (d * k) % n]

MCMelbourneJobs ==
  {[perm |-> p, blow_up_factor |-> 1] : p \in UNION {Perms(n) : n \in 1 .. 5}}
    \cup {[perm |-> p, blow_up_factor |-> b] :
            p \in {Reversed(26), Ordered(26), Strided(26, 5), Strided(10, 3)}, b \in {1, 2}}

CacheJob(p, e, m) == [perm |-> p, epsilon |-> e, mem_cap |-> m]

MCCacheJobs ==
  {CacheJob(p, e, 4) : p \in UNION {Perms(n) : n \in 1 .. 5}, e \in {0, 2}}
    \cup {CacheJob(p, e, 4) : p \in {Reversed(10), Strided(10, 3)}, e \in {0, 1, 4}}
    \cup {CacheJob(p, e, 6) : p \in {Reversed(17), Strided(17, 5)}, e \in {0, 4}}
    \cup {CacheJob(p, e, 4) : p \in {Reversed(11), Strided(11, 2), Strided(6, 5)}, e \in {0, 4}}
    \cup {CacheJob(Strided(22, 3), e, 4) : e \in {1, 4}}
    \cup {CacheJob(Reversed(6), e, 2) : e \in {0, 4}}
    \cup {CacheJob(Ordered(40), 4, 8), CacheJob(Reversed(64), 1, 16), CacheJob(Strided(22, 3), 4, 6),
          CacheJob(Strided(49, 2), 1, 14)}
    \cup {CacheJob(p, e, 10) : p \in {Reversed(17), Ordered(17)}, e \in {0, 1}}
=============================================================================
