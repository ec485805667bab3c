------------------------------- MODULE Latency -------------------------------
(***************************************************************************)
(* The latency statistics of the input thread (latency_note and            *)
(* input_svc_latency_get of app/src/input_svc.c): a ring of the last ticks'*)
(* latencies and their maximum, written by the input thread without a lock *)
(* while the shell copies, sorts and reads them.                           *)
(*                                                                         *)
(* The input thread preempts the shell: a note is one step, the shell's    *)
(* get one step per entry it copies and per entry it sorts in.             *)
(***************************************************************************)
EXTENDS Integers, Sequences, FiniteSets

CONSTANTS
  LAT_RING,     \* entries of the ring, 128 in the code
  IdxMod,       \* modulus of lat_idx, 2^32 in the code
  PCT,          \* the percentile, 99 in the code
  Latencies     \* in cycles

\* What is assumed of the constants.
Assumptions ==
  /\ LAT_RING \in Nat \ {0}
  /\ \E k \in 1..IdxMod : IdxMod = k * LAT_RING
  /\ PCT \in 0..99
  /\ Latencies \subseteq Nat \ {0}

VARIABLES
  lat_ring, lat_idx, lat_max,
  copy,         \* what the shell has copied of the ring
  n,            \* how many entries it is to sort
  sorted,       \* how many it has sorted
  p99, max,     \* what it reports
  get,          \* "idle", "copy"
  \* History
  steady        \* no tick came since the get began

ring_vars == <<lat_ring, lat_idx, lat_max>>
vars == <<ring_vars, copy, n, sorted, p99, max, get, steady>>

Slots == 0..(LAT_RING - 1)

Init ==
  /\ lat_ring = [i \in Slots |-> 0]
  /\ lat_idx = 0
  /\ lat_max = 0
  /\ copy = <<>>
  /\ n = 0
  /\ sorted = 0
  /\ p99 = 0 /\ max = 0
  /\ get = "idle"
  /\ steady = FALSE

latency_note(cyc) ==
  /\ lat_ring' = [lat_ring EXCEPT ![lat_idx % LAT_RING] = cyc]
  /\ lat_idx' = (lat_idx + 1) % IdxMod
  /\ lat_max' = IF cyc > lat_max THEN cyc ELSE lat_max
  /\ steady' = FALSE
  /\ UNCHANGED <<copy, n, sorted, p99, max, get>>

\* Mutant: the whole ring is sorted before it is full.
latency_get_whole_ring ==
  /\ get = "idle"
  /\ get' = "copy"
  /\ n' = LAT_RING
  /\ copy' = <<>>
  /\ sorted' = 1
  /\ steady' = TRUE
  /\ UNCHANGED <<ring_vars, p99, max>>

latency_get ==
  /\ get = "idle"
  /\ get' = "copy"
  /\ n' = IF lat_idx < LAT_RING THEN lat_idx ELSE LAT_RING
  /\ copy' = <<>>
  /\ sorted' = 1
  /\ steady' = TRUE
  /\ UNCHANGED <<ring_vars, p99, max>>

copy_entry ==
  /\ get = "copy"
  /\ Len(copy) < LAT_RING
  /\ copy' = Append(copy, lat_ring[Len(copy)])
  /\ UNCHANGED <<ring_vars, n, sorted, p99, max, get, steady>>

\* The last of the sorted entries that is not above v stays in front of it.
Place(v) ==
  CHOOSE j \in 0..sorted :
    /\ j = 0 \/ copy[j] <= v
    /\ \A k \in (j + 1)..sorted : copy[k] > v

\* The next entry is inserted, those above it move up.
insert ==
  /\ get = "copy"
  /\ Len(copy) = LAT_RING
  /\ sorted < n
  /\ LET v == copy[sorted + 1]
         j == Place(v)
     IN  copy' = [k \in 1..LAT_RING |->
                    IF k = j + 1 THEN v
                    ELSE IF k \in (j + 2)..(sorted + 1) THEN copy[k - 1] ELSE copy[k]]
  /\ sorted' = sorted + 1
  /\ UNCHANGED <<ring_vars, n, p99, max, get, steady>>

\* The entry of rank n * 99 / 100 of the first n.
Rank(k) == (k * PCT) \div 100

\* Sorted, and the maximum read last.
report ==
  /\ get = "copy"
  /\ Len(copy) = LAT_RING
  /\ sorted >= n
  /\ p99' = IF n > 0 THEN copy[Rank(n) + 1] ELSE 0
  /\ max' = lat_max
  /\ get' = "idle"
  /\ UNCHANGED <<ring_vars, copy, n, sorted, steady>>

Next ==
  \/ \E cyc \in Latencies : latency_note(cyc)
  \/ latency_get
  \/ copy_entry
  \/ insert
  \/ report

Spec == Init /\ [][Next]_vars

-----------------------------------------------------------------------------
(* Properties *)

Above == {e \in 0..(n - 1) : lat_ring[e] > p99}

\* The budget of rim stats (input_svc.h:33) is judged by real latencies: the
\* percentile is one that was noted, never above the maximum beside it, though
\* ticks come while the ring is copied and after the index has wrapped; and if
\* none came, at most one entry of the ring in a hundred is above it.
PercentileIsReal ==
  get = "idle" =>
    /\ p99 <= max
    /\ n > 0 => p99 \in Latencies
    /\ n > 0 /\ steady => 100 * Cardinality(Above) <= (100 - PCT) * n
=============================================================================
