-------------------------- MODULE Settings_proofs --------------------------
(***************************************************************************)
(* Proofs about Settings, for any subtrees, keys and values: a reported    *)
(* lock that the boot could read keeps what is stored, and a reported save *)
(* stays in flash, wherever writes, reads and the power fail.              *)
(***************************************************************************)
EXTENDS Settings, TLAPS

\* While the lock is reported the flash has it, so that no boot undoes it, and
\* so has the RAM unless the boot could not read it: then no commit of a
\* subtree runs that began before it.
LockHeld ==
  /\ frozen => flash_lock
  /\ frozen /\ ~unread => locked /\ job \in {"none", "lock"}
  /\ unread => job # "lock"
  /\ job = "lock" /\ next # 1 /\ ~failed => flash_lock = locked

\* A running commit has withdrawn what was reported of its subtree, and what
\* it asked for is stored unless a write failed.
CommitHonest ==
  /\ job \in DOMAIN Subtrees => \A k \in KeysOf(job) : acked[k] = Absent
  /\ \A k \in Keys : meant[k] # Absent =>
       /\ job \in DOMAIN Subtrees /\ k \in KeysOf(job)
       /\ ~failed => flash[k] = meant[k]

-----------------------------------------------------------------------------
\* The key a commit writes next is one of its subtree.
LEMMA NextKey ==
  ASSUME Assumptions, TypeOK, job \in DOMAIN Subtrees,
         next <= Len(Subtrees[job])
  PROVE  /\ Subtrees[job][next] \in KeysOf(job)
         /\ KeysOf(job) \subseteq Keys
<1>1. Subtrees[job] \in Seq(KeysOf(job))
  BY DEF Assumptions
<1>2. next \in 1..Len(Subtrees[job])
  BY <1>1 DEF TypeOK
<1>3. DOMAIN Subtrees[job] = 1..Len(Subtrees[job])
  BY <1>1
<1> QED
  BY <1>2, <1>3 DEF KeysOf, Keys

-----------------------------------------------------------------------------
\* Nothing is a map of keys like every other.
LEMMA NothingIsMap == Nothing \in [Keys -> Values \cup {Absent}]
BY DEF Nothing

\* The variables keep their types.
THEOREM TypeCorrect == Assumptions /\ Spec => []TypeOK
<1> SUFFICES ASSUME Assumptions PROVE Spec => []TypeOK
  OBVIOUS
<1>1. Default \in Values
  BY DEF Assumptions
<1>2. Init => TypeOK
  <2> SUFFICES ASSUME Init PROVE TypeOK
    OBVIOUS
  <2>1. rs \in [Keys -> Values]
    BY <1>1 DEF Init
  <2>2. {flash, meant, acked} \subseteq [Keys -> Values \cup {Absent}]
    BY NothingIsMap DEF Init
  <2>3. {locked, flash_lock, failed, frozen, unread} \subseteq BOOLEAN
    BY DEF Init
  <2>4. job \in DOMAIN Subtrees \cup {"none", "lock"} /\ next \in Nat \ {0}
    BY DEF Init
  <2> QED
    BY <2>1, <2>2, <2>3, <2>4 DEF TypeOK
<1>3. TypeOK /\ [Next]_vars => TypeOK'
  <2> SUFFICES ASSUME TypeOK, [Next]_vars PROVE TypeOK'
    OBVIOUS
  <2>1. ASSUME NEW k \in Keys, NEW v \in Values, set(k, v) PROVE TypeOK'
    BY <2>1 DEF set, TypeOK, stored, commit_vars, history
  <2>2. ASSUME NEW t \in DOMAIN Subtrees, save(t) PROVE TypeOK'
    <3>1. acked' \in [Keys -> Values \cup {Absent}]
      BY <2>2 DEF save, TypeOK
    <3>2. job' \in DOMAIN Subtrees \cup {"none", "lock"} /\ next' \in Nat \ {0}
      BY <2>2 DEF save
    <3>3. {locked', flash_lock', failed', frozen', unread'} \subseteq BOOLEAN
      BY <2>2 DEF save, TypeOK, ram, stored
    <3>4. /\ rs' \in [Keys -> Values]
          /\ {flash', meant'} \subseteq [Keys -> Values \cup {Absent}]
      BY <2>2 DEF save, TypeOK, ram, stored
    <3> QED
      BY <3>1, <3>2, <3>3, <3>4 DEF TypeOK
  <2>3. ASSUME NEW on \in BOOLEAN, lock(on) PROVE TypeOK'
    <3>1. {locked', failed', unread'} \subseteq BOOLEAN
      BY <2>3 DEF lock
    <3>2. frozen' \in BOOLEAN
      BY <2>3, Zenon DEF lock, TypeOK
    <3>3. acked' = acked /\ meant' = meant /\ rs' = rs /\ flash' = flash
      BY <2>3 DEF lock, stored
    <3>4. flash_lock' = flash_lock /\ job' = "lock" /\ next' = 1
      BY <2>3 DEF lock, stored
    <3> QED
      BY <3>1, <3>2, <3>3, <3>4 DEF TypeOK
  <2>4. ASSUME NEW ok \in BOOLEAN, save_one(ok) PROVE TypeOK'
    <3>1. Subtrees[job][next] \in Keys
      BY <2>4, NextKey DEF save_one
    <3>2. flash' \in [Keys -> Values \cup {Absent}]
      BY <2>4, <3>1 DEF save_one, TypeOK
    <3>3. meant' \in [Keys -> Values \cup {Absent}]
      BY <2>4, <3>1 DEF save_one, TypeOK
    <3> QED
      BY <2>4, <3>2, <3>3 DEF save_one, TypeOK, ram, failed_so_far
  <2>5. ASSUME NEW ok \in BOOLEAN, save_lock(ok) PROVE TypeOK'
    BY <2>5 DEF save_lock, TypeOK, ram, history, failed_so_far
  <2>6. ASSUME NEW ok \in BOOLEAN, save_schema(ok) PROVE TypeOK'
    <3>1. acked' \in [Keys -> Values \cup {Absent}]
      BY <2>6 DEF save_schema, TypeOK
    <3>2. frozen' \in BOOLEAN
      <4>1. CASE failed_so_far(ok)
        BY <2>6, <4>1 DEF save_schema, TypeOK
      <4>2. CASE ~failed_so_far(ok)
        <5>1. frozen' = (frozen \/ (job = "lock" /\ locked))
          BY <2>6, <4>2 DEF save_schema
        <5>2. (frozen \/ (job = "lock" /\ locked)) \in BOOLEAN
          OBVIOUS
        <5> QED
          BY <5>1, <5>2
      <4> QED
        BY <4>1, <4>2
    <3>3. job' \in DOMAIN Subtrees \cup {"none", "lock"} /\ next' \in Nat \ {0}
      BY <2>6 DEF save_schema
    <3>4. rs' \in [Keys -> Values] /\ flash' \in [Keys -> Values \cup {Absent}]
      BY <2>6 DEF save_schema, ram, stored, TypeOK
    <3>5. {locked', flash_lock', failed', unread'} \subseteq BOOLEAN
      BY <2>6 DEF save_schema, ram, stored, TypeOK
    <3>6. meant' \in [Keys -> Values \cup {Absent}]
      BY <2>6, NothingIsMap DEF save_schema
    <3> QED
      BY <3>1, <3>2, <3>3, <3>4, <3>5, <3>6 DEF TypeOK
  <2>7. ASSUME NEW readable \in SUBSET Keys, NEW lock_read \in BOOLEAN,
               reboot(readable, lock_read)
        PROVE  TypeOK'
    <3>1. rs' \in [Keys -> Values]
      BY <1>1, <2>7 DEF reboot, loaded, TypeOK
    <3>2. locked' \in BOOLEAN
      BY <2>7 DEF reboot
    <3>3. unread' \in BOOLEAN
      BY <2>7 DEF reboot
    <3>4. {flash_lock', failed', frozen'} \subseteq BOOLEAN
      BY <2>7 DEF reboot, stored, TypeOK
    <3>5. {flash', meant', acked'} \subseteq [Keys -> Values \cup {Absent}]
      BY <2>7, NothingIsMap DEF reboot, stored, TypeOK
    <3>6. job' \in DOMAIN Subtrees \cup {"none", "lock"} /\ next' \in Nat \ {0}
      BY <2>7 DEF reboot
    <3> QED
      BY <3>1, <3>2, <3>3, <3>4, <3>5, <3>6 DEF TypeOK
  <2>8. CASE UNCHANGED vars
    BY <2>8 DEF vars, ram, stored, commit_vars, history, TypeOK
  <2> QED
    BY <2>1, <2>2, <2>3, <2>4, <2>5, <2>6, <2>7, <2>8 DEF Next
<1> QED
  BY <1>2, <1>3, PTL DEF Spec

-----------------------------------------------------------------------------
\* A reported lock stays held, and while the boot could read it every step
\* keeps what is stored.
LEMMA LockStep ==
  ASSUME Assumptions, TypeOK, LockHeld, [Next]_vars
  PROVE  LockHeld' /\ (frozen /\ ~unread => flash' = flash)
<1> USE DEF LockHeld
<1>1. ASSUME NEW k \in Keys, NEW v \in Values, set(k, v)
      PROVE  LockHeld' /\ flash' = flash
  BY <1>1 DEF set, stored, commit_vars, history
<1>2. ASSUME NEW t \in DOMAIN Subtrees, save(t)
      PROVE  LockHeld' /\ flash' = flash
  BY <1>2 DEF save, permitted, ram, stored, Assumptions
<1>3. ASSUME NEW on \in BOOLEAN, lock(on)
      PROVE  LockHeld' /\ flash' = flash
  BY <1>3 DEF lock, stored, TypeOK
<1>4. ASSUME NEW ok \in BOOLEAN, save_one(ok)
      PROVE  LockHeld' /\ ~(frozen /\ ~unread)
  BY <1>4 DEF save_one, ram, Assumptions
<1>5. ASSUME NEW ok \in BOOLEAN, save_lock(ok)
      PROVE  LockHeld' /\ flash' = flash
  BY <1>5 DEF save_lock, ram, history, failed_so_far, TypeOK
<1>6. ASSUME NEW ok \in BOOLEAN, save_schema(ok)
      PROVE  LockHeld' /\ flash' = flash
  BY <1>6 DEF save_schema, ram, stored, failed_so_far, TypeOK
<1>7. ASSUME NEW readable \in SUBSET Keys, NEW lock_read \in BOOLEAN,
             reboot(readable, lock_read)
      PROVE  LockHeld' /\ flash' = flash
  BY <1>7 DEF reboot, stored
<1>8. CASE UNCHANGED vars
  BY <1>8 DEF vars, ram, stored, commit_vars, history
<1> QED
  BY <1>1, <1>2, <1>3, <1>4, <1>5, <1>6, <1>7, <1>8 DEF Next

\* A reported lock keeps what is stored of every subtree, unless a boot could
\* not read the lock and rim lock was not given since.
THEOREM LockKeepsFlash == Assumptions /\ Spec => LockFreezes
<1> SUFFICES ASSUME Assumptions PROVE Spec => LockFreezes
  OBVIOUS
<1>1. Init => LockHeld
  BY DEF Init, LockHeld
<1>2. TypeOK /\ LockHeld /\ [Next]_vars => LockHeld'
  BY LockStep
<1>3. TypeOK /\ LockHeld /\ [Next]_vars => [frozen /\ ~unread => flash' = flash]_vars
  BY LockStep
<1> QED
  BY <1>1, <1>2, <1>3, TypeCorrect, PTL DEF Spec, LockFreezes

-----------------------------------------------------------------------------
\* What is reported stays true, and what is meant is stored or has failed.
LEMMA CommitStep ==
  ASSUME Assumptions, TypeOK, AckedIsDurable, CommitHonest, [Next]_vars
  PROVE  AckedIsDurable' /\ CommitHonest'
<1> USE DEF AckedIsDurable, CommitHonest
<1>1. ASSUME NEW k \in Keys, NEW v \in Values, set(k, v)
      PROVE  AckedIsDurable' /\ CommitHonest'
  BY <1>1 DEF set, stored, commit_vars, history
<1>2. ASSUME NEW t \in DOMAIN Subtrees, save(t)
      PROVE  AckedIsDurable' /\ CommitHonest'
  <2>1. job \notin DOMAIN Subtrees /\ KeysOf(t) \subseteq Keys
    BY <1>2 DEF save, Assumptions, Keys
  <2>2. \A k \in Keys : meant'[k] = Absent
    BY <1>2, <2>1 DEF save
  <2>3. \A k \in Keys : acked'[k] = IF k \in KeysOf(t) THEN Absent ELSE acked[k]
    BY <1>2 DEF save
  <2>4. flash' = flash /\ job' = t
    BY <1>2 DEF save, stored
  <2> QED
    BY <2>1, <2>2, <2>3, <2>4
<1>3. ASSUME NEW on \in BOOLEAN, lock(on)
      PROVE  AckedIsDurable' /\ CommitHonest'
  BY <1>3 DEF lock, stored, Assumptions
<1>4. ASSUME NEW ok \in BOOLEAN, save_one(ok)
      PROVE  AckedIsDurable' /\ CommitHonest'
  BY <1>4, NextKey DEF save_one, ram, TypeOK, failed_so_far
<1>5. ASSUME NEW ok \in BOOLEAN, save_lock(ok)
      PROVE  AckedIsDurable' /\ CommitHonest'
  BY <1>5 DEF save_lock, ram, history, Assumptions
<1>6. ASSUME NEW ok \in BOOLEAN, save_schema(ok)
      PROVE  AckedIsDurable' /\ CommitHonest'
  BY <1>6 DEF save_schema, ram, stored, failed_so_far, Assumptions, Nothing
<1>7. ASSUME NEW readable \in SUBSET Keys, NEW lock_read \in BOOLEAN,
             reboot(readable, lock_read)
      PROVE  AckedIsDurable' /\ CommitHonest'
  BY <1>7 DEF reboot, stored, Nothing, Assumptions
<1>8. CASE UNCHANGED vars
  BY <1>8 DEF vars, ram, stored, commit_vars, history
<1> QED
  BY <1>1, <1>2, <1>3, <1>4, <1>5, <1>6, <1>7, <1>8 DEF Next

\* A reported save stays in flash until another save of its subtree.
THEOREM AckedStaysDurable == Assumptions /\ Spec => []AckedIsDurable
<1> SUFFICES ASSUME Assumptions PROVE Spec => []AckedIsDurable
  OBVIOUS
<1>1. Init => AckedIsDurable /\ CommitHonest
  BY DEF Init, AckedIsDurable, CommitHonest, Nothing, Assumptions
<1>2. TypeOK /\ AckedIsDurable /\ CommitHonest /\ [Next]_vars
        => AckedIsDurable' /\ CommitHonest'
  BY CommitStep
<1> QED
  BY <1>1, <1>2, TypeCorrect, PTL DEF Spec
=============================================================================
