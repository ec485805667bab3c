------------------------------ MODULE Settings ------------------------------
(***************************************************************************)
(* The settings in RAM and in flash (app/src/rim_settings.c) with the      *)
(* shell's rim save and rim lock and the setters that change them.  A      *)
(* commit saves a subtree key by key; each save may fail, the power may    *)
(* fail between any two, and the input thread, which the shell does not    *)
(* keep out, may change the clutch mode in the middle.  What is stored     *)
(* under one key is replaced atomically; a boot reads back what it can.    *)
(***************************************************************************)
EXTENDS Integers, Sequences

CONSTANTS
  Subtrees,     \* for "cal", "map" and "mode", the sequence of its keys
  Chord,        \* the key the clutch chord changes
  Values,       \* values of a key
  Default,      \* of every key
  Absent        \* a key that was never stored

KeysOf(t) == {Subtrees[t][i] : i \in DOMAIN Subtrees[t]}
Keys == UNION {KeysOf(t) : t \in DOMAIN Subtrees}

\* What is assumed of the constants.
Assumptions ==
  /\ {"lock", "none"} \cap DOMAIN Subtrees = {}
  /\ \A t \in DOMAIN Subtrees : Subtrees[t] \in Seq(KeysOf(t))
  /\ Default \in Values /\ Absent \notin Values

VARIABLES
  rs,           \* the settings in RAM, without the lock
  locked,       \* rs.locked
  flash,        \* what is stored
  flash_lock,   \* what is stored of the lock: TRUE, FALSE or nothing (FALSE)
  job,          \* the subtree a running commit saves, or "none"
  next,         \* its next key
  failed,       \* ret # 0 so far
  \* History
  frozen,       \* "rim lock on" succeeded and "rim lock off" was not given
  unread,       \* the boot could not read the lock, and rim lock was not given
  meant,        \* the values the running commit has asked to be saved
  acked         \* those of the last commit, if it succeeded

ram == <<rs, locked>>
stored == <<flash, flash_lock>>
commit_vars == <<job, next, failed>>
history == <<frozen, unread, meant, acked>>
Nothing == [k \in Keys |-> Absent]
vars == <<ram, stored, commit_vars, history>>

TypeOK ==
  /\ rs \in [Keys -> Values]
  /\ locked \in BOOLEAN
  /\ flash \in [Keys -> Values \cup {Absent}]
  /\ flash_lock \in BOOLEAN
  /\ job \in DOMAIN Subtrees \cup {"none", "lock"}
  /\ next \in Nat \ {0}
  /\ failed \in BOOLEAN
  /\ frozen \in BOOLEAN
  /\ unread \in BOOLEAN
  /\ meant \in [Keys -> Values \cup {Absent}]
  /\ acked \in [Keys -> Values \cup {Absent}]

Init ==
  /\ rs = [k \in Keys |-> Default]
  /\ locked = FALSE
  /\ flash = Nothing
  /\ flash_lock = FALSE
  /\ job = "none"
  /\ next = 1
  /\ failed = FALSE
  /\ frozen = FALSE
  /\ unread = FALSE
  /\ meant = Nothing
  /\ acked = Nothing

-----------------------------------------------------------------------------
(* Setters: rim map, rim dpad, rim clutch in the shell; the chord at any time *)

set(k, v) ==
  /\ job = "none" \/ k = Chord
  /\ rs' = [rs EXCEPT ![k] = v]
  /\ UNCHANGED <<locked, stored, commit_vars, history>>

-----------------------------------------------------------------------------
(* rim_settings_commit *)

\* Mutant: the lock is not looked at.
permitted_always(t) == TRUE

permitted(t) == ~locked

\* rim save t, not rejected with -EACCES.
save(t) ==
  /\ job = "none"
  /\ permitted(t)
  /\ job' = t
  /\ next' = 1
  /\ failed' = FALSE
  /\ acked' = [k \in Keys |-> IF k \in KeysOf(t) THEN Absent ELSE acked[k]]
  /\ UNCHANGED <<ram, stored, frozen, unread, meant>>

\* rim lock: the lock is set first and then saved.
lock(on) ==
  /\ job = "none"
  /\ locked' = on
  /\ job' = "lock"
  /\ next' = 1
  /\ failed' = FALSE
  /\ frozen' = (frozen /\ on)
  /\ unread' = FALSE
  /\ UNCHANGED <<rs, stored, meant, acked>>

\* Mutant: the result of a save replaces that of the one before.
failed_last_only(ok) == ~ok

\* The results of all saves are combined.
failed_so_far(ok) == failed \/ ~ok

\* The next key of the subtree is written, or not.
save_one(ok) ==
  /\ job \in DOMAIN Subtrees
  /\ next <= Len(Subtrees[job])
  /\ LET k == Subtrees[job][next]
     IN  /\ flash' = IF ok THEN [flash EXCEPT ![k] = rs[k]] ELSE flash
         /\ meant' = [meant EXCEPT ![k] = rs[k]]
  /\ failed' = failed_so_far(ok)
  /\ next' = next + 1
  /\ UNCHANGED <<ram, flash_lock, job, frozen, unread, acked>>

save_lock(ok) ==
  /\ job = "lock"
  /\ next = 1
  /\ flash_lock' = IF ok THEN locked ELSE flash_lock
  /\ failed' = failed_so_far(ok)
  /\ next' = 2
  /\ UNCHANGED <<ram, flash, job, history>>

\* The schema version is saved last; the command reports the result.
save_schema(ok) ==
  /\ job # "none"
  /\ next > IF job = "lock" THEN 1 ELSE Len(Subtrees[job])
  /\ job' = "none"
  /\ next' = 1
  /\ failed' = FALSE
  /\ IF failed_so_far(ok)
       THEN UNCHANGED <<frozen, acked>>
       ELSE /\ frozen' = (frozen \/ (job = "lock" /\ locked))
            /\ acked' = [k \in Keys |->
                            IF meant[k] # Absent THEN meant[k] ELSE acked[k]]
  /\ meant' = Nothing
  /\ UNCHANGED <<ram, stored, unread>>

-----------------------------------------------------------------------------
(* Power fails; rim_settings_init loads what is stored, or what it can of it *)

\* A key that was not stored or cannot be read keeps its default.
loaded(readable) ==
  [k \in Keys |-> IF k \in readable /\ flash[k] # Absent THEN flash[k]
                                                       ELSE Default]

\* A failure is logged and the services run with what there is in RAM; when
\* nothing can be loaded, that is the defaults and no lock.
reboot(readable, lock_read) ==
  /\ rs' = loaded(readable)
  /\ locked' = (lock_read /\ flash_lock)
  /\ job' = "none"
  /\ next' = 1
  /\ failed' = FALSE
  /\ unread' = ~lock_read
  /\ meant' = Nothing
  /\ UNCHANGED <<stored, frozen, acked>>

Next ==
  \/ \E k \in Keys, v \in Values : set(k, v)
  \/ \E t \in DOMAIN Subtrees : save(t)
  \/ \E on \in BOOLEAN : lock(on)
  \/ \E ok \in BOOLEAN : save_one(ok) \/ save_lock(ok) \/ save_schema(ok)
  \/ \E readable \in SUBSET Keys, lock_read \in BOOLEAN :
       reboot(readable, lock_read)

Spec == Init /\ [][Next]_vars

-----------------------------------------------------------------------------
(* Properties *)

\* Once rim lock on has reported success, and until rim lock off is given,
\* what is stored of cal, map and mode does not change, whatever is set in
\* RAM, saved, or lost with the power: except after a boot that could not read
\* the lock, until rim lock is given again.
LockFreezes == [][frozen /\ ~unread => flash' = flash]_vars

\* Does not hold: the same without the exception.  A boot whose load fails
\* goes on with the lock off (rim_settings.c:129-141), and rim save then
\* writes over what was locked.
LockAlwaysFreezes == [][frozen => flash' = flash]_vars

\* What rim save has reported as saved is in flash, every key of the subtree,
\* until another save of that subtree is begun: every later boot that can read
\* a key loads the value that was reported.
AckedIsDurable ==
  \A k \in Keys : acked[k] # Absent => flash[k] = acked[k]
=============================================================================
