-------------------------- MODULE SnapshotRegister --------------------------
(***************************************************************************)
(* What the TX half of the rimlink adapter promises its two users, without *)
(* buffers or indices: a register that the input service writes and the    *)
(* link thread reads.  A read returns the newest snapshot, always, and a   *)
(* snapshot that was already sent is not sent again once the input side    *)
(* has been silent for longer than the stale limit: a neutral frame takes  *)
(* its place (lib/rimlink/rimlink.h, rimlink_snapshot_publish and          *)
(* rimlink_tx_acquire).                                                    *)
(***************************************************************************)
CONSTANTS
  Inputs,       \* logical input snapshots
  Neutral,      \* the snapshot with no input active
  Idents,       \* rim identities
  NoFrame       \* "nothing was read yet"

VARIABLES
  latest,       \* the frame a read would return
  unsent,       \* no read has returned it yet
  silent,       \* no write for longer than the stale limit
  sent          \* the frame the last read returned

vars == <<latest, unsent, silent, sent>>

Frame == [id : Idents, in : Inputs]

Init ==
  /\ latest \in Frame
  /\ latest.in = Neutral
  /\ unsent = FALSE
  /\ silent = FALSE
  /\ sent = NoFrame

\* The input service writes a snapshot, sealed with the identity of the moment.
Write ==
  /\ latest' \in Frame
  /\ unsent' = TRUE
  /\ silent' = FALSE
  /\ UNCHANGED sent

\* The link thread reads.  After a silence only a first reading, or a
\* neutral frame, may be returned.
Read ==
  /\ silent => unsent \/ latest.in = Neutral
  /\ sent' = latest
  /\ unsent' = FALSE
  /\ UNCHANGED <<latest, silent>>

\* The link thread reads after a silence: the snapshot is cleared.
ReadCleared ==
  /\ silent
  /\ ~unsent
  /\ latest' \in Frame
  /\ latest'.in = Neutral
  /\ sent' = latest'
  /\ UNCHANGED <<unsent, silent>>

FallSilent ==
  /\ silent' = TRUE
  /\ UNCHANGED <<latest, unsent, sent>>

Next == Write \/ Read \/ ReadCleared \/ FallSilent

Spec == Init /\ [][Next]_vars
=============================================================================
