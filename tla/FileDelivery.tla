---------------------------- MODULE FileDelivery ----------------------------
(***************************************************************************)
(* What the file transfer of the desktop client promises about one file    *)
(* (p2p.rs), seen from the disks and the screens of its recipients: a      *)
(* recipient that never had two attempts under way at once finds nothing   *)
(* or the whole file under its final name, and its client shows the file   *)
(* as held only when it is whole, unless the disk refused to keep a        *)
(* received file.  FileTransfer is shown to implement this.                *)
(***************************************************************************)
EXTENDS FiniteSets

CONSTANT Receivers      \* the users who can fetch the file

VARIABLES
  copy,   \* copy[r]: what r's disk holds under the final name
  held,   \* held[r]: r's client shows the file as downloaded
  raced,  \* raced[r]: r asked again while an earlier attempt was under way
  refused \* refused[r]: r's disk failed to sync or to rename a received file

vars == <<copy, held, raced, refused>>

Copies == {"none", "torn", "whole"}

Init ==
  /\ copy = [r \in Receivers |-> "none"]
  /\ held = [r \in Receivers |-> FALSE]
  /\ raced = [r \in Receivers |-> FALSE]
  /\ refused = [r \in Receivers |-> FALSE]

(* A transfer ends: the whole file appears under its final name. *)
Store(r) ==
  /\ copy' = [copy EXCEPT ![r] = "whole"]
  /\ UNCHANGED <<held, raced, refused>>

(* Or it ends, and the disk fails to sync or to rename the file. *)
Refuse(r) ==
  /\ refused' = [refused EXCEPT ![r] = TRUE]
  /\ \E k \in {copy[r], "torn", "whole"}: copy' = [copy EXCEPT ![r] = k]
  /\ UNCHANGED <<held, raced>>

(* The client is told of a completed transfer. *)
Show(r) ==
  /\ raced[r] \/ refused[r] \/ copy[r] = "whole"
  /\ held' = [held EXCEPT ![r] = TRUE]
  /\ UNCHANGED <<copy, raced, refused>>

(* A client that starts shows what its disk holds. *)
Restart(r) ==
  /\ held' = [held EXCEPT ![r] = copy[r] # "none"]
  /\ UNCHANGED <<copy, raced, refused>>

(* The user, or a restarted client, asks again too early. *)
Race(r) ==
  /\ raced' = [raced EXCEPT ![r] = TRUE]
  /\ UNCHANGED <<copy, held, refused>>

(* Only then may two transfers write over each other, or over torn files. *)
Clash(r) ==
  /\ raced[r] \/ refused[r]
  /\ \E k \in {"torn", "whole"}: copy' = [copy EXCEPT ![r] = k]
  /\ UNCHANGED <<held, raced, refused>>

Next == \E r \in Receivers:
  Store(r) \/ Refuse(r) \/ Show(r) \/ Restart(r) \/ Race(r) \/ Clash(r)

Spec == Init /\ [][Next]_vars
=============================================================================
