------------------------------ MODULE LogStore ------------------------------
(***************************************************************************)
(* What a raft member keeps on disk: the write-ahead log (Wal) and the     *)
(* vote file (Vote) of its WalLogStore, and the snapshots of its state     *)
(* machine (SnapshotStore).                                                *)
(*                                                                         *)
(* They share no file and no lock: no call of one reads what another       *)
(* writes, and SnapshotStore knows the log by what the raft core does with *)
(* it.  So each is explored from the initial states of the others, and     *)
(* interleaving them would show nothing more.                              *)
(***************************************************************************)
EXTENDS Wal, Vote, SnapshotStore

StoreInit == Init /\ VoteInit /\ SnapshotInit

StoreNext ==
  \/ VoteInit /\ SnapshotInit /\ Next /\ UNCHANGED <<vote_vars, snapshot_vars>>
  \/ Init /\ SnapshotInit /\ VoteNext /\ UNCHANGED <<vars, snapshot_vars>>
  \/ Init /\ VoteInit /\ SnapshotNext /\ UNCHANGED <<vars, vote_vars>>

StoreSpec == StoreInit /\ [][StoreNext]_<<vars, vote_vars, snapshot_vars>>
=============================================================================
