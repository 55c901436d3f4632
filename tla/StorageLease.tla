---------------------------- MODULE StorageLease ----------------------------
(***************************************************************************)
(* Leases of training data (dessin/economics/storage_lease.py) and a node  *)
(* that keeps the data.  Heights are relative to the block in work: a      *)
(* lease has a rest, paid_through_block - current_block, that runs below   *)
(* zero when nobody pays.                                                  *)
(***************************************************************************)
EXTENDS Integers

CONSTANTS
  Files, Owners,
  MinBlocks, MaxBlocks,  \* min_renewal_blocks, max_renewal_blocks
  Grace, Warn,           \* grace_period_blocks, warning_blocks
  MaxRest, MaxLapse      \* bounds: blocks paid in advance, blocks unpaid

ASSUME LeaseConstants ==
  /\ {MinBlocks, MaxBlocks, Warn, MaxRest, MaxLapse} \subseteq Nat \ {0} /\ Grace \in Nat
  /\ MinBlocks <= MaxBlocks

VARIABLES
  status,  \* of each file: the status of its lease
  owner,   \* of each file: the owner of its lease, in a set
  rest,    \* of each file: blocks until paid_through_block
  disk,    \* the files the node keeps
  doomed,    \* what check_block returned and the node has not deleted yet
  unmarked,  \* what the node has deleted and not reported to mark_deleted yet
  repaid,    \* history: the leases created or renewed in this block
  overtaken  \* history: the leases last paid for while a deletion was on its way

leaseVars == <<status, owner, rest, disk, doomed, unmarked, repaid, overtaken>>

InitLeases ==
  /\ status = [f \in Files |-> "none"]
  /\ owner = [f \in Files |-> {}]
  /\ rest = [f \in Files |-> 0]
  /\ disk = {} /\ doomed = {} /\ unmarked = {} /\ repaid = {} /\ overtaken = {}

Condemned(f) == f \in doomed \cup unmarked

Closed(f) == status[f] \in {"none", "deleted", "cancelled"}

(* A lease starts with the upload of its data; its length has no maximum.   *)
CreateLease(f, o, blocks) ==
  /\ Closed(f)
  /\ blocks >= MinBlocks
  /\ status' = [status EXCEPT ![f] = "active"]
  /\ owner' = [owner EXCEPT ![f] = {o}]
  /\ rest' = [rest EXCEPT ![f] = blocks]
  /\ disk' = disk \cup {f}
  /\ repaid' = repaid \cup {f}
  /\ overtaken' = IF Condemned(f) THEN overtaken \cup {f} ELSE overtaken \ {f}
  /\ UNCHANGED <<doomed, unmarked>>

(* A renewal prolongs what was paid, however long ago that ended.           *)
Prolonged(r, blocks) == r + blocks

RenewLease(f, blocks) ==
  /\ ~Closed(f)
  /\ blocks \in MinBlocks .. MaxBlocks /\ Prolonged(rest[f], blocks) <= MaxRest
  /\ status' = [status EXCEPT ![f] = "active"]
  /\ rest' = [rest EXCEPT ![f] = Prolonged(@, blocks)]
  /\ repaid' = repaid \cup {f}
  /\ overtaken' = IF Condemned(f) THEN overtaken \cup {f} ELSE overtaken
  /\ UNCHANGED <<owner, disk, doomed, unmarked>>

(* Nothing is told to delete the data of a cancelled lease.                 *)
CancelLease(f, o) ==
  /\ ~Closed(f) /\ owner[f] = {o}
  /\ status' = [status EXCEPT ![f] = "cancelled"]
  /\ UNCHANGED <<owner, rest, disk, doomed, unmarked, repaid, overtaken>>

-----------------------------------------------------------------------------
(* check_block                                                              *)

\* Variant: the last block before expiry does not warn.
WarnsEarly(r) == 0 < r - 1 /\ r - 1 <= Warn

IsInWarning(r) == 0 < r /\ r <= Warn

IsExpired(r) == r <= 0

\* Variant: there is no grace.
DeletableOnceExpired(r) == r <= 0

IsDeletable(r) == r <= -Grace

\* Variant: only what was warned of expires.
ExpiredOnceWarned(s, r) == IF s = "warning" /\ IsExpired(r) THEN "expired" ELSE s

Warned(s, r) == IF s = "active" /\ IsInWarning(r) THEN "warning" ELSE s
Expired(s, r) == IF s \in {"active", "warning"} /\ IsExpired(r) THEN "expired" ELSE s
Eligible(s, r) == IF s = "expired" /\ IsDeletable(r) THEN "deletion_eligible" ELSE s

(* All that happens to an open lease in one block, in one call.             *)
Advanced(s, r) == Eligible(Expired(Warned(s, r), r), r)

(* The end of a block: leases advance, and the next block begins.           *)
EndBlock ==
  /\ \A f \in Files : ~Closed(f) => rest[f] > -MaxLapse
  /\ status' = [f \in Files |-> Advanced(status[f], rest[f])]
  /\ doomed' = doomed \cup {f \in Files : status[f] # "deletion_eligible" /\ status'[f] = "deletion_eligible"}
  /\ rest' = [f \in Files |-> IF Closed(f) THEN rest[f] ELSE rest[f] - 1]
  /\ repaid' = {}
  /\ UNCHANGED <<owner, disk, unmarked, overtaken>>

(* The node deletes what deletion_ready names, whatever became of the lease
   meanwhile.                                                               *)
Delete(f) ==
  /\ f \in doomed
  /\ doomed' = doomed \ {f} /\ disk' = disk \ {f} /\ unmarked' = unmarked \cup {f}
  /\ UNCHANGED <<status, owner, rest, repaid, overtaken>>

(* mark_deleted, called when the data is gone; it looks at nothing.         *)
MarkDeleted(f) ==
  /\ f \in unmarked
  /\ unmarked' = unmarked \ {f}
  /\ status' = [status EXCEPT ![f] = "deleted"]
  /\ UNCHANGED <<owner, rest, disk, doomed, repaid, overtaken>>

NextLeases ==
  \/ \E f \in Files :
       \/ \E o \in Owners, blocks \in 1 .. MaxBlocks : CreateLease(f, o, blocks)
       \/ \E blocks \in 1 .. MaxBlocks : RenewLease(f, blocks)
       \/ \E o \in Owners : CancelLease(f, o)
       \/ Delete(f) \/ MarkDeleted(f)
  \/ EndBlock

SpecLeases == InitLeases /\ [][NextLeases]_leaseVars

(* Blocks keep coming, and a node gets round to what it has to delete and to report. *)
FairSpec ==
  /\ SpecLeases /\ WF_leaseVars(EndBlock)
  /\ \A f \in Files : WF_leaseVars(Delete(f)) /\ WF_leaseVars(MarkDeleted(f))
=============================================================================
