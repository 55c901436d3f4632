-------------------------- MODULE StorageLeaseProps -------------------------
(***************************************************************************)
(* What a lease promises to those who pay for it, and to the node.         *)
(***************************************************************************)
EXTENDS StorageLease

\* "A node that deletes data before DELETION_ELIGIBLE is considered misbehaving": until
\* the paid time and the grace after it are over, the data of an open lease is there and
\* no lease is closed as deleted, however renewals, cancellations, new leases and late
\* deletions meet.  The one way to lose paid data is to pay between check_block's order
\* to delete it and mark_deleted, since neither the deletion nor mark_deleted looks at
\* the lease again (check_block, renew_lease, mark_deleted).
PaidDataIsKept ==
  \A f \in Files \ overtaken :
    rest[f] > -Grace => (Closed(f) \/ f \in disk) /\ status[f] # "deleted"

\* Nobody's lease runs out unannounced: it has been in WARNING before, unless it was
\* paid for in the very block it ran out in (is_in_warning, check_block).
ExpiryIsAnnounced ==
  [][\A f \in Files : status[f] = "active" /\ status'[f] \in {"expired", "deletion_eligible"}
                        => f \in repaid]_leaseVars

\* A node does not keep data for nothing for ever: once the paid time is over, the data
\* goes, unless somebody pays again or the owner cancels.  (A lease made anew before the
\* node reported the old one's deletion is excepted: the report closes it, and nothing
\* deletes its data then.)  (check_block, deletion_ready, mark_deleted)
LapsedDataIsFreed ==
  \A f \in Files :
    ~Closed(f) /\ rest[f] <= 0 /\ f \notin repaid \cup unmarked
      ~> f \notin disk \/ f \in repaid \/ status[f] = "cancelled"
=============================================================================
