-------------------------------- MODULE Store --------------------------------
(***************************************************************************)
(* The durable store: what a restart reads back from the state file and    *)
(* the audit journal.  The state file is replaced atomically, so it is one *)
(* value.  The journal is a sequence of readable frames; once a frame is   *)
(* damaged nothing behind it is ever read, so bytes behind the damage need *)
(* no representation, only the fact that the file is damaged.              *)
(***************************************************************************)
EXTENDS Hysteresis, Sequences

CONSTANTS Domains,           \* OversubscriptionDomainId values
          MaxJournalRecords, \* StoreOptions::max_journal_records
          MaxAuditRecords    \* StoreOptions::max_audit_records

ASSUME StoreAssumption ==
  /\ MaxJournalRecords \in Nat \ {0}
  /\ MaxAuditRecords \in Nat \ {0}

\* The fields of an AuditRecord that recovery reads back.
AuditRecord ==
  [id : Nat \ {0}, tick : Nat, epoch : Nat, domain : Domains,
   effective_outcome : Outcome, fenced : BOOLEAN, confirmations : Nat,
   last_escalation_tick : Nat]

\* The newest n elements of a sequence (vector::erase from the front).
Newest(s, n) == IF Len(s) > n THEN SubSeq(s, Len(s) - n + 1, Len(s)) ELSE s

\* load_journal: readable frames, cut once more than the bound were read.
LoadJournal(journal) ==
  IF Len(journal) > MaxJournalRecords + 1
  THEN SubSeq(journal, 1, MaxJournalRecords + 1) ELSE journal

\* The greatest element of S, or n when S has none above n.
Highest(n, S) ==
  IF \E x \in S : x > n /\ \A y \in S : y <= x
  THEN CHOOSE x \in S : x > n /\ \A y \in S : y <= x
  ELSE n

\* Mutant: records that both files hold are taken twice.
MergeAuditTwice(audit, records) == Newest(audit \o records, MaxAuditRecords)

\* The audit tail after a restart: the state file's records older than the
\* journal, then the journal, bounded.  Audit ids never decrease (AuditOrdered
\* in Governor), so the older records are a prefix.
MergeAudit(audit, records) ==
  IF records = <<>> THEN audit
  ELSE LET older == {i \in 1..Len(audit) : audit[i].id < records[1].id}
       IN  Newest(SubSeq(audit, 1, Highest(0, older)) \o records, MaxAuditRecords)

\* rebuild_from_audit skips a record whose id does not exceed every earlier one.
Applied(records) ==
  {i \in 1..Len(records) : \A j \in 1..(i - 1) : records[j].id < records[i].id}

LastApplied(records, d) ==
  Highest(0, {i \in Applied(records) : records[i].domain = d})

\* The last applied record of a domain wins over whatever the state file holds.
RebuildDomains(domains, records) ==
  [d \in Domains |->
     LET i == LastApplied(records, d)
     IN  IF i = 0 THEN domains[d] ELSE Replayed(records[i])]

\* Mutant: the decision counter comes from the state file alone.
RebuildIssuedFromFile(issued, records) == issued

\* decisions_issued, tick and epoch only ever rise during replay.
RebuildIssued(issued, records) == Highest(issued, {records[i].id : i \in Applied(records)})
RebuildTick(tick, records)     == Highest(tick, {records[i].tick : i \in Applied(records)})
RebuildEpoch(epoch, records)   == Highest(epoch, {records[i].epoch : i \in Applied(records)})
=============================================================================
