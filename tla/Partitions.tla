----------------------------- MODULE Partitions -----------------------------
(***************************************************************************)
(* The topic triage.requests as its consumers see it through               *)
(* infra/kafka_utils.py: per partition the records behind the committed    *)
(* offset, how many of them the owner was given (its position runs ahead   *)
(* of what it commits), and the group member that owns the partition.      *)
(* Offsets are counted from the committed one, which is always 0.          *)
(***************************************************************************)
EXTENDS Integers, Sequences, FiniteSets

CONSTANTS
  Doc,          \* doc_ids; a doc_id is the checksum of an object's bytes
  Path,         \* gcs paths under inbox/
  Partition,    \* the partitions of the topic
  PartitionOf,  \* the partition of a key, and the key is the doc_id
  Consumer,     \* the members of the group "triage"
  MaxFaults     \* bound: failures, crashes and rebalances in one behaviour

ASSUME PartitionsAssumption ==
  /\ IsFiniteSet(Doc) /\ IsFiniteSet(Path)
  /\ PartitionOf \in [Doc -> Partition]
  /\ Consumer # {}
  /\ MaxFaults \in Nat

VARIABLES
  log,       \* per partition, the records from the committed offset on
  position,  \* per partition, how many of them its owner was given
  owner,     \* per partition, the consumer it is assigned to
  faults     \* failures so far

partitionVars == <<log, position, owner>>

Request == [doc : Doc, path : Path]

PartitionsTypeOK ==
  /\ log \in [Partition -> Seq(Request)]
  /\ position \in [Partition -> Nat]
  /\ \A p \in Partition : position[p] <= Len(log[p])
  /\ owner \in [Partition -> Consumer]
  /\ faults \in 0 .. MaxFaults

PartitionsInit ==
  /\ log = [p \in Partition |-> <<>>]
  /\ position = [p \in Partition |-> 0]
  /\ owner \in [Partition -> Consumer]
  /\ faults = 0

Fault == faults < MaxFaults /\ faults' = faults + 1

publish(request) ==
  log' = [log EXCEPT ![PartitionOf[request.doc]] = Append(@, request)]

\* The next record of p, if c owns p; the position moves on whatever comes of it.
poll_json(c, p) ==
  /\ owner[p] = c
  /\ position[p] < Len(log[p])
  /\ position' = [position EXCEPT ![p] = @ + 1]
  /\ UNCHANGED <<log, owner>>
Polled(p) == log[p][position[p] + 1]

\* Mutant: a member that lost the partition commits all the same.
commit_unowned(c, p, offset) ==
  /\ log' = [log EXCEPT ![p] = SubSeq(@, offset + 1, Len(@))]
  /\ position' = [position EXCEPT ![p] = @ - offset]
  /\ UNCHANGED owner

\* consumer.commit(msg) of the record at `offset` covers every record before
\* it.  A member that lost the partition commits nothing.
commit(c, p, offset) ==
  IF owner[p] = c
  THEN /\ log' = [log EXCEPT ![p] = SubSeq(@, offset + 1, Len(@))]
       /\ position' = [position EXCEPT ![p] = @ - offset]
       /\ UNCHANGED owner
  ELSE UNCHANGED partitionVars

\* c restarts, or its session ends: who owns its partitions next reads from
\* the committed offset.
RestartConsumer(c) ==
  /\ position' = [p \in Partition |-> IF owner[p] = c THEN 0 ELSE position[p]]
  /\ UNCHANGED <<log, owner>>

\* A partition is given to c, which must be polling to take part.
Rebalance(p, c) ==
  /\ owner[p] # c
  /\ owner' = [owner EXCEPT ![p] = c]
  /\ position' = [position EXCEPT ![p] = 0]
  /\ UNCHANGED log
=============================================================================
