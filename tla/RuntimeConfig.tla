---------------------------- MODULE RuntimeConfig ----------------------------
(***************************************************************************)
(* What the runtime configuration of one slon promises (spec sections 4.2  *)
(* and 4.4), with no queries, snapshots or threads: administrators commit  *)
(* events one after another; a daemon that has started holds the          *)
(* configuration as of some prefix of the committed events, never a mix of *)
(* two prefixes, and only moves that prefix forward.                       *)
(*                                                                         *)
(* An event is a record [seqno, tbl]: the table it changed (or SYNC, no    *)
(* table), identified by its sequence number.  A table's configuration is  *)
(* the seqno of the last event that changed it, 0 for its contents before. *)
(***************************************************************************)
EXTENDS Integers, Sequences

CONSTANTS
  Tables,   \* the configuration tables slon loads
  Event     \* the events an administrative or SYNC transaction can commit

VARIABLES
  committed,  \* the committed events, in commit order
  known,      \* how many of them the daemon's configuration reflects; -1: none
  config      \* the configuration the daemon holds

cvars == <<committed, known, config>>

\* A daemon that holds no configuration yet.
NoConfig == [t \in Tables |-> -1]

\* The configuration after the first n committed events.
ConfigAfter(n) ==
  [t \in Tables |->
     LET ix == {i \in 1..n : committed[i].tbl = t}
     IN  IF ix = {} THEN 0 ELSE committed[CHOOSE i \in ix : \A j \in ix : j <= i].seqno]

Init == committed = <<>> /\ known = -1 /\ config = NoConfig

\* An administrative or SYNC transaction commits its event.
Commit ==
  /\ \E e \in Event : committed' = Append(committed, e)
  /\ UNCHANGED <<known, config>>

\* The daemon starts with the configuration as of some committed prefix.
Start ==
  /\ known = -1
  /\ \E n \in 0..Len(committed) : known' = n /\ config' = ConfigAfter(n)
  /\ UNCHANGED committed

\* The daemon takes in a longer prefix, all at once.
Advance ==
  /\ known >= 0
  /\ \E n \in (known + 1)..Len(committed) : known' = n /\ config' = ConfigAfter(n)
  /\ UNCHANGED committed

Next == Commit \/ Start \/ Advance

Spec == Init /\ [][Next]_cvars

=============================================================================
