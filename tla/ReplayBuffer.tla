----------------------------- MODULE ReplayBuffer -----------------------------
(***************************************************************************)
(* The ring that keeps the newest output of a session                      *)
(* (internal/session/replay_buffer.go).  The bytes a session writes are    *)
(* numbered, so that a byte tells where it belongs; 0 is a byte of the     *)
(* storage never written.  By how much the storage grows is left open.     *)
(***************************************************************************)
EXTENDS Integers, Sequences

CONSTANTS
  RingLimit, \* replayBuffer.limit
  Lengths,   \* of the chunks appended
  MaxBytes   \* bound: the bytes a session writes

ASSUME RingAssumption == RingLimit \in Nat \ {0} /\ Lengths \subseteq Nat /\ MaxBytes \in Nat

VARIABLES
  buf,    \* the storage
  start,  \* index of the oldest byte, from 0
  size,   \* how many bytes are retained
  written \* the last byte appended

ringVars == <<buf, start, size, written>>

\* Mutant: nothing wraps.
WrapNever(i, n) == i

\* i % n, for the indices below 2 n that occur.
Wrap(i, n) == IF i < n THEN i ELSE i - n

\* snapshot: the retained bytes, the oldest first.
Snapshot == [i \in 1..size |-> buf[Wrap(start + i - 1, Len(buf)) + 1]]

\* reserve: storage for n bytes at least, those retained at its front.
Reserve(n) ==
  IF Len(buf) >= n THEN {[bytes |-> buf, from |-> start]}
  ELSE {[bytes |-> [i \in 1..c |-> IF i <= size THEN buf[start + i] ELSE 0], from |-> 0] : c \in n..RingLimit}

\* Mutant: the index of the oldest byte is left where it was.
AppendLargeInPlace(n) ==
  /\ n >= RingLimit
  /\ \E r \in Reserve(RingLimit) :
       buf' = [i \in 1..Len(r.bytes) |-> IF i <= RingLimit THEN written + n - RingLimit + i ELSE r.bytes[i]]
  /\ size' = RingLimit /\ UNCHANGED start

\* A chunk as large as the window replaces all of it.
AppendLarge(n) ==
  /\ n >= RingLimit
  /\ \E r \in Reserve(RingLimit) :
       buf' = [i \in 1..Len(r.bytes) |-> IF i <= RingLimit THEN written + n - RingLimit + i ELSE r.bytes[i]]
  /\ start' = 0 /\ size' = RingLimit

\* Any other is written behind the newest byte, at most once around the end.
AppendSmall(n) ==
  /\ n \in 1..(RingLimit - 1)
  /\ \E r \in Reserve(IF size + n > RingLimit THEN RingLimit ELSE size + n) :
       LET len  == Len(r.bytes)
           end  == Wrap(r.from + size, len)
           over == size + n - len
       IN /\ buf' = [i \in 1..len |->
                       IF i - 1 >= end /\ i - 1 < end + n THEN written + i - end
                       ELSE IF i - 1 + len < end + n THEN written + i + len - end ELSE r.bytes[i]]
          /\ IF over > 0 THEN start' = Wrap(r.from + over, len) /\ size' = len
                         ELSE start' = r.from /\ size' = size + n

RingAppend(n) ==
  /\ written + n <= MaxBytes
  /\ AppendLarge(n) \/ AppendSmall(n) \/ (n = 0 /\ UNCHANGED <<buf, start, size>>)
  /\ written' = written + n

-----------------------------------------------------------------------------
RingInit == buf = <<>> /\ start = 0 /\ size = 0 /\ written = 0

RingNext == \E n \in Lengths : RingAppend(n)

RingSpec == RingInit /\ [][RingNext]_ringVars

-----------------------------------------------------------------------------
RingTypeOK ==
  /\ buf \in Seq(Nat) /\ Len(buf) <= RingLimit
  /\ start \in Nat /\ size \in 0..Len(buf) /\ written \in Nat
  /\ start < Len(buf) \/ (start = 0 /\ buf = <<>>)

\* docs/scenarios.md H15b: what a remounted pane replays is the newest output, as much of it as
\* the window holds, in order.
SnapshotIsNewest ==
  /\ size = IF written < RingLimit THEN written ELSE RingLimit
  /\ Snapshot = [i \in 1..size |-> written - size + i]
=============================================================================
