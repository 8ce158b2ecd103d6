----------------------------- MODULE KlineBuffer -----------------------------
(***************************************************************************)
(* The ring of candles behind a sequence lock (src/market/KlineBuffer).    *)
(* One thread pushes; readers copy the last candles without a lock and     *)
(* copy again when the sequence number moved meanwhile.                    *)
(*                                                                         *)
(* The candle of the k-th push is the number k.  A candle is larger than a *)
(* machine word and is copied while it may be written, so a slot holds two *)
(* halves that are written and read one after the other.  Loads and stores *)
(* happen in program order, as on x86-64.                                  *)
(***************************************************************************)
EXTENDS Integers, Sequences

CONSTANTS
  m_capacity,  \* the number of slots
  Readers,     \* the threads that take snapshots
  MaxPushes    \* bound of a run: pushes of the writer

ASSUME BufferAssumption ==
  /\ m_capacity \in Nat \ {0}
  /\ MaxPushes \in Nat

VARIABLES
  m_buffer,    \* physical position -> <<first half, second half>> of a candle
  m_head,      \* the next position to write
  m_count,     \* the number of candles
  m_seqlock,   \* odd while a push is under way
  writer,      \* the step the push is at
  reader       \* reader -> where its snapshot is, and what it has copied

shared == <<m_buffer, m_head, m_count, m_seqlock>>
bufferVars == <<shared, writer, reader>>

Positions == 0 .. m_capacity - 1

\* The number of the push under way, or of the next one.
NextCandle == m_seqlock \div 2 + 1

\* A snapshot: its step, the n asked for, the sequence number it began with, the
\* logical position of the next candle and how many are left, the count or the
\* position just computed, the half just read, and the candles copied.
NoSnapshot == [step |-> "idle", n |-> 0, seq1 |-> 0, logical |-> 0, left |-> 0,
               place |-> 0, first |-> 0, result |-> << >>]

BufferInit ==
  /\ m_buffer = [p \in Positions |-> <<0, 0>>]
  /\ m_head = 0
  /\ m_count = 0
  /\ m_seqlock = 0
  /\ writer = "idle"
  /\ reader = [r \in Readers |-> NoSnapshot]

-----------------------------------------------------------------------------
(* The writer: push, one step per store                                    *)

beginPush ==
  /\ writer = "idle"
  /\ NextCandle <= MaxPushes
  /\ m_seqlock' = m_seqlock + 1
  /\ writer' = "first"
  /\ UNCHANGED <<m_buffer, m_head, m_count, reader>>

writeFirst ==
  /\ writer = "first"
  /\ m_buffer' = [m_buffer EXCEPT ![m_head][1] = NextCandle]
  /\ writer' = "second"
  /\ UNCHANGED <<m_head, m_count, m_seqlock, reader>>

writeSecond ==
  /\ writer = "second"
  /\ m_buffer' = [m_buffer EXCEPT ![m_head][2] = NextCandle]
  /\ writer' = "head"
  /\ UNCHANGED <<m_head, m_count, m_seqlock, reader>>

advanceHead ==
  /\ writer = "head"
  /\ m_head' = (m_head + 1) % m_capacity
  /\ writer' = "count"
  /\ UNCHANGED <<m_buffer, m_count, m_seqlock, reader>>

advanceCount ==
  /\ writer = "count"
  /\ m_count' = IF m_count < m_capacity THEN m_count + 1 ELSE m_count
  /\ writer' = "end"
  /\ UNCHANGED <<m_buffer, m_head, m_seqlock, reader>>

\* Fault: the push ends without making the sequence number even again.
endPush_StaysOdd ==
  /\ writer = "end"
  /\ m_seqlock' = m_seqlock + 2
  /\ writer' = "idle"
  /\ UNCHANGED <<m_buffer, m_head, m_count, reader>>

endPush ==
  /\ writer = "end"
  /\ m_seqlock' = m_seqlock + 1
  /\ writer' = "idle"
  /\ UNCHANGED <<m_buffer, m_head, m_count, reader>>

finishPush ==
  writeFirst \/ writeSecond \/ advanceHead \/ advanceCount \/ endPush

-----------------------------------------------------------------------------
(* A reader: snapshot(n), and latest(), which is snapshot(1)               *)

at(r, step) == reader[r].step = step

\* The reader of r changes as given and nothing else does.
goes(r, next) ==
  /\ reader' = [reader EXCEPT ![r] = next]
  /\ UNCHANGED <<shared, writer>>

snapshot(r, n) ==
  /\ at(r, "idle") \/ at(r, "returned")
  /\ goes(r, [NoSnapshot EXCEPT !.step = "begin", !.n = n])

\* The first load of the sequence number; the reader spins while it is odd.
readSeqlock(r) ==
  /\ at(r, "begin")
  /\ m_seqlock % 2 = 0
  /\ goes(r, [reader[r] EXCEPT !.step = "count", !.seq1 = m_seqlock])

\* How many candles to return, of how many; none when the buffer is empty.
readCount(r) ==
  LET n == reader[r].n
      num_to_return == IF n = 0 \/ n > m_count THEN m_count ELSE n
  IN  /\ at(r, "count")
      /\ goes(r, [reader[r] EXCEPT !.step = IF m_count = 0 THEN "returned" ELSE "locate",
                                   !.logical = m_count - num_to_return,
                                   !.left = num_to_return])

\* logicalToPhysical loads the count and the head again, one after the other.
locateCount(r) ==
  /\ at(r, "locate")
  /\ goes(r, [reader[r] EXCEPT !.step = "head", !.place = m_count])

logicalToPhysical(head, count, logical) ==
  (((head + m_capacity - count) % m_capacity) + logical) % m_capacity

locateHead(r) ==
  /\ at(r, "head")
  /\ goes(r, [reader[r] EXCEPT !.step = "first",
                               !.place = logicalToPhysical(m_head, @, reader[r].logical)])

readFirst(r) ==
  /\ at(r, "first")
  /\ goes(r, [reader[r] EXCEPT !.step = "second",
                               !.first = m_buffer[reader[r].place][1]])

\* With its second half the candle is copied; the next one is located, if any.
readSecond(r) ==
  /\ at(r, "second")
  /\ goes(r, [reader[r] EXCEPT !.step = IF reader[r].left = 1 THEN "verify" ELSE "locate",
                               !.logical = @ + 1,
                               !.left = @ - 1,
                               !.result = Append(@, <<reader[r].first,
                                                      m_buffer[reader[r].place][2]>>)])

\* Fault: a copy counts when no push is under way at its end.
Unmoved_EvenOnly(r) == m_seqlock % 2 = 0

\* The second load of the sequence number decides whether the copy counts.
Unmoved(r) == m_seqlock = reader[r].seq1

verify(r) ==
  /\ at(r, "verify")
  /\ goes(r, IF Unmoved(r) THEN [reader[r] EXCEPT !.step = "returned"]
                           ELSE [NoSnapshot EXCEPT !.step = "begin", !.n = reader[r].n])

continueSnapshot(r) ==
  \/ readSeqlock(r) \/ readCount(r) \/ locateCount(r) \/ locateHead(r)
  \/ readFirst(r) \/ readSecond(r) \/ verify(r)

-----------------------------------------------------------------------------
BufferNext ==
  \/ beginPush \/ finishPush
  \/ \E r \in Readers, n \in 0 .. m_capacity : snapshot(r, n)
  \/ \E r \in Readers : continueSnapshot(r)

BufferSpec == BufferInit /\ [][BufferNext]_bufferVars

\* A push that began ends, and a reader goes on; nothing has to be pushed.
FairBufferSpec ==
  /\ BufferSpec
  /\ WF_bufferVars(finishPush)
  /\ \A r \in Readers : WF_bufferVars(continueSnapshot(r))

-----------------------------------------------------------------------------
(* Properties                                                              *)

\* The last n candles (all of them for n = 0) a ring holds after p pushes.
Window(p, n) ==
  LET held == IF p < m_capacity THEN p ELSE m_capacity
      size == IF n = 0 \/ n > held THEN held ELSE n
  IN  [i \in 1 .. size |-> p - size + i]

\* A snapshot is whole: its candles are untorn, consecutive and in order, and
\* they are the last ones of the moment the snapshot began, however many pushes
\* and wrap-arounds of the ring ran into the copying.
SnapshotsAreConsistent ==
  \A r \in Readers : at(r, "returned") =>
    LET window == Window(reader[r].seq1 \div 2, reader[r].n)
    IN  reader[r].result = [i \in DOMAIN window |-> <<window[i], window[i]>>]

\* A snapshot returns when the writer pauses: no reader spins for ever.
SnapshotsReturn == \A r \in Readers : at(r, "begin") ~> at(r, "returned")

=============================================================================
