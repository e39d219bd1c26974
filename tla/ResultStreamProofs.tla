------------------------- MODULE ResultStreamProofs -------------------------
(***************************************************************************)
(* The rows of a stream arrive in order and complete, for every number of  *)
(* rows.  The inductive invariant says where each row is that the driver   *)
(* has passed: received, in the hand of the generator, or in the queue.    *)
(***************************************************************************)
EXTENDS ResultStream, TLAPS

\* The rows on their way from the queue to the consumer: one at most.
Held == IF at = "wait" /\ promise \in 1..Rows THEN 1 ELSE 0

\* Every row that was passed is in exactly one place, in the order of passing.
RowsPlaced ==
    at # "crashed" =>
        /\ passed = Len(got) + Held + Len(queue)
        /\ Held = 1 => promise = Len(got) + 1
        /\ \A i \in 1..Len(queue) : queue[i] = Len(got) + Held + i

\* What the flags mean: the callback is left only by a generator that waits with
\* nothing in the queue, and done is set when the query has been fulfilled.
Flags ==
    /\ waits => queue = <<>>
    /\ waits /\ query \in {"running", "fulfilled"} => at = "wait" /\ promise = Open
    /\ at = "wait" /\ promise = Open => waits /\ query \in {"running", "fulfilled"}
    /\ at = "wait" /\ promise = Refused => query = "handled" /\ queue = <<>>
    /\ query \in {"fulfilled", "handled"} => passed = Rows
    /\ query = "rejected" <=> at = "crashed"
    /\ done <=> query = "handled"
    /\ at \in {"end", "finished"} => done /\ queue = <<>>
    /\ at # "thrown"

IInv == TypeOK /\ InOrder /\ RowsPlaced /\ Flags

\* Nothing has been passed yet.
LEMMA InitIInv == Init => IInv
<1>. SUFFICES ASSUME Init PROVE IInv
  OBVIOUS
<1>1. <<>> \in Seq(1..Rows) /\ Len(<<>>) = 0
  OBVIOUS
<1>2. TypeOK
  <2>1. passed \in 0..Rows /\ queue \in Seq(1..Rows) /\ got \in Seq(1..Rows)
    BY <1>1, RowsOK DEF Init
  <2>2. waits \in BOOLEAN /\ done \in BOOLEAN
    BY Zenon DEF Init
  <2>3. promise \in {Open, Refused} \union 1..Rows
    BY Zenon DEF Init
  <2>. QED
    BY <2>1, <2>2, <2>3 DEF Init, TypeOK, Places
<1>3. InOrder /\ RowsPlaced
  BY <1>1, RowsOK DEF Init, InOrder, RowsPlaced, Held
<1>4. Flags
  BY DEF Init, Flags
<1>. QED
  BY <1>2, <1>3, <1>4 DEF IInv

\* A new row goes to the generator that waits, or to the end of the queue.
LEMMA PushIInv == IInv /\ Push => IInv'
<1>. SUFFICES ASSUME IInv, Push PROVE IInv'
  OBVIOUS
<1>. USE RowsOK
<1>. DEFINE q == Append(queue, passed + 1)
<1>1. /\ TypeOK /\ InOrder /\ RowsPlaced /\ Flags /\ at # "crashed"
      /\ query = "running" /\ passed + 1 \in 1..Rows /\ passed' = passed + 1
      /\ query' = query /\ done' = done /\ at' = at /\ got' = got
  BY DEF IInv, Push, TypeOK, RowLeft
<1>2. q \in Seq(1..Rows) /\ Len(q) = Len(queue) + 1
  BY <1>1 DEF TypeOK
<1>3. InOrder'
  BY <1>1 DEF InOrder
<1>4. CASE waits
  <2>1. queue = <<>> /\ at = "wait" /\ promise = Open
    BY <1>1, <1>4 DEF Flags
  <2>2. promise' = passed + 1 /\ queue' = <<>> /\ waits' = FALSE
    BY <1>4, <2>1 DEF Push, Execute
  <2>3. TypeOK'
    <3>1. queue' \in Seq(1..Rows)
      BY <2>2
    <3>2. promise' \in {Open, Refused} \union 1..Rows
      BY <1>1, <2>2
    <3>3. waits' \in BOOLEAN
      BY <2>2, Zenon
    <3>4. passed' \in 0..Rows
      BY <1>1 DEF TypeOK
    <3>. QED
      BY <1>1, <3>1, <3>2, <3>3, <3>4, Zenon DEF TypeOK
  <2>4. Held = 0 /\ Held' = 1
    BY <1>1, <2>1, <2>2 DEF Held, Open
  <2>5. RowsPlaced'
    BY <1>1, <2>1, <2>2, <2>4 DEF RowsPlaced, TypeOK
  <2>6. Flags'
    BY <1>1, <2>1, <2>2 DEF Flags, Open, Refused
  <2>. QED
    BY <1>3, <2>3, <2>5, <2>6 DEF IInv
<1>5. CASE ~waits
  <2>1. queue' = q /\ promise' = promise /\ waits' = waits
    BY <1>5 DEF Push, Execute
  <2>2. TypeOK'
    BY <1>1, <1>2, <2>1 DEF TypeOK
  <2>3. Held' = Held /\ Held \in {0, 1}
    BY <1>1, <2>1 DEF Held
  <2>4. passed' = Len(got') + Held' + Len(queue')
    BY <1>1, <1>2, <2>1, <2>3 DEF RowsPlaced, TypeOK
  <2>5. \A i \in 1..Len(queue') : queue'[i] = Len(got') + Held' + i
    BY <1>1, <1>2, <2>1, <2>3 DEF RowsPlaced, TypeOK
  <2>6. RowsPlaced'
    BY <1>1, <2>1, <2>3, <2>4, <2>5 DEF RowsPlaced
  <2>7. Flags'
    BY <1>1, <1>5, <2>1 DEF Flags
  <2>. QED
    BY <1>3, <2>2, <2>6, <2>7 DEF IInv
<1>. QED
  BY <1>4, <1>5

\* Steps of the driver's promise.
LEMMA SettleIInv == IInv /\ (Fulfil \/ Finish \/ Reject) => IInv'
<1>. SUFFICES ASSUME IInv, Fulfil \/ Finish \/ Reject PROVE IInv'
  OBVIOUS
<1>. USE RowsOK
<1>1. TypeOK /\ InOrder /\ RowsPlaced /\ Flags
  BY DEF IInv
<1>2. CASE Fulfil
  BY <1>1, <1>2 DEF Fulfil, IInv, TypeOK, InOrder, RowsPlaced, Held, Flags
<1>3. CASE Finish
  <2>1. TypeOK'
    BY <1>1, <1>3 DEF Finish, TypeOK
  <2>2. Held' = Held
    BY <1>1, <1>3 DEF Finish, Flags, Held, Open, Refused
  <2>3. InOrder' /\ RowsPlaced'
    BY <1>1, <1>3, <2>2 DEF Finish, InOrder, RowsPlaced, Flags, Held, Open, Refused
  <2>4. Flags'
    BY <1>1, <1>3 DEF Finish, Flags, Open, Refused
  <2>. QED
    BY <2>1, <2>3, <2>4 DEF IInv
<1>4. CASE Reject
  <2>1. at' = "crashed"
    BY <1>1, <1>4 DEF Reject, Flags
  <2>2. TypeOK' /\ InOrder'
    BY <1>1, <1>4, <2>1 DEF Reject, TypeOK, InOrder, Places
  <2>3. RowsPlaced' /\ Flags'
    BY <1>1, <1>4, <2>1 DEF Reject, RowsPlaced, Flags
  <2>. QED
    BY <2>2, <2>3 DEF IInv
<1>. QED
  BY <1>2, <1>3, <1>4

\* The generator takes the front row, or waits.
LEMMA AskIInv == IInv /\ Ask => IInv'
<1>. SUFFICES ASSUME IInv, Ask PROVE IInv'
  OBVIOUS
<1>. USE RowsOK
<1>1. /\ TypeOK /\ InOrder /\ RowsPlaced /\ Flags /\ at = "loop" /\ at' = "wait"
      /\ query' = query /\ passed' = passed /\ done' = done /\ got' = got
      /\ MoreToCome
  BY DEF IInv, Ask
<1>2. InOrder' /\ Held = 0
  BY <1>1 DEF InOrder, Held
<1>3. CASE queue # <<>>
  <2>1. promise' = Head(queue) /\ queue' = Tail(queue) /\ waits' = waits
    BY <1>3 DEF Ask, NextFirst
  <2>2. /\ Head(queue) = queue[1] /\ Head(queue) \in 1..Rows
        /\ Tail(queue) \in Seq(1..Rows) /\ Len(queue) \in Nat /\ Len(queue) > 0
        /\ Len(Tail(queue)) = Len(queue) - 1
        /\ \A i \in 1..Len(Tail(queue)) : Tail(queue)[i] = queue[i + 1]
    BY <1>1, <1>3 DEF TypeOK
  <2>3. TypeOK'
    BY <1>1, <2>1, <2>2 DEF TypeOK, Places
  <2>4. Held' = 1
    BY <1>1, <2>1, <2>2 DEF Held
  <2>5. queue[1] = Len(got) + 1
    BY <1>1, <1>2, <2>2 DEF RowsPlaced, TypeOK
  <2>6. passed' = Len(got') + Held' + Len(queue')
    BY <1>1, <1>2, <2>1, <2>2, <2>4 DEF RowsPlaced, TypeOK
  <2>7. \A i \in 1..Len(queue') : queue'[i] = Len(got') + Held' + i
    BY <1>1, <1>2, <2>1, <2>2, <2>4 DEF RowsPlaced, TypeOK
  <2>8. RowsPlaced'
    BY <1>1, <2>1, <2>2, <2>5, <2>6, <2>7 DEF RowsPlaced
  <2>9. Flags'
    BY <1>1, <1>3, <2>1, <2>2 DEF Flags, Open, Refused
  <2>. QED
    BY <1>2, <2>3, <2>8, <2>9 DEF IInv
<1>4. CASE queue = <<>>
  <2>1. promise' = Open /\ queue' = queue /\ waits' = TRUE /\ ~done
    BY <1>1, <1>4 DEF Ask, MoreToCome
  <2>2. TypeOK'
    BY <1>1, <2>1 DEF TypeOK, Places
  <2>3. Held' = 0
    BY <2>1 DEF Held, Open
  <2>4. RowsPlaced'
    BY <1>1, <1>2, <2>1, <2>3 DEF RowsPlaced
  <2>5. query \in {"running", "fulfilled"}
    BY <1>1, <2>1 DEF TypeOK, Flags
  <2>6. Flags'
    BY <1>1, <1>4, <2>1, <2>5 DEF Flags, Open, Refused
  <2>. QED
    BY <1>2, <2>2, <2>4, <2>6 DEF IInv
<1>. QED
  BY <1>3, <1>4

\* The consumer receives the row that is next.
LEMMA YieldIInv == IInv /\ Yield => IInv'
<1>. SUFFICES ASSUME IInv, Yield PROVE IInv'
  OBVIOUS
<1>. USE RowsOK
<1>1. /\ TypeOK /\ InOrder /\ RowsPlaced /\ Flags /\ at = "wait" /\ at' = "yield"
      /\ promise \in 1..Rows /\ got' = Append(got, promise)
      /\ UNCHANGED <<query, passed, queue, waits, promise, done>>
  BY DEF IInv, Yield, TypeOK
<1>2. /\ got' \in Seq(1..Rows) /\ Len(got) \in Nat /\ Len(got') = Len(got) + 1
      /\ got'[Len(got) + 1] = promise /\ \A i \in 1..Len(got) : got'[i] = got[i]
  BY <1>1 DEF TypeOK
<1>3. TypeOK'
  BY <1>1, <1>2 DEF TypeOK, Places
<1>4. Held = 1 /\ Held' = 0
  BY <1>1 DEF Held
<1>5. promise = Len(got) + 1
  BY <1>1, <1>4 DEF RowsPlaced
<1>6. InOrder'
  BY <1>1, <1>2, <1>5 DEF InOrder
<1>7. RowsPlaced'
  BY <1>1, <1>2, <1>4 DEF RowsPlaced, TypeOK
<1>8. Flags'
  BY <1>1 DEF Flags, Open, Refused
<1>. QED
  BY <1>3, <1>6, <1>7, <1>8 DEF IInv

\* Steps that move the generator only.
LEMMA MoveIInv == IInv /\ (Caught \/ Leave \/ Return \/ Resume \/ Stop) => IInv'
<1>. SUFFICES ASSUME IInv, Caught \/ Leave \/ Return \/ Resume \/ Stop PROVE IInv'
  OBVIOUS
<1>. USE RowsOK
<1>1. TypeOK /\ InOrder /\ RowsPlaced /\ Flags
  BY DEF IInv
<1>2. UNCHANGED <<query, passed, queue, waits, promise, got>>
  BY DEF Caught, Leave, Return, Resume, Stop
<1>3. InOrder'
  BY <1>1, <1>2 DEF InOrder
<1>4. TypeOK'
  BY <1>1, <1>2 DEF Caught, Leave, Return, Resume, Stop, TypeOK, Places
<1>5. Held = 0 /\ Held' = 0 /\ at # "crashed"
  BY <1>1 DEF Caught, Leave, Return, Resume, Stop, Held, Refused
<1>6. RowsPlaced'
  BY <1>1, <1>2, <1>5 DEF RowsPlaced
<1>7. Flags'
  <2>1. CASE Caught
    BY <1>1, <1>2, <2>1 DEF Caught, Flags, Refused, Open
  <2>2. CASE Leave
    BY <1>1, <1>2, <2>2 DEF Leave, Flags, MoreToCome
  <2>3. CASE Return
    BY <1>1, <1>2, <2>3 DEF Return, Flags
  <2>4. CASE Resume \/ Stop
    BY <1>1, <1>2, <2>4 DEF Resume, Stop, Flags
  <2>. QED
    BY <2>1, <2>2, <2>3, <2>4
<1>. QED
  BY <1>3, <1>4, <1>6, <1>7 DEF IInv

\* IInv is inductive.
LEMMA NextIInv == IInv /\ [Next]_vars => IInv'
<1>1. IInv /\ UNCHANGED vars => IInv'
  BY DEF vars, IInv, TypeOK, InOrder, RowsPlaced, Held, Flags
<1>. QED
  BY <1>1, PushIInv, SettleIInv, AskIInv, YieldIInv, MoveIInv
     DEF Next, Driver, Generator, Rest

\* Every variable of the stream keeps its type.
THEOREM StreamTyped == Spec => []TypeOK
<1>1. IInv => TypeOK
  BY DEF IInv
<1>. QED
  BY <1>1, InitIInv, NextIInv, PTL DEF Spec

\* However driver, event loop and consumer interleave, the consumer receives
\* the rows as the driver passed them, none lost, doubled or overtaken.
THEOREM StreamInOrder == Spec => []InOrder
<1>1. IInv => InOrder
  BY DEF IInv
<1>. QED
  BY <1>1, InitIInv, NextIInv, PTL DEF Spec

\* A stream that finishes has handed over every row of the query, in order.
THEOREM StreamComplete == Spec => []FinishedIsComplete
<1>1. ASSUME IInv, at = "finished" PROVE got = [i \in 1..Rows |-> i]
  <2>1. at # "crashed" /\ queue = <<>> /\ Held = 0 /\ query # "running"
    BY <1>1 DEF IInv, Flags, Held
  <2>2. passed = Rows
    BY <1>1, <2>1 DEF IInv, TypeOK, Flags
  <2>3. Len(got) = Rows
    BY <1>1, <2>1, <2>2, RowsOK DEF IInv, TypeOK, RowsPlaced
  <2>4. got \in Seq(1..Rows) /\ \A i \in 1..Rows : got[i] = i
    BY <1>1, <2>3 DEF IInv, TypeOK, InOrder
  <2>. QED
    BY <2>3, <2>4
<1>2. IInv => FinishedIsComplete
  BY <1>1 DEF FinishedIsComplete
<1>. QED
  BY <1>2, InitIInv, NextIInv, PTL DEF Spec

\* A rejected query ends the process, wherever the generator is; its catch
\* never runs.
THEOREM RejectionUncaught == Spec => []RejectionEndsProcess
<1>1. IInv => RejectionEndsProcess
  BY DEF IInv, Flags, RejectionEndsProcess
<1>. QED
  BY <1>1, InitIInv, NextIInv, PTL DEF Spec

\* No wake-up is lost: a row is never put aside while the generator waits.
THEOREM WaitingIsIdle == Spec => []NoRowWaits
<1>1. IInv => NoRowWaits
  BY DEF IInv, Flags, NoRowWaits
<1>. QED
  BY <1>1, InitIInv, NextIInv, PTL DEF Spec
=============================================================================
