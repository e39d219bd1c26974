---------------------------- MODULE ResultStream ----------------------------
(***************************************************************************)
(* generateResults (server-common, MySQLUtil.ts): an async generator over  *)
(* the rows of a query.  The driver calls back for each row and settles a  *)
(* promise when it has passed them all; the generator waits on a promise   *)
(* of its own for each row, and hands the rows to whoever iterates.        *)
(*                                                                         *)
(* Rows are numbered in the order in which the driver passes them.  The    *)
(* callbacks of the driver, the handler of its promise, the generator and  *)
(* the consumer run one at a time, in any order that the event loop may    *)
(* choose.                                                                 *)
(***************************************************************************)
EXTENDS Naturals, Sequences

CONSTANTS
    Rows,      \* how many rows the query has
    MayReject, \* may the query be rejected on the way?
    MayStop    \* may the consumer leave before the last row?

ASSUME RowsOK == Rows \in Nat
ASSUME SwitchesOK == MayReject \in BOOLEAN /\ MayStop \in BOOLEAN

VARIABLES
    query,    \* the driver's promise
    passed,   \* how many rows the driver has passed
    queue,    \* results.queue
    waits,    \* is results.callback set?
    promise,  \* the generator's promise: Open, Refused, or the row it carries
    done,     \* the flag that ends the loop
    at,       \* where the generator is
    got       \* the rows that the consumer has received

vars == <<query, passed, queue, waits, promise, done, at, got>>

Open == 0
Refused == Rows + 1
Places == {"loop", "wait", "yield", "end", "finished", "thrown", "stopped", "crashed"}
Over == {"finished", "thrown", "stopped", "crashed"}

Init ==
    /\ query = "running" /\ passed = 0
    /\ queue = <<>> /\ waits = FALSE /\ promise = Open /\ done = FALSE
    /\ at = "loop" /\ got = <<>>

-----------------------------------------------------------------------------
(* The driver *)

\* The driver calls back for each row.
RowLeft == passed < Rows

\* execute: a generator that waits gets the row at the front of the queue q.
Execute(q) ==
    IF waits
    THEN promise' = Head(q) /\ queue' = Tail(q) /\ waits' = FALSE
    ELSE queue' = q /\ UNCHANGED <<promise, waits>>

\* push: the next row goes to the back of the queue.
Push ==
    /\ at # "crashed"
    /\ query = "running" /\ RowLeft
    /\ passed' = passed + 1
    /\ Execute(Append(queue, passed + 1))
    /\ UNCHANGED <<query, done, at, got>>

\* The query has passed its last row.
Fulfil ==
    /\ at # "crashed"
    /\ query = "running" /\ passed = Rows
    /\ query' = "fulfilled"
    /\ UNCHANGED <<passed, queue, waits, promise, done, at, got>>

\* Slip: a generator that waits is left waiting.
FinishQuietly ==
    /\ query = "fulfilled" /\ ~done
    /\ query' = "handled"
    /\ done' = TRUE
    /\ UNCHANGED <<passed, queue, waits, promise, at, got>>

\* The handler of the fulfilled promise: done, and finish refuses whoever waits.
Finish ==
    /\ query = "fulfilled"
    /\ query' = "handled"
    /\ done' = TRUE
    /\ promise' = IF waits THEN Refused ELSE promise
    /\ UNCHANGED <<passed, queue, waits, at, got>>

\* The query is rejected.  Its promise is awaited only after the loop, which
\* ends when it has been fulfilled; so nothing handles the rejection, and the
\* process ends (index.ts throws on unhandledRejection).
Reject ==
    /\ MayReject
    /\ at # "crashed"
    /\ query = "running"
    /\ query' = "rejected"
    /\ at' = IF at = "end" THEN "end" ELSE "crashed"
    /\ UNCHANGED <<passed, queue, waits, promise, done, got>>

-----------------------------------------------------------------------------
(* The generator *)

\* Slip: the loop ends with the query, whatever is in the queue.
RowsToCome == ~done

\* The condition of the loop.
MoreToCome == ~done \/ queue # <<>>

\* The row at the front of the queue.
NextFirst == promise' = Head(queue) /\ queue' = Tail(queue)

\* doCallback: the row at the front of the queue, or a callback to wait for one.
Ask ==
    /\ at = "loop" /\ MoreToCome
    /\ at' = "wait"
    /\ IF queue # <<>>
       THEN NextFirst /\ waits' = waits
       ELSE promise' = Open /\ waits' = TRUE /\ queue' = queue
    /\ UNCHANGED <<query, passed, done, got>>

\* The promise has a row, which is yielded.
Yield ==
    /\ at = "wait" /\ promise \notin {Open, Refused}
    /\ at' = "yield"
    /\ got' = Append(got, promise)
    /\ UNCHANGED <<query, passed, queue, waits, promise, done>>

\* The promise is refused, which is caught.
Caught ==
    /\ at = "wait" /\ promise = Refused
    /\ at' = "loop"
    /\ done' = TRUE
    /\ UNCHANGED <<query, passed, queue, waits, promise, got>>

\* The loop is over: the promise of the query is awaited.
Leave ==
    /\ at = "loop" /\ ~MoreToCome
    /\ at' = "end"
    /\ UNCHANGED <<query, passed, queue, waits, promise, done, got>>

\* What the generator makes of the outcome of the query.
Return ==
    /\ at = "end" /\ query \in {"fulfilled", "handled", "rejected"}
    /\ at' = IF query = "rejected" THEN "thrown" ELSE "finished"
    /\ UNCHANGED <<query, passed, queue, waits, promise, done, got>>

-----------------------------------------------------------------------------
(* The consumer: for await, or the iterators of common-lib *)

\* It asks for the next row.
Resume ==
    /\ at = "yield"
    /\ at' = "loop"
    /\ UNCHANGED <<query, passed, queue, waits, promise, done, got>>

\* It has seen enough.
Stop ==
    /\ MayStop
    /\ at = "yield"
    /\ at' = "stopped"
    /\ UNCHANGED <<query, passed, queue, waits, promise, done, got>>

-----------------------------------------------------------------------------

Driver == Push \/ Fulfil \/ Finish
Generator == Ask \/ Yield \/ Caught \/ Leave \/ Return

\* When the query is over the process has other requests to serve.
Rest == query \in {"handled", "rejected"} /\ UNCHANGED vars

Next == Driver \/ Reject \/ Generator \/ Resume \/ Stop \/ Rest

Spec == Init /\ [][Next]_vars

\* The driver passes all its rows, unless the query is rejected; the event loop
\* runs what is due; consumers ask on (for await does nothing else).
FairSpec == Spec /\ WF_vars(Driver) /\ WF_vars(Generator) /\ WF_vars(Resume)

-----------------------------------------------------------------------------

\* Every variable has its type.
TypeOK ==
    /\ query \in {"running", "fulfilled", "handled", "rejected"}
    /\ passed \in 0..Rows
    /\ queue \in Seq(1..Rows)
    /\ waits \in BOOLEAN
    /\ promise \in {Open, Refused} \union 1..Rows
    /\ done \in BOOLEAN
    /\ at \in Places
    /\ got \in Seq(1..Rows)

\* The rows arrive as the driver passed them: none is lost on the way, none
\* comes twice and none overtakes another, whoever is faster.
InOrder == \A i \in 1..Len(got) : got[i] = i

\* A stream that finishes has handed over every row, in the order in which the driver
\* passed them: a query that fails half way is never taken for one that has no more.
FinishedIsComplete == at = "finished" => got = [i \in 1..Rows |-> i]

\* No row is put aside while the generator waits for one.
NoRowWaits == waits /\ promise = Open => queue = <<>>

\* The catch after the loop, meant to pass a failed query on to the consumer, is
\* out of reach: every rejection ends the process instead.
RejectionEndsProcess == query = "rejected" <=> at = "crashed"

\* The stream comes to an end, whichever of driver and consumer is faster.
StreamEnds == <>(at \in Over)
=============================================================================
