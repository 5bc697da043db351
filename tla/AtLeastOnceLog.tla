--------------------------- MODULE AtLeastOnceLog ---------------------------
(***************************************************************************)
(* What a worker that tails a log file and keeps a checkpoint promises: a  *)
(* line may be handed over any number of times and in any order, but a     *)
(* checkpoint is not put beyond a line that was not handed over, and every *)
(* line is handed over in the end.  The log forwarder and the ingester are *)
(* written to this promise, each with its own checkpoint store; events     *)
(* they do not defend against (the file is truncated under the reader)     *)
(* end it.                                                                 *)
(***************************************************************************)
EXTENDS Naturals

CONSTANT MaxLines      \* bound: lines written

VARIABLES
    written,      \* lines written to the log so far
    delivered,    \* the lines that were handed over at least once
    checkpoint,   \* a restarted reader goes on behind this line
    intact,       \* nothing has ended the promise
    alive         \* the worker runs, or something restarts it

vars == <<written, delivered, checkpoint, intact, alive>>

Init ==
    /\ written = 0
    /\ delivered = {}
    /\ checkpoint = 0
    /\ intact = TRUE
    /\ alive = TRUE

\* A line is written; one with nothing to hand over counts as delivered.
Write ==
    /\ written < MaxLines
    /\ written' = written + 1
    /\ delivered' \in {delivered, delivered \cup {written'}}
    /\ intact' \in {intact, FALSE}
    /\ UNCHANGED <<checkpoint, alive>>

\* Lines are handed over, the checkpoint moves (back, too), or both at once; the
\* worker may end here, or somebody start it again.
Advance ==
    /\ \E S \in SUBSET (1..written) : delivered' = delivered \cup S
    /\ \E n \in 0..written : 1..n \subseteq delivered' /\ checkpoint' = n
    /\ alive' \in BOOLEAN
    /\ UNCHANGED <<written, intact>>

\* The promise has ended, or ends.
Broken ==
    /\ intact' = FALSE
    /\ alive' \in BOOLEAN
    /\ UNCHANGED written
    /\ \E S \in SUBSET (1..written) : delivered' = delivered \cup S
    /\ checkpoint' \in Nat

Deliver(n) ==
    /\ intact /\ alive
    /\ n \in (1..written) \ delivered
    /\ delivered' = delivered \cup {n}
    /\ UNCHANGED <<written, checkpoint, intact, alive>>

Next == Write \/ Advance \/ Broken \/ \E n \in 1..written : Deliver(n)

\* The promise without its progress: what every prefix of a behaviour keeps.
Safety == Init /\ [][Next]_vars

Spec == Safety /\ \A n \in 1..MaxLines : WF_vars(Deliver(n))
=============================================================================
