---------------------------- MODULE RingChannels ----------------------------
(***************************************************************************)
(* What a raw io_uring ring promises the workload that drives it: requests *)
(* travel through a bounded FIFO submission channel, are in flight inside  *)
(* the kernel, and come back, once each and in any order, through a bounded*)
(* FIFO completion channel.  RawRing, with its wrapping indices and slots, *)
(* is shown to implement this.                                             *)
(***************************************************************************)
EXTENDS Naturals, Sequences, FiniteSets

CONSTANTS
    Reqs,        \* the user_data values of requests
    SqEntries,   \* capacity of the submission channel
    CqEntries    \* capacity of the completion channel

VARIABLES
    submitted,   \* sequence of requests published, not taken by the kernel
    inFlight,    \* set of requests the kernel has taken and not completed
    completed    \* sequence of completions posted, not released by the user

vars == <<submitted, inFlight, completed>>

Init == submitted = <<>> /\ inFlight = {} /\ completed = <<>>

Somewhere == {submitted[i] : i \in DOMAIN submitted} \cup inFlight
                \cup {completed[i] : i \in DOMAIN completed}

\* A request enters the system only when it is nowhere in it.
Publish(r) ==
    /\ r \notin Somewhere
    /\ Len(submitted) < SqEntries
    /\ submitted' = Append(submitted, r)
    /\ UNCHANGED <<inFlight, completed>>

Take ==
    /\ submitted # <<>>
    /\ submitted' = Tail(submitted)
    /\ inFlight' = inFlight \cup {Head(submitted)}
    /\ UNCHANGED completed

Complete(r) ==
    /\ r \in inFlight
    /\ Len(completed) < CqEntries
    /\ inFlight' = inFlight \ {r}
    /\ completed' = Append(completed, r)
    /\ UNCHANGED submitted

\* The user releases the n oldest completions at once.
Release(n) ==
    /\ n \in 1..Len(completed)
    /\ completed' = SubSeq(completed, n + 1, Len(completed))
    /\ UNCHANGED <<submitted, inFlight>>

Next ==
    \/ \E r \in Reqs : Publish(r) \/ Complete(r)
    \/ Take
    \/ \E n \in 1..CqEntries : Release(n)

Spec == Init /\ [][Next]_vars
=============================================================================
