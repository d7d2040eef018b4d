------------------------------- MODULE Leases -------------------------------
(***************************************************************************)
(* Memory leases (query/resources.rs): the workers of an execution share   *)
(* one atomic counter of used bytes and its limit.  A lease is owned by    *)
(* one worker; it is reserved, grown, shrunk, split, merged and dropped.   *)
(* Every atomic access of the counter is a step of its own, so that the    *)
(* steps of two workers interleave between the read and the exchange of    *)
(* acquire and between an exchange and the lease that records it.          *)
(***************************************************************************)
EXTENDS Integers, FiniteSets, FiniteSetsExt

CONSTANTS
    Workers,      \* threads
    Executions,   \* each with a QueryResources of its own
    Limit,        \* the memory limit of every execution
    Width,        \* the counter is a number below Width (2^64 in the code)
    Amounts,      \* bytes an operation asks for
    MaxLeases     \* bound: leases alive at a time

VARIABLES
    used, peak,   \* the atomics of each execution
    leases,       \* id -> [owner, execution, bytes]; NoLease when free
    step          \* what each worker is doing

vars == <<used, peak, leases, step>>

Ids == 1 .. MaxLeases

NoLease == [owner |-> "none", execution |-> "none", bytes |-> 0]

Idle == [at |-> "idle", execution |-> "none", lease |-> 0, bytes |-> 0, seen |-> 0]

Free == {i \in Ids : leases[i] = NoLease}

\* A free id that no worker is about to fill.
Unclaimed == Free \ {step[w].lease : w \in Workers}

Mine(w) == {i \in Ids : leases[i].owner = w}

Init ==
    /\ used = [e \in Executions |-> 0] /\ peak = [e \in Executions |-> 0]
    /\ leases = [i \in Ids |-> NoLease]
    /\ step = [w \in Workers |-> Idle]

Go(w, at, execution, lease, bytes, seen) ==
    step' = [step EXCEPT ![w] = [at |-> at, execution |-> execution, lease |-> lease,
                                 bytes |-> bytes, seen |-> seen]]

Return(w) == step' = [step EXCEPT ![w] = Idle]

-----------------------------------------------------------------------------
\* acquire reads the counter, for a new lease or for one that grows.
Reserve(w, e, bytes) ==
    /\ step[w].at = "idle" /\ Unclaimed # {}
    /\ Go(w, "acquire", e, Min(Unclaimed), bytes, used[e])
    /\ UNCHANGED <<used, peak, leases>>

Grow(w, i, bytes) ==
    /\ step[w].at = "idle" /\ i \in Mine(w)
    /\ leases[i].bytes + bytes < Width
    /\ Go(w, "acquire", leases[i].execution, i, bytes, used[leases[i].execution])
    /\ UNCHANGED <<used, peak, leases>>

\* The sum overflows or exceeds the limit: an error, nothing was acquired.
Refuse(w) ==
    /\ step[w].at = "acquire"
    /\ step[w].seen + step[w].bytes >= Width \/ step[w].seen + step[w].bytes > Limit
    /\ Return(w)
    /\ UNCHANGED <<used, peak, leases>>

MayExchange(w) == step[w].seen + step[w].bytes <= Limit

\* compare_exchange_weak: it fails, also spuriously, and reads the counter again.
ExchangeFails(w) ==
    /\ step[w].at = "acquire" /\ MayExchange(w)
    /\ Go(w, "acquire", step[w].execution, step[w].lease, step[w].bytes, used[step[w].execution])
    /\ UNCHANGED <<used, peak, leases>>

\* A change of Exchange that LimitIsShared notices.
AddBlind(w) ==
    LET e == step[w].execution IN
    /\ step[w].at = "acquire" /\ MayExchange(w)
    /\ used' = [used EXCEPT ![e] = @ + step[w].bytes]
    /\ Go(w, "peak", e, step[w].lease, step[w].bytes, step[w].seen + step[w].bytes)
    /\ UNCHANGED <<peak, leases>>

Exchange(w) ==
    LET e == step[w].execution IN
    /\ step[w].at = "acquire" /\ MayExchange(w) /\ used[e] = step[w].seen
    /\ used' = [used EXCEPT ![e] = @ + step[w].bytes]
    /\ Go(w, "peak", e, step[w].lease, step[w].bytes, step[w].seen + step[w].bytes)
    /\ UNCHANGED <<peak, leases>>

\* peak.fetch_max, then the lease records its bytes.
RecordAcquired(w) ==
    LET e == step[w].execution
        i == step[w].lease
    IN  /\ step[w].at = "peak"
        /\ peak' = [peak EXCEPT ![e] = Max({@, step[w].seen})]
        /\ leases' = [leases EXCEPT ![i] = [owner |-> w, execution |-> e,
                                            bytes |-> @.bytes + step[w].bytes]]
        /\ Return(w)
        /\ UNCHANGED used

\* resize to fewer bytes, or drop: the counter first, then the lease.
Release(w, i, bytes) ==
    /\ step[w].at = "idle" /\ i \in Mine(w) /\ bytes <= leases[i].bytes
    /\ used' = [used EXCEPT ![leases[i].execution] = @ - bytes]
    /\ Go(w, "released", leases[i].execution, i, bytes, 0)
    /\ UNCHANGED <<peak, leases>>

RecordReleased(w) ==
    LET i == step[w].lease IN
    /\ step[w].at = "released"
    /\ \/ leases' = [leases EXCEPT ![i].bytes = @ - step[w].bytes]
       \/ leases[i].bytes = step[w].bytes /\ leases' = [leases EXCEPT ![i] = NoLease]
    /\ Return(w)
    /\ UNCHANGED <<used, peak>>

\* split: part of a claim moves to a lease of its own, the counter stays.
Split(w, i, bytes) ==
    /\ step[w].at = "idle" /\ i \in Mine(w) /\ Unclaimed # {} /\ bytes <= leases[i].bytes
    /\ leases' = [leases EXCEPT ![i].bytes = @ - bytes,
                                ![Min(Unclaimed)] = [leases[i] EXCEPT !.bytes = bytes]]
    /\ UNCHANGED <<used, peak, step>>

\* merge: the claim of j moves to i; a claim of another execution is refused,
\* and the refused lease is dropped.
Merge(w, i, j) ==
    /\ step[w].at = "idle" /\ i \in Mine(w) /\ j \in Mine(w) /\ i # j
    /\ leases[i].execution = leases[j].execution
    /\ leases' = [leases EXCEPT ![i].bytes = @ + leases[j].bytes, ![j] = NoLease]
    /\ UNCHANGED <<used, peak, step>>

MergeRefused(w, i, j) ==
    /\ i \in Mine(w) /\ j \in Mine(w)
    /\ leases[i].execution # leases[j].execution
    /\ Release(w, j, leases[j].bytes)

\* A lease moves to another worker with the allocation it accounts for.
HandOver(w, i, v) ==
    /\ step[w].at = "idle" /\ i \in Mine(w) /\ v # w
    /\ leases' = [leases EXCEPT ![i].owner = v]
    /\ UNCHANGED <<used, peak, step>>

Next == \E w \in Workers :
    \/ \E e \in Executions, n \in Amounts : Reserve(w, e, n)
    \/ \E i \in Ids, n \in Amounts : Grow(w, i, n) \/ Release(w, i, n) \/ Split(w, i, n)
    \/ \E i \in Ids : Release(w, i, leases[i].bytes)
    \/ Refuse(w) \/ ExchangeFails(w) \/ Exchange(w)
    \/ RecordAcquired(w) \/ RecordReleased(w)
    \/ \E i, j \in Ids : Merge(w, i, j) \/ MergeRefused(w, i, j)
    \/ \E i \in Ids, v \in Workers : HandOver(w, i, v)

Spec == Init /\ [][Next]_vars

-----------------------------------------------------------------------------

Sum(f(_), S) == MapThenSumSet(f, S)

HeldBy(e) == LET Bytes(i) == leases[i].bytes
             IN  Sum(Bytes, {i \in Ids : leases[i].execution = e})

Pending(e, at) == LET Bytes(w) == step[w].bytes
                  IN  Sum(Bytes, {w \in Workers : step[w].at = at /\ step[w].execution = e})

(* No update is lost between concurrent workers: the counter is the bytes of *)
(* the leases, plus what was acquired and is not yet recorded, minus what    *)
(* was released and is not yet recorded (acquire, release, split, merge).    *)
UsedIsHeld == \A e \in Executions :
    used[e] = HeldBy(e) + Pending(e, "peak") - Pending(e, "released")

(* Together the leases of an execution never exceed its limit, and the peak  *)
(* is a value the counter really had: at least the bytes now recorded.       *)
LimitIsShared == \A e \in Executions :
    /\ used[e] <= Limit /\ peak[e] <= Limit
    /\ HeldBy(e) - Pending(e, "released") <= peak[e]

=============================================================================
