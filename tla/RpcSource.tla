------------------------------ MODULE RpcSource ------------------------------
(***************************************************************************)
(* One RpcLogSource (crates/source/src/client.rs) and the fetch_range      *)
(* calls that run on it concurrently: the adaptive getLogs of              *)
(* fetch_records (density-sized spans, halved on an overflow), the batched *)
(* block and receipt lookups of fetch_aux, and what every request goes     *)
(* through: with_retry, the compute-unit and request buckets of the        *)
(* limiter, and the meter of the spend ledger; and the calls the ingest    *)
(* loop makes on the same source between two windows (head, block_hash and *)
(* subscribe), when it has no fetch under way.                             *)
(*                                                                         *)
(* A request is a record of `calls`.  It first draws `need` compute units, *)
(* then one permit per sub-call; with both at 0 it has been metered and    *)
(* sent, and the provider answers.  Requests of several fetches, and the   *)
(* batches of one fetch, interleave at every draw.                         *)
(*                                                                         *)
(* A log is <<block, position>>.  A range that fails with an error is      *)
(* retried by the caller of fetch_range from the start (Pipeline).         *)
(***************************************************************************)
EXTENDS Pricing, FiniteSets, Sequences

CONSTANTS
    Fetches,        \* the concurrent fetch_range calls
    RangeOf,        \* RangeOf[f]: [lo, hi], the range f fetches
    LogCount,       \* LogCount[b]: matching logs in block b
    ProviderCap,    \* the provider never returns more logs than this in a page;
                    \* 0: it never cuts off or refuses a page
    NodeKinds,      \* source kinds (price lists) that are tried
    max_getlogs_blocks, max_batch, max_rps,      \* the PlanProfile
    max_getlogs_results, max_cu_per_sec,         \* ... where 0 is no cap
    aux_concurrency,
    Attempts,       \* tries of with_retry (6 in the code)
    MaxFaults,      \* bound: transport errors
    MaxPolls        \* bound: calls of the ingest loop between windows

Blocks == DOMAIN LogCount

ASSUME PlanAssumption ==
    /\ \A f \in Fetches : RangeOf[f].lo \in Nat /\ RangeOf[f].hi \in Nat
    /\ \A f \in Fetches : RangeOf[f].lo .. RangeOf[f].hi \subseteq Blocks
    /\ LogCount \in [Blocks -> Nat]
    /\ {max_getlogs_blocks, max_rps, max_batch, aux_concurrency, Attempts} \subseteq Nat \ {0}
    /\ {ProviderCap, max_getlogs_results, max_cu_per_sec, MaxFaults, MaxPolls} \subseteq Nat
    /\ ProviderCap > 0 => max_getlogs_results \in 1 .. ProviderCap
    /\ NodeKinds \subseteq DOMAIN unit_price

VARIABLES
    pc,        \* pc[f]: "idle", "records", "aux", "ok" or "err"
    pending,   \* pending[f]: the work stack of fetch_records, top last
    logs,      \* logs[f]: the logs of the clean pages
    todo,      \* todo[f]: chunks of the two batched lookups that have not started
    aux,       \* aux[f]: heights and tx ids answered, and those answered with null
    calls,     \* the requests in flight
    poll,      \* the head or block_hash call the ingest loop is waiting for
    cu, rps,   \* tokens in the two buckets of the limiter
    density_milli,
    kind,      \* the source kind, which fixes the cost model
    ledger,    \* the SpendLedger
    drawn,     \* history: compute units drawn from the bucket
    sent,      \* history: requests handed to the provider
    polls,     \* head and block_hash calls so far
    subs,      \* subscriptions so far (with polls bounded by MaxPolls)
    faults     \* transport errors so far (bounded by MaxFaults)

fetch == <<pc, pending, logs, todo, aux>>
limiter == <<cu, rps, drawn>>
spend == <<kind, ledger, sent>>
loop == <<poll, polls, subs>>
vars == <<fetch, calls, limiter, spend, density_milli, faults, loop>>

NoPoll == [method |-> "none", need |-> 0]
NoAux == [blocks |-> {}, receipts |-> {}, nulls |-> {}]

Init ==
    /\ pc = [f \in Fetches |-> "idle"]
    /\ pending = [f \in Fetches |-> <<>>]
    /\ logs = [f \in Fetches |-> {}]
    /\ todo = [f \in Fetches |-> {}]
    /\ aux = [f \in Fetches |-> NoAux]
    /\ calls = {}
    /\ cu = max_cu_per_sec /\ rps = max_rps
    /\ density_milli = 0
    /\ kind \in NodeKinds /\ ledger = EmptyLedger
    /\ drawn = 0 /\ sent = 0 /\ faults = 0
    /\ poll = NoPoll /\ polls = 0 /\ subs = 0

-----------------------------------------------------------------------------
(* Requests: with_retry around acquire_cu, acquire and enter.              *)

MethodOf == [logs |-> "GetLogs", blocks |-> "BlockByNumber", receipts |-> "Receipt"]

\* The priced call of a request: one getLogs, or a batch of items.
CallOf(what, items) ==
    RpcCall(MethodOf[what], IF what = "logs" THEN 1 ELSE Cardinality(items))

\* What acquire_cu draws for a call: nothing without a CU cap, else at least 1.
DrawFor(call) == IF max_cu_per_sec = 0 THEN 0 ELSE Greater(units_of(kind, call), 1)

\* A sub-burst of what is still needed: at most what the bucket holds.
Burst(need) == IF need <= max_cu_per_sec THEN need ELSE max_cu_per_sec

\* A first try, or a retry, of a request: nothing has been drawn for it yet.
Request(f, what, lo, hi, items, attempt) ==
    [f |-> f, what |-> what, lo |-> lo, hi |-> hi, items |-> items, attempt |-> attempt,
     need |-> DrawFor(CallOf(what, items)), permits |-> CallOf(what, items).count]

Retry(k) == Request(k.f, k.what, k.lo, k.hi, k.items, k.attempt + 1)

CallsOf(f) == {k \in calls : k.f = f}
InFlight(f, what) == {k \in calls : k.f = f /\ k.what = what}

Sent(k) == k.need = 0 /\ k.permits = 0

\* Faulty variant of acquire_cu: the whole cost is asked of the bucket at once.
\* until_n_ready refuses more than the burst with an error that is ignored.
acquire_cu_whole(k) ==
    /\ k.need > 0
    /\ k.need <= max_cu_per_sec => cu >= k.need
    /\ cu' = IF k.need <= max_cu_per_sec THEN cu - k.need ELSE cu
    /\ drawn' = IF k.need <= max_cu_per_sec THEN drawn + k.need ELSE drawn
    /\ calls' = (calls \ {k}) \cup {[k EXCEPT !.need = 0]}
    /\ UNCHANGED <<fetch, rps, spend, density_milli, faults, loop>>

\* Faulty variant of acquire_cu: it waits until the bucket holds the whole cost.
acquire_cu_waits(k) ==
    /\ k.need > 0 /\ cu >= k.need
    /\ cu' = cu - k.need
    /\ drawn' = drawn + k.need
    /\ calls' = (calls \ {k}) \cup {[k EXCEPT !.need = 0]}
    /\ UNCHANGED <<fetch, rps, spend, density_milli, faults, loop>>

\* One iteration of the loop of acquire_cu.
acquire_cu(k) ==
    /\ k.need > 0
    /\ LET take == Burst(k.need)
       IN  /\ cu >= take
           /\ cu' = cu - take
           /\ drawn' = drawn + take
           /\ calls' = (calls \ {k}) \cup {[k EXCEPT !.need = @ - take]}
    /\ UNCHANGED <<fetch, rps, spend, density_milli, faults, loop>>

\* A call is metered, whatever comes of it, and handed to the provider.
meter(call) ==
    /\ ledger' = record(ledger, cost(kind, call))
    /\ sent' = sent + 1

enter(k) == meter(CallOf(k.what, k.items))

\* One request permit; with the last one the request is sent.
acquire(k) ==
    /\ k.need = 0 /\ k.permits > 0
    /\ rps > 0
    /\ rps' = rps - 1
    /\ calls' = (calls \ {k}) \cup {[k EXCEPT !.permits = @ - 1]}
    /\ IF k.permits = 1 THEN enter(k) ELSE UNCHANGED <<ledger, sent>>
    /\ UNCHANGED <<fetch, cu, drawn, kind, density_milli, faults, loop>>

\* A second passes and both buckets are full again.
Refill ==
    /\ cu < max_cu_per_sec \/ rps < max_rps
    /\ cu' = max_cu_per_sec /\ rps' = max_rps
    /\ UNCHANGED <<fetch, calls, drawn, spend, density_milli, faults, loop>>

\* `?` out of the fetch: its other requests are dropped with their futures.
Abort(f) ==
    /\ pc' = [pc EXCEPT ![f] = "err"]
    /\ calls' = calls \ CallsOf(f)
    /\ pending' = [pending EXCEPT ![f] = <<>>]
    /\ todo' = [todo EXCEPT ![f] = {}]
    /\ UNCHANGED <<logs, aux>>

\* A transport error.  Transient ones are retried until the tries are used up.
TransportError(k) ==
    /\ Sent(k)
    /\ faults < MaxFaults
    /\ faults' = faults + 1
    /\ \E transient \in BOOLEAN :
          IF transient /\ k.attempt < Attempts - 1
            THEN calls' = (calls \ {k}) \cup {Retry(k)} /\ UNCHANGED fetch
            ELSE Abort(k.f)
    /\ UNCHANGED <<limiter, spend, density_milli, loop>>

-----------------------------------------------------------------------------
(* fetch_records.                                                          *)

LogsIn(lo, hi) == UNION {{<<b, i>> : i \in 1 .. LogCount[b]} : b \in lo .. hi}

suggested_span ==
    IF max_getlogs_results = 0 \/ density_milli = 0 THEN max_getlogs_blocks
    ELSE LET span == Greater((max_getlogs_results * 800) \div density_milli, 1)
         IN  IF span <= max_getlogs_blocks THEN span ELSE max_getlogs_blocks

record_density(blocks, found) ==
    LET sample == (found * 1000) \div blocks
    IN  density_milli' = IF density_milli = 0 THEN sample ELSE (density_milli * 7 + sample) \div 8

\* The seeded stack: sub-spans of `span` blocks, the last one cut off at hi,
\* reversed so that the lowest is on top.
Seeds(lo, hi, span) ==
    LET n == IF lo <= hi THEN ((hi - lo) \div span) + 1 ELSE 0
        start(i) == lo + (n - i) * span
    IN  [i \in 1 .. n |->
           [lo |-> start(i),
            hi |-> IF start(i) + span - 1 <= hi THEN start(i) + span - 1 ELSE hi]]

fetch_range(f) ==
    /\ pc[f] = "idle" /\ poll = NoPoll
    /\ pc' = [pc EXCEPT ![f] = "records"]
    /\ pending' = [pending EXCEPT ![f] = Seeds(RangeOf[f].lo, RangeOf[f].hi, suggested_span)]
    /\ UNCHANGED <<logs, todo, aux, calls, limiter, spend, density_milli, faults, loop>>

PopSpan(f) ==
    /\ pc[f] = "records" /\ CallsOf(f) = {}
    /\ pending[f] # <<>>
    /\ LET n == Len(pending[f])
           r == pending[f][n]
       IN  /\ pending' = [pending EXCEPT ![f] = SubSeq(@, 1, n - 1)]
           /\ calls' = calls \cup {Request(f, "logs", r.lo, r.hi, {}, 0)}
    /\ UNCHANGED <<pc, logs, todo, aux, limiter, spend, density_milli, faults, loop>>

\* Faulty variant of split_range: the middle is rounded up.
split_range_up(lo, hi) ==
    LET mid == (lo + hi + 1) \div 2
    IN  <<[lo |-> mid + 1, hi |-> hi], [lo |-> lo, hi |-> mid]>>

split_range(lo, hi) ==
    LET mid == lo + ((hi - lo) \div 2)
    IN  <<[lo |-> mid + 1, hi |-> hi], [lo |-> lo, hi |-> mid]>>

\* Overflow: both halves go back on the stack, the lower one on top.
Split(k) ==
    /\ pending' = [pending EXCEPT ![k.f] = @ \o split_range(k.lo, k.hi)]
    /\ calls' = calls \ {k}
    /\ UNCHANGED <<pc, logs, todo, aux>>

Before(l, m) == l[1] < m[1] \/ (l[1] = m[1] /\ l[2] < m[2])

\* What get_logs answers: the logs of the span in order, silently cut off where
\* the page would be larger than the provider returns.
Page(lo, hi) ==
    LET all == LogsIn(lo, hi)
    IN  {l \in all : ProviderCap > 0 => Cardinality({m \in all : Before(m, l)}) < ProviderCap}

\* A page at the cap may be truncated, so it is refetched in halves; a single
\* block cannot be split and its page is taken as it is.
GetLogsPage(k) ==
    /\ k.what = "logs" /\ Sent(k)
    /\ LET page == Page(k.lo, k.hi)
       IN  IF /\ k.lo < k.hi
               /\ max_getlogs_results > 0 /\ Cardinality(page) >= max_getlogs_results
             THEN Split(k) /\ UNCHANGED density_milli
             ELSE /\ record_density(k.hi - k.lo + 1, Cardinality(page))
                  /\ logs' = [logs EXCEPT ![k.f] = @ \cup page]
                  /\ calls' = calls \ {k}
                  /\ UNCHANGED <<pc, pending, todo, aux>>
    /\ UNCHANGED <<limiter, spend, faults, loop>>

\* The provider refuses the span instead.  Some wordings of that refusal also
\* look transient to with_retry ("limit", "query timeout") and are retried
\* until the tries are used up; then is_range_cap_error splits the span.
GetLogsRefused(k) ==
    /\ k.what = "logs" /\ Sent(k)
    /\ ProviderCap > 0 /\ Cardinality(LogsIn(k.lo, k.hi)) > ProviderCap
    /\ \E transient \in BOOLEAN :
          \/ /\ transient /\ k.attempt < Attempts - 1
             /\ calls' = (calls \ {k}) \cup {Retry(k)}
             /\ UNCHANGED fetch
          \/ /\ ~transient \/ k.attempt = Attempts - 1
             /\ IF k.lo < k.hi THEN Split(k) ELSE Abort(k.f)
    /\ UNCHANGED <<limiter, spend, density_milli, faults, loop>>

-----------------------------------------------------------------------------
(* fetch_aux and batched.                                                  *)

\* Two logs of a transaction sit side by side; a tx id is a number.
TxOf(log) == 100 * log[1] + (log[2] + 1) \div 2

heights(f) == {l[1] : l \in logs[f]}
tx_ids(f) == {TxOf(l) : l \in logs[f]}

\* items.chunks(max_batch) of the ordered items.
Chunks(items) ==
    LET rank(x) == Cardinality({y \in items : y < x})
    IN  {{y \in items : rank(y) \div max_batch = rank(x) \div max_batch} : x \in items}

\* Faulty variant of fetch_aux: chunks_exact, the last partial chunk is lost.
fetch_aux_exact(f) ==
    /\ pc[f] = "records" /\ CallsOf(f) = {} /\ pending[f] = <<>>
    /\ IF logs[f] = {}
         THEN pc' = [pc EXCEPT ![f] = "ok"] /\ UNCHANGED todo
         ELSE /\ pc' = [pc EXCEPT ![f] = "aux"]
              /\ todo' = [todo EXCEPT ![f] =
                    {[what |-> "blocks", items |-> c] :
                        c \in {d \in Chunks(heights(f)) : Cardinality(d) = max_batch}} \cup
                    {[what |-> "receipts", items |-> c] : c \in Chunks(tx_ids(f))}]
    /\ UNCHANGED <<pending, logs, aux, calls, limiter, spend, density_milli, faults, loop>>

\* The stack is empty.  Without records there is nothing to look up.
fetch_aux(f) ==
    /\ pc[f] = "records" /\ CallsOf(f) = {} /\ pending[f] = <<>>
    /\ IF logs[f] = {}
         THEN pc' = [pc EXCEPT ![f] = "ok"] /\ UNCHANGED todo
         ELSE /\ pc' = [pc EXCEPT ![f] = "aux"]
              /\ todo' = [todo EXCEPT ![f] =
                    {[what |-> "blocks", items |-> c] : c \in Chunks(heights(f))} \cup
                    {[what |-> "receipts", items |-> c] : c \in Chunks(tx_ids(f))}]
    /\ UNCHANGED <<pending, logs, aux, calls, limiter, spend, density_milli, faults, loop>>

\* buffer_unordered: the next chunk of a lookup starts when fewer than
\* aux_concurrency of its batches are in flight.
batch_chunk(f) ==
    /\ pc[f] = "aux"
    /\ \E d \in todo[f] :
          /\ Cardinality(InFlight(f, d.what)) < aux_concurrency
          /\ \A e \in todo[f] : e.what = d.what =>
                \E x \in d.items : \A y \in e.items : x <= y
          /\ todo' = [todo EXCEPT ![f] = @ \ {d}]
          /\ calls' = calls \cup {Request(f, d.what, 0, 0, d.items, 0)}
    /\ UNCHANGED <<pc, pending, logs, aux, limiter, spend, density_milli, faults, loop>>

\* A batch is answered as a whole; any item of it may come back as null.
BatchAnswer(k) ==
    /\ k.what \in {"blocks", "receipts"} /\ Sent(k)
    /\ \E nulls \in SUBSET k.items :
          /\ Cardinality(nulls) <= MaxFaults - faults
          /\ faults' = faults + Cardinality(nulls)
          /\ aux' = [aux EXCEPT ![k.f][k.what] = @ \cup (k.items \ nulls),
                                ![k.f].nulls = @ \cup nulls]
    /\ calls' = calls \ {k}
    /\ UNCHANGED <<pc, pending, logs, todo, limiter, spend, density_milli, loop>>

\* Both lookups are complete: block_aux fails on a block that was not found,
\* receipt_aux skips a receipt that was not.
AuxDone(f) ==
    /\ pc[f] = "aux" /\ todo[f] = {} /\ CallsOf(f) = {}
    /\ pc' = [pc EXCEPT ![f] = IF aux[f].nulls \cap heights(f) = {} THEN "ok" ELSE "err"]
    /\ UNCHANGED <<pending, logs, todo, aux, calls, limiter, spend, density_milli, faults, loop>>

-----------------------------------------------------------------------------
(* The calls of the ingest loop.  It makes them one at a time and only     *)
(* between windows, when no fetch_range of it is under way.                *)

Between == poll = NoPoll /\ \A f \in Fetches : pc[f] \notin {"records", "aux"}

\* head and block_hash (a retry of block_hash is a further call) wait for the
\* limiter like a request of a fetch ...
PollFor(method) ==
    /\ Between /\ polls + subs < MaxPolls
    /\ poll' = [method |-> method, need |-> DrawFor(RpcCall(method, 1))]
    /\ polls' = polls + 1
    /\ UNCHANGED <<fetch, calls, limiter, spend, density_milli, faults, subs>>

head == PollFor("BlockNumber")
block_hash == PollFor("BlockByNumber")

PollDraw ==
    /\ poll.need > 0 /\ cu >= Burst(poll.need)
    /\ cu' = cu - Burst(poll.need)
    /\ drawn' = drawn + Burst(poll.need)
    /\ poll' = [poll EXCEPT !.need = @ - Burst(poll.need)]
    /\ UNCHANGED <<fetch, calls, rps, spend, density_milli, faults, polls, subs>>

\* ... and are metered and sent with the one permit they need.
PollSend ==
    /\ poll # NoPoll /\ poll.need = 0 /\ rps > 0
    /\ rps' = rps - 1
    /\ meter(RpcCall(poll.method, 1))
    /\ poll' = NoPoll
    /\ UNCHANGED <<fetch, calls, cu, drawn, kind, density_milli, faults, polls, subs>>

\* subscribe meters the subscription and never asks the limiter.
subscribe ==
    /\ Between /\ polls + subs < MaxPolls
    /\ meter(RpcCall("LogSubscription", 1))
    /\ subs' = subs + 1
    /\ UNCHANGED <<fetch, calls, limiter, kind, density_milli, faults, poll, polls>>

-----------------------------------------------------------------------------
RequestStep(k) ==
    \/ acquire_cu(k) \/ acquire(k)
    \/ GetLogsPage(k) \/ GetLogsRefused(k) \/ BatchAnswer(k)

FetchStep(f) ==
    \/ fetch_range(f) \/ PopSpan(f)
    \/ fetch_aux(f) \/ batch_chunk(f) \/ AuxDone(f)

Next ==
    \/ \E f \in Fetches : FetchStep(f)
    \/ \E k \in calls : RequestStep(k) \/ TransportError(k)
    \/ head \/ block_hash \/ PollDraw \/ PollSend \/ subscribe
    \/ Refill

Spec == Init /\ [][Next]_vars

\* The fetches of a pipeline and the loop are polled until they end, tokens come back with
\* time, and the provider answers every request it was sent; nothing obliges a
\* transport error to happen.
Fairness ==
    /\ \A f \in Fetches : WF_vars(FetchStep(f))
    /\ \A f \in Fetches : WF_vars(\E k \in CallsOf(f) : RequestStep(k))
    /\ WF_vars(PollDraw \/ PollSend)
    /\ WF_vars(Refill)

FairSpec == Spec /\ Fairness

-----------------------------------------------------------------------------
\* The lowest block of f's range that is still to be fetched, in order.
Frontier(f) ==
    IF InFlight(f, "logs") # {} THEN (CHOOSE k \in InFlight(f, "logs") : TRUE).lo
    ELSE IF pending[f] # <<>> THEN pending[f][Len(pending[f])].lo
    ELSE RangeOf[f].hi + 1

\* Everything below block b is there: whole, unless a single block overflows
\* the provider's page, and then at least what the provider gave of it.
WholeBelow(f, b) ==
    /\ \A h \in RangeOf[f].lo .. (b - 1) :
          ProviderCap = 0 \/ LogCount[h] <= ProviderCap => LogsIn(h, h) \subseteq logs[f]
    /\ logs[f] \subseteq LogsIn(RangeOf[f].lo, b - 1)

\* fetch_records walks its range upwards whatever is split and retried: below
\* the lowest span in hand every log has been taken, above it none, and the
\* spans on the stack follow each other without overlap or gap.  No log is
\* lost or taken twice by an overflow, a truncated page or a retry.
WalksUpwards ==
    \A f \in Fetches : pc[f] = "records" =>
        LET spans == pending[f] \o
                (IF InFlight(f, "logs") = {} THEN <<>>
                 ELSE LET k == CHOOSE k \in InFlight(f, "logs") : TRUE
                      IN  <<[lo |-> k.lo, hi |-> k.hi]>>)
        IN  /\ WholeBelow(f, Frontier(f))
            /\ spans # <<>> => spans[1].hi = RangeOf[f].hi
            /\ \A i \in DOMAIN spans : spans[i].lo <= spans[i].hi
            /\ \A i \in 1 .. Len(spans) - 1 : spans[i].lo = spans[i + 1].hi + 1

\* A fetch_range that returns Ok has every log of its range, the header of
\* every block with a log, and the receipt of every transaction except those
\* the provider does not have; batches that finish out of order lose nothing.
OkIsComplete ==
    \A f \in Fetches : pc[f] = "ok" =>
        /\ WholeBelow(f, RangeOf[f].hi + 1)
        /\ aux[f].blocks = heights(f)
        /\ aux[f].receipts \cup aux[f].nulls = tx_ids(f)

\* Every compute unit that is metered was first drawn from the bucket, also for
\* a call that costs more than the bucket holds and for every retry, except the
\* units of the subscriptions, which subscribe meters without asking the
\* limiter: the spend runs ahead of max_cu_per_sec by those and nothing else.
Paced ==
    max_cu_per_sec > 0 =>
        ledger.units <= drawn + subs * units_of(kind, RpcCall("LogSubscription", 1))

\* The two money figures of the ledger agree up to the rounding of each call:
\* what is recorded call by call is never more than the price of all units,
\* and less than one micro-USD per request below it.
MoneyAgrees ==
    LET billable == billable_micro_usd(ledger, NoQuota, rate[kind])
    IN  ledger.micro_usd <= billable /\ billable <= ledger.micro_usd + sent

\* Every fetch_range ends, however much its calls cost and however often they
\* are split or retried: no draw from a bucket waits forever.
FetchEnds == \A f \in Fetches : pc[f] = "idle" ~> pc[f] \in {"ok", "err"}

=============================================================================
