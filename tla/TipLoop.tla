-------------------------------- MODULE TipLoop --------------------------------
(***************************************************************************)
(* The live-tip loop of one chain: ingest_loop and catch_up                *)
(* (bins/indexer-cli/src/ingest.rs) over the TipState machine              *)
(* (bins/indexer-cli/src/tip.rs), with a chain that grows and a websocket  *)
(* that pushes the logs of new blocks.                                     *)
(*                                                                         *)
(* A fetched window is one step here: that it stores its blocks and leaves *)
(* the cursor at the end of a stored prefix is what Pipeline shows.        *)
(* Reorgs replace unconfirmed blocks only: the probe of block hashes, on a *)
(* `removed` log or every 16th iteration, then finds nothing (it does in   *)
(* Reorg), and reorg_at, which only asks for a probe, is left out.         *)
(***************************************************************************)
EXTENDS RangePlan, Sequences

CONSTANTS
    WsModes,        \* what caps().supports_subscribe may be: is a ws url configured?
    Confirmations,  \* blocks between the head and the safe tip
    StartBlock,     \* first block to index
    Step, RangeConcurrency,   \* the size of one fetch window
    MaxHead,        \* bound: how far the chain grows
    MaxForks,       \* bound: reorgs
    MaxFaults       \* bound: broken connections and failed attempts

ASSUME TipAssumption ==
    /\ WsModes \subseteq BOOLEAN /\ Confirmations \in Nat /\ StartBlock \in Nat \ {0}
    /\ Step \in Nat \ {0} /\ RangeConcurrency \in Nat \ {0}
    /\ {MaxHead, MaxForks, MaxFaults} \subseteq Nat

VARIABLES
    head,       \* height of the chain
    logs,       \* blocks of the chain that hold a matching log
    forks,      \* reorgs so far (bounded by MaxForks)
    replaced,   \* history: heights at which a reorg replaced the block
    up,         \* the provider's end of the subscription is alive
    stream,     \* logs [h, removed] pushed by the subscription and not yet read
    ws_enabled, sub, pending, reconcile,   \* TipState; the first never changes
    pc,         \* where ingest_loop is: "top", "poll", "catch" or "wait"
    next,       \* first block of the next window
    safe,       \* head - confirmations, as of the last poll
    cursor,     \* the stored cursor; StartBlock - 1 also stands for no row
    stored,     \* blocks that were fetched and committed
    exposed,    \* history: unconfirmed blocks at the time of a (re)subscription
    faults      \* disturbances so far (bounded by MaxFaults)

env == <<ws_enabled, head, logs, forks, replaced>>
ws == <<up, stream>>
tip == <<sub, pending, reconcile>>
vars == <<env, ws, tip, pc, next, safe, cursor, stored, exposed, faults>>

Init ==
    /\ head = 0 /\ logs = {} /\ forks = 0 /\ replaced = {}
    /\ up = FALSE /\ stream = <<>>
    /\ ws_enabled \in WsModes /\ sub = FALSE /\ pending = {} /\ reconcile = TRUE
    /\ pc = "top" /\ next = StartBlock /\ safe = 0
    /\ cursor = StartBlock - 1 /\ stored = {} /\ exposed = {} /\ faults = 0

Minus(a, b) == IF a >= b THEN a - b ELSE 0   \* saturating_sub
Fault == faults < MaxFaults /\ faults' = faults + 1

-----------------------------------------------------------------------------
(* The chain and the websocket.                                            *)

Pushed(h) == [h |-> h, removed |-> FALSE]

\* A block is mined, with a matching log or without; the subscription pushes
\* the log.  Nothing is pushed for blocks mined before it.
Mine(matches) ==
    /\ head < MaxHead
    /\ head' = head + 1
    /\ logs' = IF matches THEN logs \cup {head + 1} ELSE logs
    /\ stream' = IF matches /\ sub /\ up THEN Append(stream, Pushed(head + 1)) ELSE stream
    /\ UNCHANGED <<ws_enabled, forks, replaced, up, tip, pc, next, safe, cursor, stored, exposed, faults>>

\* The heights of S in ascending order.
Ascending(S) == {q \in [1..Cardinality(S) -> S] : \A i, j \in DOMAIN q : i < j => q[i] < q[j]}

\* The newest d blocks are replaced, of which no more than `confirmations`: the
\* subscription takes their logs back and pushes those of the new blocks.
Fork(d, new) ==
    LET top == (head - d + 1) .. head
    IN  /\ forks < MaxForks /\ forks' = forks + 1
        /\ logs' = (logs \ top) \cup new
        /\ replaced' = replaced \cup top
        /\ \E gone \in Ascending(logs \cap top), come \in Ascending(new) :
              stream' = IF ~sub \/ ~up THEN stream ELSE stream
                  \o [i \in DOMAIN gone |-> [h |-> gone[i], removed |-> TRUE]]
                  \o [i \in DOMAIN come |-> Pushed(come[i])]
        /\ UNCHANGED <<ws_enabled, head, up, tip, pc, next, safe, cursor, stored, exposed, faults>>

WsBreaks ==
    /\ sub /\ up
    /\ up' = FALSE
    /\ Fault
    /\ UNCHANGED <<env, stream, tip, pc, next, safe, cursor, stored, exposed>>

-----------------------------------------------------------------------------
(* One iteration of ingest_loop.                                           *)

\* TipState::ensure_subscribed: a stream is there, or none is wanted.
StaySubscribed ==
    /\ pc = "top" /\ (~ws_enabled \/ sub)
    /\ pc' = "poll"
    /\ UNCHANGED <<env, ws, tip, next, safe, cursor, stored, exposed, faults>>

\* A fresh stream only covers later blocks: force a sweep.
SubscribeOk ==
    /\ pc = "top" /\ ws_enabled /\ ~sub
    /\ sub' = TRUE /\ reconcile' = TRUE
    /\ up' = TRUE /\ stream' = <<>>
    /\ exposed' = exposed \cup {b \in 1..head : b > Minus(head, Confirmations)}
    /\ pc' = "poll"
    /\ UNCHANGED <<env, pending, next, safe, cursor, stored, faults>>

\* Logged only; the next iteration tries again.
SubscribeErr ==
    /\ pc = "top" /\ ws_enabled /\ ~sub
    /\ pc' = "poll"
    /\ UNCHANGED <<env, ws, tip, next, safe, cursor, stored, exposed, faults>>

\* Faulty variant of should_poll_head: not for a pending log.
PollNotPending == ~ws_enabled \/ reconcile

should_poll_head == ~ws_enabled \/ reconcile \/ pending # {}

\* Faulty variants of must_fetch: no sweep, and `lo < safe`.
FetchNoSweep(s) == ~ws_enabled \/ \E h \in pending : h <= s
FetchBelowSafe(s) == ~ws_enabled \/ reconcile \/ \E h \in pending : h < s

must_fetch(s) == ~ws_enabled \/ reconcile \/ \E h \in pending : h <= s

PollHead ==
    /\ pc = "poll" /\ should_poll_head
    /\ safe' = Minus(head, Confirmations)
    /\ pc' = IF safe' >= next THEN "catch" ELSE "wait"
    /\ UNCHANGED <<env, ws, tip, next, cursor, stored, exposed, faults>>

SkipPoll ==
    /\ pc = "poll" /\ ~should_poll_head
    /\ pc' = "wait"
    /\ UNCHANGED <<env, ws, tip, next, safe, cursor, stored, exposed, faults>>

\* catch_up, no-fetch path: checkpoint forward with zero RPC.
CatchUpNoFetch ==
    /\ pc = "catch" /\ ~must_fetch(safe)
    /\ cursor' = fetch_target(safe, next, Step, RangeConcurrency, FALSE)
    /\ next' = cursor' + 1
    /\ pc' = IF next' <= safe THEN "top" ELSE "wait"
    /\ UNCHANGED <<env, ws, tip, safe, stored, exposed, faults>>

\* catch_up, pipeline path: a bounded window, then clear_through.
CatchUpFetch ==
    /\ pc = "catch" /\ must_fetch(safe)
    /\ cursor' = fetch_target(safe, next, Step, RangeConcurrency, TRUE)
    /\ stored' = stored \cup (next .. cursor')
    /\ next' = cursor' + 1
    /\ reconcile' = (next' <= safe)
    /\ pending' = {h \in pending : h > cursor'}
    /\ pc' = IF next' <= safe THEN "top" ELSE "wait"
    /\ UNCHANGED <<env, ws, sub, safe, exposed, faults>>

\* The select! at the bottom: a pushed log, the end of the stream, or the timer.
OnWsLog ==
    /\ pc = "wait" /\ sub /\ stream # <<>>
    /\ pending' = IF Head(stream).removed THEN pending ELSE pending \cup {Head(stream).h}
    /\ stream' = Tail(stream)
    /\ pc' = "top"
    /\ UNCHANGED <<env, up, sub, reconcile, next, safe, cursor, stored, exposed, faults>>

\* map_log rejects a pushed log: the stream is dropped, with what it still holds.
OnWsErr ==
    /\ pc = "wait" /\ sub /\ stream # <<>>
    /\ Fault
    /\ sub' = FALSE
    /\ up' = FALSE /\ stream' = <<>>
    /\ pc' = "top"
    /\ UNCHANGED <<env, pending, reconcile, next, safe, cursor, stored, exposed>>

OnWsEnd ==
    /\ pc = "wait" /\ sub /\ stream = <<>> /\ ~up
    /\ sub' = FALSE
    /\ pc' = "top"
    /\ UNCHANGED <<env, ws, pending, reconcile, next, safe, cursor, stored, exposed, faults>>

Timer ==
    /\ pc = "wait"
    /\ pc' = "top"
    /\ UNCHANGED <<env, ws, tip, next, safe, cursor, stored, exposed, faults>>

\* An RPC or database error ends ingest_loop (or the process dies), in the
\* middle of a window at some prefix of it; supervised_ingest starts over with
\* a new source and TipState, from the stored cursor.
Restart(last) ==
    /\ Fault
    /\ cursor' = last /\ next' = last + 1
    /\ stored' = stored \cup (next .. last)
    /\ up' = FALSE /\ stream' = <<>>
    /\ sub' = FALSE /\ pending' = {} /\ reconcile' = TRUE
    /\ pc' = "top" /\ safe' = 0
    /\ UNCHANGED <<env, exposed>>

Reached ==
    IF pc = "catch" /\ must_fetch(safe)
      THEN cursor .. fetch_target(safe, next, Step, RangeConcurrency, TRUE)
      ELSE {cursor}

-----------------------------------------------------------------------------
Loop ==
    \/ StaySubscribed \/ SubscribeErr \/ PollHead \/ SkipPoll
    \/ CatchUpNoFetch \/ CatchUpFetch \/ Timer

Next ==
    \/ \E matches \in BOOLEAN : Mine(matches)
    \/ \E d \in 1 .. Lesser(Confirmations, head) :
          \E new \in SUBSET ((head - d + 1) .. head) : Fork(d, new)
    \/ WsBreaks
    \/ Loop \/ SubscribeOk \/ OnWsLog \/ OnWsErr \/ OnWsEnd
    \/ \E last \in Reached : Restart(last)

Spec == Init /\ [][Next]_vars

\* The loop is a task that never stops by itself, the chain keeps growing, and
\* select! takes what the stream has to offer before the sleep ends.
LoopFair ==
    /\ Spec
    /\ WF_vars(Loop) /\ WF_vars(\E matches \in BOOLEAN : Mine(matches))
    /\ SF_vars(OnWsLog) /\ SF_vars(OnWsEnd)

\* As LoopFair, with an endpoint that does not refuse subscriptions forever.
WsFair == LoopFair /\ SF_vars(SubscribeOk)

-----------------------------------------------------------------------------
\* The type of every variable.
TypeOK ==
    /\ head \in 0..MaxHead /\ logs \subseteq 1..head
    /\ forks \in 0..MaxForks /\ replaced \subseteq 1..head
    /\ up \in BOOLEAN /\ stream \in Seq([h : 1..MaxHead, removed : BOOLEAN])
    /\ ws_enabled \in WsModes /\ sub \in BOOLEAN /\ pending \subseteq 1..head /\ reconcile \in BOOLEAN
    /\ pc \in {"top", "poll", "catch", "wait"}
    /\ next = cursor + 1 /\ safe \in 0..head
    /\ cursor \in Nat /\ stored \subseteq 1..head /\ exposed \subseteq 1..head
    /\ faults \in 0..MaxFaults

Missed == {b \in logs : StartBlock <= b /\ b <= cursor /\ b \notin stored}

\* A block with a matching log that the cursor passes without a fetch was one of
\* the `confirmations` newest blocks when a stream was (re)opened, or came with a
\* reorg: beyond those, the sweep, the pending heights and the restarts lose no
\* log, whatever breaks and however far the loop lags behind the chain.  In poll
\* mode no log is ever missed.
MissedOnlyIfExposed == Missed \subseteq IF ws_enabled THEN exposed \cup replaced ELSE {}

\* A height the stream announced is fetched before the cursor passes it.  The
\* exception is again a block of a reorg: its height may be below one that is
\* pending already, and the loop reads one log of the stream at a time.
AnnouncedIsFetched ==
    \A h \in pending \cup {stream[i].h : i \in DOMAIN stream} :
        StartBlock <= h /\ h <= cursor => h \in stored \cup replaced

\* tip.rs:64, "WS guarantees the confirmed range had no matching logs": the
\* cursor never passes a matching block without having fetched it.
NoLogMissed == Missed = {}

\* The loop catches up with the confirmed logs again and again, however often
\* the stream breaks or the loop is restarted.
EventuallyIndexed ==
    []<>(\A b \in logs : StartBlock <= b /\ b <= Minus(head, Confirmations) =>
             b \in stored \cup exposed \cup replaced)

=============================================================================
