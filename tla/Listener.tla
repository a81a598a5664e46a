------------------------------- MODULE Listener -------------------------------
(***************************************************************************)
(* The block-synchronisation loop of relayer/chains/evm/listener.go        *)
(* (EVMProvider.Listener) for one chain, from the start height that       *)
(* startFromHeight returned.  The select loop either bumps `latest` on the *)
(* 2 s ticker, raises it to the polled chain height on the 60 s poller,    *)
(* drains the block-notification channel bnch (releasing each block once *)
(* the next one has arrived), or -- in its default branch -- runs a fetch  *)
(* round: up to Concurrency heights from `next`, each fetched by its own   *)
(* goroutine with 3 retries, after which the results are compacted,       *)
(* sorted, and only the prefix contiguous with `next` is put on bnch.     *)
(* Block contents are abstracted to heights (EVM FindMessages returns no  *)
(* messages; Relay.tla attaches messages to heights).                      *)
(***************************************************************************)
EXTENDS Naturals, Sequences, FiniteSets, SequencesExt

CONSTANTS
    Start,        \* startFromHeight's result
    InitHead,     \* chain height when the listener starts
    MaxHeight,    \* the chain grows up to this height
    MaxLatest,    \* bound on the ticker's optimistic `latest`
    Concurrency,  \* GetConcurrency (monitorBlockMaxConcurrency, scaled down)
    FetchRetries, \* the retry budget of a bnq request (3)
    RPCCanHang,   \* whether an RPC may never return (context.TODO(), no deadline)
    Nil           \* model value: lbn == nil

ASSUME /\ Start \in 1..MaxHeight /\ InitHead \in Start..MaxHeight
       /\ MaxLatest > MaxHeight /\ Concurrency \in Nat \ {0}
       /\ FetchRetries \in Nat /\ RPCCanHang \in BOOLEAN

VARIABLES
    head,     \* the chain's current height (environment)
    next,     \* next height to fetch and deliver
    latest,   \* the listener's estimate of the chain height
    lbn,      \* last unverified block notification (a height or Nil)
    bnch,     \* block-notification channel, capacity Concurrency
    reqs,     \* the fetch round in progress: height -> bnq, [] when idle
    out       \* heights sent on blockInfoChan so far

vars == <<head, next, latest, lbn, bnch, reqs, out>>

\* A bnq request: its remaining retries and its state.
Bnq == [retry : 0..FetchRetries, st : {"pending", "ok", "failed", "hung"}]

Idle == DOMAIN reqs = {}

\* The latestHeight closure: eth.BlockNumber, or 0 when the call fails.
latestHeight(chainHeight) == {chainHeight, 0}

\* Every request of the round has come back on qch (close(qch)).
Answered == \A h \in DOMAIN reqs : reqs[h].st \in {"ok", "failed"}

Init ==
    /\ head = InitHead
    /\ next = Start
    /\ latest \in latestHeight(InitHead)
    /\ lbn = Nil
    /\ bnch = <<>>
    /\ reqs = <<>>
    /\ out = <<>>

ChainAdvance ==
    /\ head < MaxHeight
    /\ head' = head + 1
    /\ UNCHANGED <<next, latest, lbn, bnch, reqs, out>>

\* case <-heightTicker.C: latest++
heightTicker ==
    /\ Idle
    /\ latest < MaxLatest
    /\ latest' = latest + 1
    /\ UNCHANGED <<head, next, lbn, bnch, reqs, out>>

\* case <-heightPoller.C: raise latest to the chain height, never lower it.
heightPoller ==
    /\ Idle
    /\ \E height \in latestHeight(head) :
           latest' = IF height > latest THEN height ELSE latest
    /\ UNCHANGED <<head, next, lbn, bnch, reqs, out>>

(***************************************************************************)
(* case bn := <-bnch: for every queued notification, send the previous    *)
(* one (lbn) on blockInfoChan, keep this one as lbn, and advance next.     *)
(***************************************************************************)
ReceiveNotifications ==
    /\ Idle
    /\ bnch # <<>>
    /\ out' = out \o (IF lbn = Nil THEN <<>> ELSE <<lbn>>) \o Front(bnch)
    /\ lbn' = Last(bnch)
    /\ next' = next + Len(bnch)
    /\ bnch' = <<>>
    /\ UNCHANGED <<head, latest, reqs>>

\* Bug variant: the round not capped at cap(bnch).
StartRoundUncapped ==
    /\ Idle
    /\ bnch = <<>>
    /\ next < latest
    /\ reqs' = [h \in next .. latest - 1 |-> [retry |-> FetchRetries, st |-> "pending"]]
    /\ UNCHANGED <<head, next, latest, lbn, bnch, out>>

\* default: with next < latest, queue requests for next .. latest-1, at most
\* cap(bnch) of them.
StartRound ==
    /\ Idle
    /\ bnch = <<>>
    /\ next < latest
    /\ LET last == IF latest - 1 < next + Concurrency - 1
                   THEN latest - 1 ELSE next + Concurrency - 1
       IN reqs' = [h \in next .. last |-> [retry |-> FetchRetries, st |-> "pending"]]
    /\ UNCHANGED <<head, next, latest, lbn, bnch, out>>

\* A goroutine fetches header (and logs) of height h successfully.
FetchOk(h) ==
    /\ h \in DOMAIN reqs /\ reqs[h].st = "pending"
    /\ h <= head
    /\ reqs' = [reqs EXCEPT ![h].st = "ok"]
    /\ UNCHANGED <<head, next, latest, lbn, bnch, out>>

\* A fetch fails with an ordinary error (an RPC failure, or "not found" for
\* a height above the chain): retried while the budget lasts, else dropped.
FetchError(h) ==
    /\ h \in DOMAIN reqs /\ reqs[h].st = "pending"
    /\ reqs' = IF reqs[h].retry > 0
               THEN [reqs EXCEPT ![h].retry = @ - 1]
               ELSE [reqs EXCEPT ![h].st = "failed"]
    /\ UNCHANGED <<head, next, latest, lbn, bnch, out>>

\* HeaderByNumber or FilterLogs never returns: the goroutine never sends
\* q back on qch, and the round waits for it forever.
FetchHang(h) ==
    /\ RPCCanHang
    /\ h \in DOMAIN reqs /\ reqs[h].st = "pending"
    /\ reqs' = [reqs EXCEPT ![h].st = "hung"]
    /\ UNCHANGED <<head, next, latest, lbn, bnch, out>>

\* "requested block number greater than current block number": no retry;
\* while retries remain, clamp latest to just below h.
FetchOverrun(h) ==
    /\ h \in DOMAIN reqs /\ reqs[h].st = "pending"
    /\ h > head
    /\ latest' = IF reqs[h].retry > 0 /\ latest >= h THEN h - 1 ELSE latest
    /\ reqs' = [reqs EXCEPT ![h].st = "failed"]
    /\ UNCHANGED <<head, next, lbn, bnch, out>>

(***************************************************************************)
(* All requests answered (close(qch)): drop the failed ones, sort by      *)
(* height, and send bns[i] on bnch only if its height is next + i.         *)
(***************************************************************************)
\* Bug variant: every fetched height forwarded, contiguous or not.
EndRoundForwardAll ==
    /\ ~Idle
    /\ Answered
    /\ bnch' = SetToSortSeq({h \in DOMAIN reqs : reqs[h].st = "ok"}, <)
    /\ reqs' = <<>>
    /\ UNCHANGED <<head, next, latest, lbn, out>>

EndRound ==
    /\ ~Idle
    /\ Answered
    /\ LET bns == SetToSortSeq({h \in DOMAIN reqs : reqs[h].st = "ok"}, <)
       IN bnch' = SelectSeq([i \in 1..Len(bns) |->
                                IF bns[i] = next + i - 1 THEN bns[i] ELSE 0],
                            LAMBDA h : h # 0)
    /\ reqs' = <<>>
    /\ UNCHANGED <<head, next, latest, lbn, out>>

Next ==
    \/ ChainAdvance \/ heightTicker \/ heightPoller
    \/ ReceiveNotifications \/ StartRound \/ EndRound
    \/ \E h \in 1..MaxLatest :
           FetchOk(h) \/ FetchError(h) \/ FetchOverrun(h) \/ FetchHang(h)

\* The tickers fire and the loop runs; every RPC eventually answers (the
\* calls use context.TODO(), so this is assumed of the node and transport);
\* a height the node has is eventually served by an RPC retried for it
\* again and again.
Fairness ==
    /\ WF_vars(heightTicker) /\ WF_vars(heightPoller)
    /\ WF_vars(ReceiveNotifications) /\ WF_vars(StartRound) /\ WF_vars(EndRound)
    /\ \A h \in 1..MaxLatest :
           /\ WF_vars(FetchOk(h) \/ FetchError(h) \/ FetchOverrun(h))
           /\ SF_vars(FetchOk(h))

Spec == Init /\ [][Next]_vars /\ Fairness

(***************************************************************************)
(* Properties                                                              *)
(***************************************************************************)
TypeOK ==
    /\ head \in 1..MaxHeight /\ next \in Start..MaxLatest
    /\ latest \in 0..MaxLatest /\ lbn \in 1..MaxHeight \cup {Nil}
    /\ bnch \in Seq(1..MaxHeight) /\ Len(bnch) <= Concurrency
    /\ \E S \in SUBSET (1..MaxLatest) : reqs \in [S -> Bnq]
    /\ out \in Seq(1..MaxHeight)

LA == INSTANCE ListenerAbstract

(* The fetch rounds, retries, the overrun clamp, the contiguous-prefix    *)
(* filter and the lbn hand-off together implement ListenerAbstract: the   *)
(* heights sent on blockInfoChan are Start, Start+1, ... without gap or   *)
(* repeat, each sent only after its successor exists, and every confirmed *)
(* height is eventually sent.                                              *)
ListenerRefines == LA!Spec

=============================================================================
