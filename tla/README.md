# TLA+ models of the centralised relayer

This directory holds TLA+ models of the relayer under `src/relayer`, along with
the TLC configurations that check them. Each run is listed in `PROJECT.json`,
with the source lines every definition translates.

## The system

The relayer moves cross-chain messages from a source chain to a destination
chain. It has these parts:

- **Chain listeners.** There is one listener per configured chain
  (`chains/evm/listener.go`). Each one follows its chain from the height that
  `startFromHeight` returns. It sends one `BlockInfo{Height, Messages}` per
  block on the chain's `listenerChan`. A block is released only once the block
  after it has been fetched.
- **Block processors** (`relay.go` `StartBlockProcessors`, `processBlockInfo`).
  For each block, `SaveBlockHeight` checkpoints the height. It writes memory
  first and then the LevelDB block store. It only checkpoints when the block
  has messages or the height is `SaveHeightMaxAfter` past the last checkpoint.
  Then `go mergeMessages` adds the block's messages to the chain's in-memory
  `MessageCache` (`types/types.go`).
- **The router** (`StartRouter`, `processMessages`). It ticks every second and
  walks every cache without holding its lock. A message goes out when its
  destination runtime exists and `shouldSendMessage` accepts it: the message
  is not processing and the destination has no receipt for it. In that case
  the router spawns `go RouteMessage`.
- **RouteMessage and its callback.** The goroutine sets `IsProcessing`, bumps
  `Retry` and calls `Provider.Route` with a callback.
  - On success, `ClearMessages` removes the message from the cache and the
    message store.
  - On failure, a message at the retry budget (`DefaultTxRetry` = 2) goes to
    the `MessageStore` and leaves the cache. If that store write fails, the
    callback returns early. Below the budget, the callback clears
    `IsProcessing` so the message is retried.
- **Restart.** With `fresh`, `NewRelayer` first clears the whole LevelDB
  store (`ClearStore`). It then reloads each chain's checkpoint into
  `LastSavedHeight`. The caches start empty. `db prune` runs the same
  `ClearStore` on a stopped relayer's database.

## Modules

| Module | Models | State ↔ code |
|---|---|---|
| `Relay.tla` | The relayer's control flow over several chains, with crashes. | `listenNext`/`listenerChan`: each listener and its channel. `LastSavedHeight`/`blockStore`: the checkpoint in memory and in LevelDB. `merging`: `mergeMessages` goroutines that have not run yet. `cache`: the `MessageCache`, one `RouteMessage` record per key. `messageStore`. `toVisit`: the keys left in the current router iteration. `spawned`/`inflight`: `RouteMessage` goroutines that have not started, and `Route` calls waiting for a callback. `received`: receipts on the destination chain. `fresh`: the flag the running process was started with. |
| `Listener.tla` | `EVMProvider.Listener` for one chain, step by step. | `latest`, `next`, `lbn`, `bnch`. `reqs` is the `bnq` round in flight, with retries. `out` is what went onto `blockInfoChan`. Actions: `heightTicker`, `heightPoller`, `ReceiveNotifications` (the `bnch` case), `StartRound`, `FetchOk`, `FetchError`, `FetchOverrun` (the default case), and `EndRound` (filter, sort and forward). |
| `ListenerAbstract.tla` | What a listener promises. | It emits consecutive heights from the start height, each only once its successor exists, and every confirmed height eventually. |
| `MCRelay.tla`, `MCListener.tla` | Constants for TLC. | There are two chains A and B. Messages M1 and M2 go from A to B, at heights 2 and 3. The settled run adds M3, in M2's block, addressed to C, a chain that is not configured. |

`Relay` abstracts each listener to the promise that `ListenerAbstract`
states: `ListenerEmit` is `ListenerAbstract`'s `Emit`, one height per step,
each released once its successor exists. The abstraction is justified by
checking that the detailed `Listener` refines `ListenerAbstract` (run
`listener_refines`, `LA == INSTANCE ListenerAbstract WITH out <- out, ...`).

`seen` in `Relay` is a history variable, not program state. It records the
messages whose block a block processor has taken, and it survives a crash,
so that `NoMessageLoss` can speak of messages taken in by an earlier run of
the process. A message that a cold start skips before any block processor
took its block is the spec's prescribed "skip the backlog" (section 4.1),
not a loss.

### Modelling choices

- **The RouteMessage goroutine.** `IsProcessing` and `Retry` are set inside
  the goroutine, not by the router. Spawning the goroutine (`processMessages`)
  and running it (`RouteMessage`) are therefore separate steps.
- **The router's iteration.** It is unlocked, so a tick visits the keys one at
  a time (`toVisit`). Merges and callbacks can interleave with it.
- **uint64 subtraction** in `SaveBlockHeight` wraps modulo `WordSize`. This is
  a scaled 2^64.
- **LevelDB writes** may fail (`StoreCanFail`). So may `Route` itself
  (`RouteCanError`); the code only logs that error, and no callback follows.
- **`ClearStore`** either deletes everything or, when its iterator fails,
  nothing while still returning nil. A failed batch write makes `Start` fail
  and leaves the store unchanged, so it merges into the next restart.
- **Provider queries may fail** (`QueryCanFail`). A `MessageReceived` error
  makes `shouldSendMessage` answer "do not send" for that tick.
- **The checkpoint read at `NewRelayer` may fail** (`GetLastStoredBlock`).
  Any error, not-found or a failed read, leaves `LastSavedHeight` at 0, and
  the listener restarts from that value.
- **A listener may fail to start** (`QueryCanFail`). `QueryLatestHeight`'s
  error is returned by `startFromHeight` and by `Listener`; no other EVM
  listener path returns an error. `StartChainListeners` reports on
  `errorChan` only when every listener has returned (`ReportListenerError`).
- **Listener RPCs** may never return (`RPCCanHang`): `context.TODO()` has no
  deadline.
- **A crash** loses all memory, including the pending goroutines and channels.
  A transaction that was already submitted may still land. After the restart,
  `blockStore` is reloaded and each listener resumes at `startFromHeight`.
- **Block contents** are abstracted: the messages of block h of chain c are
  the constant `MsgsAt(c, h)`.

## Runs

| Run | Expect | Shows |
|---|---|---|
| `relay_safety` | pass | The run has no crashes, and store write and `Route` errors are both allowed. Every message whose block the block processor has taken ends up received, stored or still owned by the relayer (`NoMessageLoss`). |
| `relay_checkpoint` | pass | There are two crashes, fresh or not, and no configured start height. The persisted checkpoint never decreases, except by a fresh start's clear. |
| `relay_settled` | pass | Stores, `Route`, listener starts and receipt queries never fail. Every cached message for a configured destination is eventually received or stored (`EventuallySettled`); M3, for the unconfigured chain C, is skipped on every tick meanwhile. |
| `listener_refines` | pass | If every RPC returns, the EVM listener loop refines `ListenerAbstract`. |
| `listener_hang_safety` | pass | RPCs may fail, overrun or hang. A round never holds more results than `cap(bnch)` (`TypeOK`), so its sender can always finish. Deadlock is not checked, because a hung RPC really does stop the loop (`context.TODO()`, `defaultReadTimeout` unused); liveness is checked only in `listener_refines`, where every RPC returns. |
| `relay_crash_loss` | violation | Block 2 (M1) and then block 3 (M2) are checkpointed while M1 is still only in a merge goroutine; one crash, and the listener resumes at 3, so M1 is lost (`NoMessageLoss`). Store faults are off, so the trace shows this path and not the failed checkpoint read, which loses messages the same way. |
| `relay_retry_race` | violation | Router double-dispatch pushes `Retry` past `DefaultTxRetry`. |
| `relay_restart_rescan` | violation | A restart re-merges a message that is already in the `MessageStore`. |
| `relay_store_error_stuck` | violation | A failed `StoreMessage` leaves a message stuck with `IsProcessing` set. |
| `relay_cache_leak` | violation | A transaction that lands after a crash leaves its rescanned message in the cache forever (`EventuallyEvicted`). |
| `relay_listener_error` | violation | A listener that fails to start while another keeps running is never reported on `errorChan`, and its chain silently stops (`ListenerFailureSurfaces`). |
| `relay_fresh_not_clean` | violation | `ClearStore` swallows an iterator error, so a fresh start resumes at the stale checkpoint (`FreshStartIsClean`). |

The findings in `PROJECT.json` explain each violation.

One further problem was seen in an earlier run but is no longer kept as a
run. When a chain is configured with a `StartHeight` below its checkpoint,
the restarted listener begins there. Because `height - LastSavedHeight`
wraps as a uint64, `SaveBlockHeight` then stores a lower checkpoint. The
`numeric_edge` hazard at `relay.go:192` records it.

## Bounds

- **Chains.** Two chains are enough to separate the source from the
  destination.
- **Messages.** Two messages at consecutive heights let the checkpoint of one
  block overtake the messages of the block before it. They also let a restart
  re-scan one message while the other is in flight.
- **Heights.** `MaxHeight` is 4, which leaves a block after the last message
  so that it can be confirmed.
- **Scaled constants.** `SaveHeightMaxAfter` is 1, so the hysteresis fires
  within that range. `WordSize` is 16, which is larger than any height plus
  the hysteresis.
- **Goroutines.** `MaxSpawn` is 2 goroutines per message. That is the
  smallest number at which double dispatch shows.
- **Crashes.** `MaxCrashes` is 0, 1 or 2, depending on the run.
- **Listener.** The listener runs up to 5 heights, with a round capacity of 3
  and 3 retries. This gives rounds with gaps, overruns and out-of-order
  completion.

## Fairness

- **Relay.** Each chain's block processor, every merge goroutine, the router
  ticker, and each message's goroutines and callbacks are weakly fair. These
  are Go goroutines and tickers that keep running while the process lives.
  The chain itself need not grow.
  - `ReportListenerError` is weakly fair: it is the send that follows
    `eg.Wait()` once every listener has returned.
  - The liveness run assumes that `Route` eventually calls back. The code
    gives no timeout for this.
- **Listener.** The tickers and the loop are weakly fair. Every pending RPC is
  weakly fair to answer in some way: the calls use `context.TODO()` with no
  timeout, so a hung RPC would stall the listener. This is therefore an
  assumption about the node.
  - `FetchOk` is strongly fair, because a height the node has is eventually
    served when it is retried again and again.

## Not modelled

- The ABI bindings, which are generated code.
- The socket types, which are data only.
- The CLI `db` subcommands other than `prune`, which only print.
- The test harness.
- ICON event decoding, which is data formatting.
- `MessageStore` pagination.
- The KV store's locks.
- `chain_runtime.go` and `relayer/store` are not in the tree. Their roles are
  modelled from the spec and from their callers.

## Plan

1. Compose the detailed `Listener` into `Relay` in place of `ListenerEmit`.
   This is only feasible with one chain, because of state-space size.
2. Add traffic in both directions.
3. Model `MessageStore` pagination as an operator checked against a reference
   definition.
4. Model cancellation (`ctx.Done`) and a clean shutdown.
