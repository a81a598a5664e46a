-------------------------------- MODULE Relay --------------------------------
(***************************************************************************)
(* The relay engine of relayer/relay.go: per-chain block processors that   *)
(* checkpoint heights and merge discovered messages into the in-memory     *)
(* MessageCache, the 1-second router that dispatches cached messages to    *)
(* their destination, the RouteMessage goroutines and their completion     *)
(* callbacks (clear on success, retry or escalate to the MessageStore on   *)
(* failure), and a process crash followed by a restart through NewRelayer  *)
(* and startFromHeight.                                                    *)
(*                                                                         *)
(* Each chain's listener is abstracted to what ListenerAbstract promises:  *)
(* it emits the heights from its start height on, one at a time, in order, *)
(* a height only once the next block exists (one-block confirmation lag). *)
(***************************************************************************)
EXTENDS Naturals, FiniteSets, Sequences, SequencesExt

CONSTANTS
    Chains,             \* chain ids of the configured ChainRuntimes
    Msgs,               \* messages that appear on the source chains
    Src, Dst, Height,   \* Src[m], Dst[m] (maybe unconfigured), Height[m]
    NoEntry,            \* model value: key absent from a MessageCache
    InitHead,           \* InitHead[c]: head of chain c when the relayer starts
    MaxHeight,          \* chains grow up to this height
    StartHeight,        \* StartHeight[c]: the chain's configured start height
    DefaultTxRetry,     \* relay.go: DefaultTxRetry = 2
    SaveHeightMaxAfter, \* relay.go: SaveHeightMaxAfter = 1000 (scaled down)
    WordSize,           \* 2^64, scaled: any value > MaxHeight + SaveHeightMaxAfter
    StoreCanFail,       \* whether LevelDB writes may return an error
    RouteCanError,      \* whether Provider.Route may return an error, no callback
    QueryCanFail,       \* whether QueryLatestHeight may fail when a listener starts
    FreshStarts,        \* values of Start's `fresh` flag the operator may use
    MaxSpawn,           \* bound: RouteMessage goroutines started but not yet run
    MaxCrashes          \* bound: process crashes

ASSUME /\ Src \in [Msgs -> Chains] /\ Height \in [Msgs -> 1..MaxHeight]
       /\ InitHead \in [Chains -> 1..MaxHeight]
       /\ StartHeight \in [Chains -> 0..MaxHeight]
       /\ DefaultTxRetry \in Nat \ {0} /\ SaveHeightMaxAfter \in Nat
       /\ WordSize > MaxHeight + SaveHeightMaxAfter
       /\ StoreCanFail \in BOOLEAN /\ RouteCanError \in BOOLEAN
       /\ QueryCanFail \in BOOLEAN
       /\ FreshStarts \subseteq BOOLEAN /\ FreshStarts # {}
       /\ MaxSpawn \in Nat \ {0} /\ MaxCrashes \in Nat

VARIABLES
    head,             \* head[c]: current height of chain c (environment)
    listenNext,       \* listenNext[c]: next height chain c's listener emits
    listenerChan,     \* listenerChan[c]: BlockInfo heights not yet processed
    LastSavedHeight,  \* ChainRuntime.LastSavedHeight (memory)
    blockStore,       \* BlockStore: checkpointed height per chain, 0 = none
    merging,          \* <<c, h>>: `go mergeMessages` spawned, not yet run
    cache,            \* MessageCache: cache[m] = RouteMessage or NoEntry
    messageStore,     \* MessageStore: messages persisted after max retry
    toVisit,          \* keys processMessages still has to visit this tick
    spawned,          \* spawned[m]: `go r.RouteMessage` not yet started
    inflight,         \* inflight[m]: Provider.Route calls awaiting callback
    received,         \* messages executed on their destination chain
    crashes,          \* number of crashes so far
    fresh,            \* the `fresh` flag the running process was started with
    listenerUp,       \* listenerUp[c]: chain c's Listener has not returned
    errReported,      \* StartChainListeners has sent on errorChan
    seen              \* history: messages whose block a block processor of
                      \* some run has taken (not program state)

vars == <<head, listenNext, listenerChan, LastSavedHeight, blockStore, merging,
          cache, messageStore, toVisit, spawned, inflight, received, crashes,
          fresh, listenerUp, errReported, seen>>

RouteMessageT == [Retry : Nat, IsProcessing : BOOLEAN]

\* types.NewRouteMessage: retry 0, not processing.
NewRouteMessage == [Retry |-> 0, IsProcessing |-> FALSE]

\* The messages the listener finds in block h of chain c.
MsgsAt(c, h) == {m \in Msgs : Src[m] = c /\ Height[m] = h}

Cached == {m \in Msgs : cache[m] # NoEntry}

\* RouteMessage.IncrementRetry and SetIsProcessing.
IncrementRetry(r) == [r EXCEPT !.Retry = @ + 1]

SetIsProcessing(r, b) == [r EXCEPT !.IsProcessing = b]

\* MessageCache.Remove(key): delete under the lock, no-op if absent.
CacheRemove(key) == [cache EXCEPT ![key] = NoEntry]

\* Relayer.FindChainRuntime: only configured chains have a runtime.
FindChainRuntime(chainId) == chainId \in Chains

\* A LevelDB write either succeeds or, if StoreCanFail, returns an error.
StoreOutcomes == IF StoreCanFail THEN {TRUE, FALSE} ELSE {TRUE}

\* uint64 subtraction height - LastSavedHeight, wrapping below zero.
UintSub(a, b) == (a - b + WordSize) % WordSize

\* Bug variants: the `lastSaved != 0` check dropped; resuming one block
\* before the checkpoint.
startFromHeightNoZeroCheck(c, lastSaved, latestHeight) ==
    IF StartHeight[c] # 0 /\ StartHeight[c] < latestHeight THEN StartHeight[c]
    ELSE IF lastSaved < latestHeight THEN lastSaved ELSE latestHeight

startFromHeightBeforeCheckpoint(c, lastSaved, latestHeight) ==
    IF StartHeight[c] # 0 /\ StartHeight[c] < latestHeight THEN StartHeight[c]
    ELSE IF lastSaved # 0 /\ lastSaved < latestHeight THEN lastSaved - 1
    ELSE latestHeight

(***************************************************************************)
(* evm/listener.go startFromHeight, given QueryLatestHeight's answer:      *)
(* config start height, then the saved checkpoint, then the chain head.   *)
(***************************************************************************)
startFromHeight(c, lastSaved, latestHeight) ==
    IF StartHeight[c] # 0 /\ StartHeight[c] < latestHeight
    THEN StartHeight[c]
    ELSE IF lastSaved # 0 /\ lastSaved < latestHeight
         THEN lastSaved
         ELSE latestHeight

\* A provider query answers or, if QueryCanFail, returns an error.  Listener
\* returns startFromHeight's error when QueryLatestHeight fails; otherwise
\* it loops until the context is cancelled.
QueryOutcomes == IF QueryCanFail THEN BOOLEAN ELSE {TRUE}

Init ==
    /\ head = InitHead
    /\ listenNext = [c \in Chains |-> startFromHeight(c, 0, head[c])]
    /\ listenerUp \in [Chains -> QueryOutcomes]
    /\ errReported = FALSE
    /\ listenerChan = [c \in Chains |-> <<>>]
    /\ LastSavedHeight = [c \in Chains |-> 0]
    /\ blockStore = [c \in Chains |-> 0]
    /\ merging = {}
    /\ cache = [m \in Msgs |-> NoEntry]
    /\ messageStore = {}
    /\ toVisit = {}
    /\ spawned = [m \in Msgs |-> 0]
    /\ inflight = [m \in Msgs |-> 0]
    /\ received = {}
    /\ crashes = 0
    /\ fresh \in FreshStarts   \* ClearStore on the empty store deletes nothing
    /\ seen = {}

\* A new block is produced on chain c.
ChainAdvance(c) ==
    /\ head[c] < MaxHeight
    /\ head' = [head EXCEPT ![c] = @ + 1]
    /\ UNCHANGED <<listenNext, listenerChan, LastSavedHeight, blockStore,
                   merging, cache, messageStore, toVisit, spawned, inflight,
                   received, crashes, fresh,
                   listenerUp, errReported, seen>>

\* The listener sends BlockInfo{h, messages} on the chain's listenerChan;
\* block h is released once block h+1 has been fetched.
ListenerEmit(c) ==
    LET h == listenNext[c] IN
    /\ listenerUp[c]
    /\ h + 1 <= head[c]
    /\ listenerChan' = [listenerChan EXCEPT ![c] = Append(@, h)]
    /\ listenNext' = [listenNext EXCEPT ![c] = h + 1]
    /\ UNCHANGED <<head, LastSavedHeight, blockStore, merging, cache,
                   messageStore, toVisit, spawned, inflight, received, crashes, fresh,
                   listenerUp, errReported, seen>>

(***************************************************************************)
(* processBlockInfo: SaveBlockHeight (memory first, then the BlockStore,  *)
(* whose error is only logged), then `go mergeMessages`.                   *)
(***************************************************************************)
SaveBlockHeight(c, h, messageCount) ==
    IF messageCount > 0 \/ UintSub(h, LastSavedHeight[c]) > SaveHeightMaxAfter
    THEN /\ LastSavedHeight' = [LastSavedHeight EXCEPT ![c] = h]
         /\ \E ok \in StoreOutcomes :
                blockStore' = IF ok THEN [blockStore EXCEPT ![c] = h]
                              ELSE blockStore
    ELSE UNCHANGED <<LastSavedHeight, blockStore>>

processBlockInfo(c) ==
    /\ listenerChan[c] # <<>>
    /\ LET h == Head(listenerChan[c])
           msgs == MsgsAt(c, h)
       IN /\ SaveBlockHeight(c, h, Cardinality(msgs))
          /\ merging' = IF msgs # {} THEN merging \cup {<<c, h>>} ELSE merging
          /\ seen' = seen \cup msgs
    /\ listenerChan' = [listenerChan EXCEPT ![c] = Tail(@)]
    /\ UNCHANGED <<head, listenNext, cache, messageStore, toVisit, spawned,
                   inflight, received, crashes, fresh,
                   listenerUp, errReported>>

\* mergeMessages: MessageCache.Add(NewRouteMessage(m)) for every message of
\* the block, last write wins.
mergeMessages(c, h) ==
    /\ <<c, h>> \in merging
    /\ merging' = merging \ {<<c, h>>}
    /\ cache' = [m \in Msgs |-> IF m \in MsgsAt(c, h) THEN NewRouteMessage
                                ELSE cache[m]]
    /\ UNCHANGED <<head, listenNext, listenerChan, LastSavedHeight, blockStore,
                   messageStore, toVisit, spawned, inflight, received, crashes, fresh,
                   listenerUp, errReported, seen>>

(***************************************************************************)
(* processMessages, run by StartRouter every RouteDuration: the tick       *)
(* walks the cache map without holding its mutex, one key at a time.       *)
(***************************************************************************)
RouterTick ==
    /\ toVisit = {}
    /\ toVisit' = Cached
    /\ UNCHANGED <<head, listenNext, listenerChan, LastSavedHeight, blockStore,
                   merging, cache, messageStore, spawned, inflight, received,
                   crashes, fresh,
                   listenerUp, errReported, seen>>

\* chain_runtime.go shouldSendMessage: not while a delivery is in progress,
\* and not once the destination holds a receipt for the message.
\* ShouldReceiveMessage turns a MessageReceived RPC error into "do not send".
shouldSendMessage(m, rpcOk) ==
    /\ ~cache[m].IsProcessing
    /\ rpcOk
    /\ m \notin received

\* One key of the iteration: FindChainRuntime(dst) (unknown destinations
\* are logged and skipped), shouldSendMessage, then `go r.RouteMessage`.
processMessages(m) ==
    /\ m \in toVisit
    /\ toVisit' = toVisit \ {m}
    /\ \E rpcOk \in QueryOutcomes :
           spawned' = IF /\ m \in Cached
                         /\ FindChainRuntime(Dst[m])
                         /\ shouldSendMessage(m, rpcOk)
                         /\ spawned[m] < MaxSpawn
                      THEN [spawned EXCEPT ![m] = @ + 1]
                      ELSE spawned
    /\ UNCHANGED <<head, listenNext, listenerChan, LastSavedHeight, blockStore,
                   merging, cache, messageStore, inflight, received, crashes, fresh,
                   listenerUp, errReported, seen>>

(***************************************************************************)
(* RouteMessage goroutine: SetIsProcessing(true), IncrementRetry() on the *)
(* RouteMessage it was given (no effect on the cache if that object has   *)
(* been removed meanwhile), then Provider.Route, which registers the      *)
(* callback or returns an error that is only logged.                      *)
(***************************************************************************)
RouteMessage(m) ==
    /\ spawned[m] > 0
    /\ spawned' = [spawned EXCEPT ![m] = @ - 1]
    /\ cache' = IF m \in Cached
                THEN [cache EXCEPT ![m] = IncrementRetry(SetIsProcessing(@, TRUE))]
                ELSE cache
    /\ \/ inflight' = [inflight EXCEPT ![m] = @ + 1]
       \/ RouteCanError /\ UNCHANGED inflight
    /\ UNCHANGED <<head, listenNext, listenerChan, LastSavedHeight, blockStore,
                   merging, messageStore, toVisit, received, crashes, fresh,
                   listenerUp, errReported, seen>>

\* ClearMessages: remove from the source cache, then DeleteMessage from the
\* MessageStore (an error is only logged).
ClearMessages(m) ==
    /\ cache' = CacheRemove(m)
    /\ \E ok \in StoreOutcomes :
           messageStore' = IF ok THEN messageStore \ {m} ELSE messageStore

\* Bug variants: the StoreMessage error ignored (the message is removed
\* anyway); SetIsProcessing(false) forgotten below the retry budget.
OnFailureIgnoreStoreError(m) ==
    IF cache[m] = NoEntry THEN UNCHANGED <<cache, messageStore>>
    ELSE IF cache[m].Retry >= DefaultTxRetry
         THEN /\ \E ok \in StoreOutcomes :
                     messageStore' = IF ok THEN messageStore \cup {m}
                                     ELSE messageStore
              /\ cache' = [cache EXCEPT ![m] = NoEntry]
         ELSE /\ cache' = [cache EXCEPT ![m].IsProcessing = FALSE]
              /\ UNCHANGED messageStore

OnFailureNoReset(m) ==
    IF cache[m] # NoEntry /\ cache[m].Retry >= DefaultTxRetry
    THEN /\ messageStore' = messageStore \cup {m}
         /\ cache' = [cache EXCEPT ![m] = NoEntry]
    ELSE UNCHANGED <<cache, messageStore>>

\* Failure callback: look the key up; at the retry budget StoreMessage and
\* Remove (a store error returns early), else SetIsProcessing(false).
OnFailure(m) ==
    /\ IF cache[m] = NoEntry
       THEN UNCHANGED <<cache, messageStore>>
       ELSE IF cache[m].Retry >= DefaultTxRetry
            THEN \E ok \in StoreOutcomes :
                   IF ok THEN /\ messageStore' = messageStore \cup {m}
                              /\ cache' = CacheRemove(m)
                   ELSE UNCHANGED <<cache, messageStore>>
            ELSE /\ cache' = [cache EXCEPT ![m] = SetIsProcessing(@, FALSE)]
                 /\ UNCHANGED messageStore

\* The callback registered by RouteMessage, invoked once per Route call.
\* The destination executes the message at most once; a resend reverts.
callback(m) ==
    /\ inflight[m] > 0
    /\ inflight' = [inflight EXCEPT ![m] = @ - 1]
    /\ \/ /\ m \notin received
          /\ received' = received \cup {m}
          /\ ClearMessages(m)
       \/ /\ OnFailure(m)
          /\ UNCHANGED received
    /\ UNCHANGED <<head, listenNext, listenerChan, LastSavedHeight, blockStore,
                   merging, toVisit, spawned, crashes, fresh,
                   listenerUp, errReported, seen>>

(***************************************************************************)
(* lvldb ClearStore: delete every key in one batch.  An iterator error is  *)
(* swallowed (`return nil`) and nothing is deleted.  A failed batch write  *)
(* deletes nothing and makes NewRelayer, hence Start, fail; the process is *)
(* then started again from the same store, which is the next restart.     *)
(***************************************************************************)
ClearStore ==
    \E cleared \in StoreOutcomes :
        IF cleared THEN /\ blockStore' = [c \in Chains |-> 0]
                        /\ messageStore' = {}
        ELSE UNCHANGED <<blockStore, messageStore>>

\* NewRelayer: blockStore.GetLastStoredBlock (LVLDB.GetByKey); on any
\* error, not found and a failed read alike, LastSavedHeight stays 0.
GetLastStoredBlock(c, readOk) == IF readOk THEN blockStore'[c] ELSE 0

(***************************************************************************)
(* The process dies (a listener error on the error channel, the Go        *)
(* runtime's fatal concurrent map iteration and write, or a kill) and is  *)
(* started again: memory is lost and a transaction already submitted may  *)
(* still land.  NewRelayer clears the store if `fresh`, then loads each    *)
(* chain's checkpoint (GetLastStoredBlock; not found leaves 0), and each   *)
(* listener restarts at startFromHeight.                                   *)
(***************************************************************************)
CrashRestart ==
    /\ crashes < MaxCrashes
    /\ crashes' = crashes + 1
    /\ \E landed \in SUBSET {m \in Msgs : inflight[m] > 0} :
           received' = received \cup landed
    /\ \E f \in FreshStarts :
           /\ fresh' = f
           /\ IF f THEN ClearStore ELSE UNCHANGED <<blockStore, messageStore>>
    /\ \E readOk \in [Chains -> StoreOutcomes] :
           LastSavedHeight' = [c \in Chains |-> GetLastStoredBlock(c, readOk[c])]
    /\ listenNext' = [c \in Chains |->
                         startFromHeight(c, LastSavedHeight'[c], head[c])]
    /\ listenerUp' \in [Chains -> QueryOutcomes]
    /\ errReported' = FALSE
    /\ listenerChan' = [c \in Chains |-> <<>>]
    /\ merging' = {}
    /\ cache' = [m \in Msgs |-> NoEntry]
    /\ toVisit' = {}
    /\ spawned' = [m \in Msgs |-> 0]
    /\ inflight' = [m \in Msgs |-> 0]
    /\ UNCHANGED <<head, seen>>

(***************************************************************************)
(* StartChainListeners: eg.Wait() returns once every listener goroutine   *)
(* has returned, and only then is the first error sent on errorChan.      *)
(***************************************************************************)
ReportListenerError ==
    /\ \A c \in Chains : ~listenerUp[c]
    /\ ~errReported
    /\ errReported' = TRUE
    /\ UNCHANGED <<head, listenNext, listenerChan, LastSavedHeight, blockStore,
                   merging, cache, messageStore, toVisit, spawned, inflight,
                   received, crashes, fresh, listenerUp, seen>>

Next ==
    \/ \E c \in Chains : ChainAdvance(c) \/ ListenerEmit(c) \/ processBlockInfo(c)
    \/ \E c \in Chains, h \in 1..MaxHeight : mergeMessages(c, h)
    \/ RouterTick
    \/ \E m \in Msgs : processMessages(m) \/ RouteMessage(m) \/ callback(m)
    \/ ReportListenerError
    \/ CrashRestart

\* The router ticker, the block processors, the Go scheduler and the
\* provider (which invokes every callback) keep running; chains need not grow.
Fairness ==
    /\ \A c \in Chains : WF_vars(ListenerEmit(c)) /\ WF_vars(processBlockInfo(c))
    /\ \A c \in Chains, h \in 1..MaxHeight : WF_vars(mergeMessages(c, h))
    /\ WF_vars(RouterTick) /\ WF_vars(ReportListenerError)
    /\ \A m \in Msgs : /\ WF_vars(processMessages(m))
                       /\ WF_vars(RouteMessage(m))
                       /\ WF_vars(callback(m))

Spec == Init /\ [][Next]_vars /\ Fairness

(***************************************************************************)
(* Properties                                                              *)
(***************************************************************************)
TypeOK ==
    /\ head \in [Chains -> 1..MaxHeight]
    /\ listenNext \in [Chains -> 1..MaxHeight]
    /\ listenerChan \in [Chains -> Seq(1..MaxHeight)]
    /\ LastSavedHeight \in [Chains -> 0..MaxHeight]
    /\ blockStore \in [Chains -> 0..MaxHeight]
    /\ merging \subseteq Chains \X (1..MaxHeight)
    /\ cache \in [Msgs -> RouteMessageT \cup {NoEntry}]
    /\ messageStore \subseteq Msgs /\ received \subseteq Msgs
    /\ toVisit \subseteq Msgs
    /\ spawned \in [Msgs -> 0..MaxSpawn] /\ inflight \in [Msgs -> Nat]
    /\ crashes \in 0..MaxCrashes
    /\ fresh \in BOOLEAN
    /\ listenerUp \in [Chains -> BOOLEAN] /\ errReported \in BOOLEAN
    /\ seen \subseteq Msgs

\* Where a message can be while the relayer still owns it.
Pending(m) ==
    \/ cache[m] # NoEntry
    \/ Contains(listenerChan[Src[m]], Height[m])
    \/ <<Src[m], Height[m]>> \in merging

\* The current listener of m's source chain runs and has not yet passed
\* m's block, so it will hand the block to the block processor again.
Rescanned(m) == listenerUp[Src[m]] /\ listenNext[Src[m]] <= Height[m]

(* At-least-once delivery (spec section 1): a message whose block a       *)
(* block processor has taken (and checkpointed), in this run of the        *)
(* process or an earlier one, has been executed on its destination, is    *)
(* persisted in the MessageStore, is still held by a merge goroutine or    *)
(* the cache, or will be read again: SaveBlockHeight must not checkpoint   *)
(* past a message that only memory holds.                                  *)
NoMessageLoss ==
    \A m \in seen :
        m \in received \/ m \in messageStore \/ Pending(m) \/ Rescanned(m)

(* Checkpoint monotonicity (spec section 8): the height SaveBlockHeight   *)
(* persists for a chain never decreases, across restarts included; only   *)
(* the operator's full-store clear of a fresh start resets it.            *)
CheckpointMonotonic ==
    [][\/ \A c \in Chains : blockStore'[c] >= blockStore[c]
       \/ crashes' # crashes /\ fresh']_vars

(* Retry bound (spec section 8): a message still in the cache has been    *)
(* dispatched at most DefaultTxRetry times.                               *)
RetryBound ==
    \A m \in Cached : cache[m].Retry <= DefaultTxRetry

(* Cache/store exclusion (spec section 8): no key is at the same time in  *)
(* the MessageCache and in the MessageStore.                               *)
CacheStoreExclusive ==
    \A m \in Cached : m \notin messageStore

(* Every message the cache takes for a configured destination is, in the  *)
(* end, executed on the destination or escalated to the MessageStore.     *)
EventuallySettled ==
    \A m \in Msgs : Dst[m] \in Chains =>
        (cache[m] # NoEntry ~> (m \in received \/ m \in messageStore))

(* A message the cache takes for a configured destination eventually      *)
(* leaves it, cleared after delivery or escalated (spec 4.3: Delivered and *)
(* Escalated-to-store are terminal).  Violated when a block re-scanned     *)
(* after a restart brings back a message the destination already executed: *)
(* shouldSendMessage refuses it on every router tick and nothing removes it. *)
EventuallyEvicted ==
    \A m \in Msgs : Dst[m] \in Chains =>
        (cache[m] # NoEntry ~> cache[m] = NoEntry)

(* A start with the fresh flag runs on an empty store (spec sections 6 and *)
(* 8: after ClearStore every Get is not-found): no message is left in the  *)
(* MessageStore and each chain without a configured start height begins   *)
(* at the chain head.                                                      *)
FreshStartIsClean ==
    [][crashes' # crashes /\ fresh' =>
         /\ messageStore' = {}
         /\ \A c \in Chains : StartHeight[c] = 0 => listenNext'[c] = head[c]]_vars

(* Spec 4.3 and 7: a fatal listener error stops the relayer, all chains  *)
(* or none; it must eventually surface on the process's error channel.    *)
ListenerFailureSurfaces ==
    \A c \in Chains : ~listenerUp[c] ~> errReported

=============================================================================
