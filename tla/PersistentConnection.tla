------------------------ MODULE PersistentConnection ------------------------
(***************************************************************************)
(* The client of the Firebase Realtime Database that the app's             *)
(* DatabaseService stands on: FPersistentConnection.m, over FConnection.m, *)
(* FWebSocketConnection.m and FIRRetryHelper.m.                            *)
(*                                                                         *)
(* All of it runs on one serial dispatch queue, so an action is one block  *)
(* of that queue.  A closed FConnection is released and its delegate is    *)
(* weak: what its socket still reports reaches nobody.  The socket, the    *)
(* token provider and the service are not part of the sources modelled;    *)
(* they fail at any moment, lose every request not yet answered and answer *)
(* in any order, the credentials in theirs.  Left out are the statistics,  *)
(* the clock offset, the session and the data pushed by the service.       *)
(***************************************************************************)
EXTENDS Integers, FiniteSets

CONSTANTS
  Queries,
  Specs,           (* where FOutstandingQuery objects are allocated        *)
  MaxPuts,         (* writes that are ever made                            *)
  MaxCalls,        (* calls of the app and of the system                   *)
  MaxAttempts,     (* fetches of a token                                   *)
  MinRetryDelay, RetryExponent, MaxRetryDelay

ASSUME DelaysAssumption ==
  /\ MinRetryDelay \in Nat \ {0}
  /\ RetryExponent \in Nat \ {0}
  /\ MaxRetryDelay \in Nat /\ MinRetryDelay <= MaxRetryDelay

ASSUME MaxPutsAssumption == MaxPuts \in Nat

VARIABLES
  connectionState,
  interruptReasons,
  retryHelper,     (* [lastWasSuccess, currentRetryDelay, scheduledRetry]  *)
  authToken,       (* whether there is a credential                        *)
  forceAuthTokenRefresh,
  currentFetchTokenAttempt,
  fetches,         (* the calls of the token provider not yet answered     *)
  realtime,        (* the FConnection and its socket                       *)
  listens,         (* the FOutstandingQuery objects, by query              *)
  outstandingPuts, (* [index, hash, sent]                                  *)
  putCounter,
  putsToAck,
  onDisconnectQueue,     (* how many operations wait                       *)
  requestNumber,         (* of the next request of this connection         *)
  requestCBHash,         (* the requests whose answers have a callback     *)
  unackedListensCount,
  asked,           (* the listens this connection has asked for            *)
  completed,       (* how often the block of each write was called         *)
  calls

token == <<authToken, forceAuthTokenRefresh, currentFetchTokenAttempt, fetches>>
writes == <<outstandingPuts, putCounter, putsToAck, completed>>
requests == <<requestNumber, requestCBHash, unackedListensCount, asked>>
vars == <<connectionState, interruptReasons, retryHelper, token, realtime, listens, writes, onDisconnectQueue,
          requests, calls>>

Listens == [query : Queries, spec : Specs]
Reasons == {"waiting_for_open", "server_kill", "repo_interrupt"}
Puts == 1..MaxPuts

connected == connectionState \in {"authenticating", "connected"}
(* Slip: an authenticating connection takes writes.                         *)
WritesWhenConnected == connected
canSendWrites == connectionState = "connected"
shouldReconnect == interruptReasons = {}

-----------------------------------------------------------------------------
(* FIRRetryHelper.  The task is what its block captured; a task that was    *)
(* cancelled is not run, so only the last one counts.                       *)
NewHelper == [lastWasSuccess |-> TRUE, currentRetryDelay |-> 0, scheduledRetry |-> {}]
SignalSuccess(helper) == [helper EXCEPT !.lastWasSuccess = TRUE, !.currentRetryDelay = 0]
CancelRetry(helper) == [helper EXCEPT !.currentRetryDelay = 0, !.scheduledRetry = {}]

NextDelay(delay) ==
  IF delay = 0 THEN MinRetryDelay
  ELSE IF delay * RetryExponent <= MaxRetryDelay THEN delay * RetryExponent ELSE MaxRetryDelay

Retry(helper, forceRefresh) ==
  [lastWasSuccess |-> FALSE,
   currentRetryDelay |-> IF helper.lastWasSuccess THEN helper.currentRetryDelay
                         ELSE NextDelay(helper.currentRetryDelay),
   scheduledRetry |-> {[forceRefresh |-> forceRefresh]}]

(* The interrupts are those of the state after the step, forced is          *)
(* forceAuthTokenRefresh when it is called.                                 *)
TryScheduleReconnect(helper, forced) ==
  IF interruptReasons' = {}
  THEN retryHelper' = Retry(helper, forced) /\ forceAuthTokenRefresh' = FALSE
  ELSE retryHelper' = helper /\ forceAuthTokenRefresh' = forced

-----------------------------------------------------------------------------
(* Requests.  sendAction numbers a request and keeps its callback; with no  *)
(* callback only the number is used up.                                     *)
Request(rn, action, of) == [rn |-> rn, action |-> action, of |-> of]
Awaited(action) == {r \in requestCBHash : r.action = action}

ListenRequest(rn, listen) == Request(rn, "listen", <<listen.query, listen.spec>>)
PutRequest(rn, index) == Request(rn, "put", <<index>>)
OpRequest(rn) == Request(rn, "on_disconnect", << >>)
AuthRequest(rn, restore) == Request(rn, IF restore THEN "auth_restore" ELSE "auth", << >>)

Told(indices) == [p \in Puts |-> completed[p] + IF p \in indices THEN 1 ELSE 0]

(* Every listen, in the order the dictionary has them, then the writes in   *)
(* their order, then the operations.                                        *)
Orders == {f \in [listens -> 0..(Cardinality(listens) - 1)] : \A a, b \in listens : f[a] = f[b] => a = b}
(* Slip: the last write is sent first.                                      *)
RankFromLast(put) == Cardinality({p \in outstandingPuts : p.index > put.index})
RankOf(put) == Cardinality({p \in outstandingPuts : p.index < put.index})

RestoredListens(first, order) == {ListenRequest(first + order[l], l) : l \in listens}
(* Slip: what was sent on an earlier connection is not sent again.          *)
RestoredIfUnsent(first) == {PutRequest(first + RankOf(p), p.index) : p \in {q \in outstandingPuts : ~q.sent}}
RestoredPuts(first) == {PutRequest(first + RankOf(p), p.index) : p \in outstandingPuts}
RestoredOps(first) == {OpRequest(first + i) : i \in 0..(onDisconnectQueue - 1)}

RestoreState(kept) ==
  LET firstPut == requestNumber + Cardinality(listens)
      firstOp == firstPut + Cardinality(outstandingPuts) IN
  /\ \E order \in Orders :
       requestCBHash' = kept \cup RestoredListens(requestNumber, order) \cup RestoredPuts(firstPut) \cup RestoredOps(firstOp)
  /\ requestNumber' = firstOp + onDisconnectQueue
  /\ unackedListensCount' = unackedListensCount + Cardinality(listens)
  /\ asked' = asked \cup listens
  /\ outstandingPuts' = {[p EXCEPT !.sent = TRUE] : p \in outstandingPuts}
  /\ onDisconnectQueue' = 0
  /\ UNCHANGED <<listens, putCounter, putsToAck, completed>>

-----------------------------------------------------------------------------
(* Closing the FConnection calls onDisconnect at once.  No request of an    *)
(* earlier connection is awaited any more, so the numbers start again.      *)
SentTransactions == {p \in outstandingPuts : p.hash /\ p.sent}
IndicesOf(puts) == {p.index : p \in puts}

(* Slip: the count of listens outlives the connection.                      *)
ForgetButCount == requestCBHash' = {} /\ requestNumber' = 1 /\ UNCHANGED unackedListensCount /\ asked' = {}
ForgetRequests == requestCBHash' = {} /\ requestNumber' = 1 /\ unackedListensCount' = 0 /\ asked' = {}

DropConnection ==
  /\ connectionState' = "disconnected"
  /\ realtime' = "none"
  /\ outstandingPuts' = outstandingPuts \ SentTransactions
  /\ completed' = Told(IndicesOf(SentTransactions))
  /\ ForgetRequests
  /\ UNCHANGED <<currentFetchTokenAttempt, fetches, listens, putCounter, putsToAck, onDisconnectQueue>>

(* Whether the connection had lasted long enough is the clock's to say.     *)
OnDisconnect(reason, forced) ==
  /\ DropConnection
  /\ \E lastConnectionWasSuccessful \in IF realtime = "connected" THEN BOOLEAN ELSE {FALSE} :
       TryScheduleReconnect(IF reason = "server_reset" \/ lastConnectionWasSuccessful
                            THEN SignalSuccess(retryHelper) ELSE retryHelper, forced)

InterruptForReason(reason) ==
  /\ interruptReasons' = interruptReasons \cup {reason}
  /\ \/ /\ realtime # "none"
        /\ DropConnection
        /\ retryHelper' = SignalSuccess(retryHelper)
     \/ /\ realtime = "none"
        /\ connectionState' = "disconnected"
        /\ retryHelper' = SignalSuccess(CancelRetry(retryHelper))
        /\ UNCHANGED <<currentFetchTokenAttempt, fetches, realtime, listens, writes, onDisconnectQueue, requests>>
  /\ UNCHANGED <<authToken, forceAuthTokenRefresh>>

ResumeForReason(reason) ==
  /\ interruptReasons' = interruptReasons \ {reason}
  /\ IF connectionState = "disconnected" THEN TryScheduleReconnect(retryHelper, forceAuthTokenRefresh)
     ELSE UNCHANGED <<retryHelper, forceAuthTokenRefresh>>
  /\ UNCHANGED <<connectionState, authToken, currentFetchTokenAttempt, fetches, realtime, listens, writes,
                 onDisconnectQueue, requests>>

(* FRepo opens the connection once and interrupts and resumes it at will.   *)
Open == "waiting_for_open" \in interruptReasons /\ ResumeForReason("waiting_for_open")
GoOffline == InterruptForReason("repo_interrupt")
GoOnline == ResumeForReason("repo_interrupt")

(* Slip: the state is not looked at.                                        *)
ReachabilityInAnyState ==
  /\ interruptReasons' = interruptReasons
  /\ TryScheduleReconnect(SignalSuccess(retryHelper), forceAuthTokenRefresh)
  /\ UNCHANGED <<connectionState, authToken, currentFetchTokenAttempt, fetches, realtime, listens, writes,
                 onDisconnectQueue, requests>>

(* The network became reachable, or the app enters the foreground.          *)
ReachabilityCallback ==
  /\ interruptReasons' = interruptReasons
  /\ LET helper == SignalSuccess(retryHelper) IN
     IF connectionState = "disconnected" THEN TryScheduleReconnect(helper, forceAuthTokenRefresh)
     ELSE retryHelper' = helper /\ UNCHANGED forceAuthTokenRefresh
  /\ UNCHANGED <<connectionState, authToken, currentFetchTokenAttempt, fetches, realtime, listens, writes,
                 onDisconnectQueue, requests>>

-----------------------------------------------------------------------------
(* The block that tryScheduleReconnect gave to retry, and the callback of   *)
(* the token that it asks for.                                              *)
RetryBlock ==
  /\ currentFetchTokenAttempt < MaxAttempts
  /\ \E task \in retryHelper.scheduledRetry :
       /\ connectionState' = "getting_token"
       /\ currentFetchTokenAttempt' = currentFetchTokenAttempt + 1
       /\ fetches' = fetches \cup {[attempt |-> currentFetchTokenAttempt + 1, force |-> task.forceRefresh]}
       /\ retryHelper' = [retryHelper EXCEPT !.scheduledRetry = {}]
  /\ UNCHANGED <<interruptReasons, authToken, forceAuthTokenRefresh, realtime, listens, writes, onDisconnectQueue,
                 requests>>

OpenNetworkConnectionWithToken(given) ==
  /\ authToken' = given
  /\ connectionState' = "connecting"
  /\ realtime' = "opening"

IsLatest(fetch) == fetch.attempt = currentFetchTokenAttempt

(* Slip: nothing is scheduled after a fetch that failed.                    *)
FetchFailedForGood(fetch) ==
  /\ fetches' = fetches \ {fetch}
  /\ connectionState' = IF IsLatest(fetch) THEN "disconnected" ELSE connectionState
  /\ UNCHANGED <<interruptReasons, retryHelper, forceAuthTokenRefresh, authToken, currentFetchTokenAttempt, realtime,
                 listens, writes, onDisconnectQueue, requests>>

FetchFailed(fetch) ==
  /\ fetches' = fetches \ {fetch}
  /\ interruptReasons' = interruptReasons
  /\ IF IsLatest(fetch)
     THEN connectionState' = "disconnected" /\ TryScheduleReconnect(retryHelper, forceAuthTokenRefresh)
     ELSE UNCHANGED <<connectionState, retryHelper, forceAuthTokenRefresh>>
  /\ UNCHANGED <<authToken, currentFetchTokenAttempt, realtime, listens, writes, onDisconnectQueue, requests>>

FetchSucceeded(fetch, given) ==
  /\ fetches' = fetches \ {fetch}
  /\ IF IsLatest(fetch) /\ connectionState = "getting_token"
     THEN OpenNetworkConnectionWithToken(given)
     ELSE UNCHANGED <<connectionState, authToken, realtime>>
  /\ UNCHANGED <<interruptReasons, retryHelper, forceAuthTokenRefresh, currentFetchTokenAttempt, listens, writes,
                 onDisconnectQueue, requests>>

-----------------------------------------------------------------------------
(* The socket and the control messages.                                     *)
(* Slip: an open socket is taken for a handshake.                           *)
OpenIsReady ==
  /\ realtime = "opening"
  /\ realtime' = "open" /\ connectionState' = "connected"
  /\ UNCHANGED <<interruptReasons, retryHelper, token, listens, writes, onDisconnectQueue, requests>>

WebSocketDidOpen ==
  /\ realtime = "opening"
  /\ realtime' = "open"
  /\ UNCHANGED <<connectionState, interruptReasons, retryHelper, token, listens, writes, onDisconnectQueue, requests>>

(* Slip: nothing is restored after the credential.                          *)
SendAuthAlone(restore) ==
  /\ requestCBHash' = requestCBHash \cup {AuthRequest(requestNumber, FALSE)}
  /\ requestNumber' = requestNumber + 1
  /\ UNCHANGED <<unackedListensCount, asked>>

(* sendAuthAndRestoreStateAfterComplete                                     *)
SendAuth(restore) ==
  /\ requestCBHash' = requestCBHash \cup {AuthRequest(requestNumber, restore)}
  /\ requestNumber' = requestNumber + 1
  /\ UNCHANGED <<unackedListensCount, asked>>

(* restoreAuth                                                              *)
OnHandshake ==
  /\ realtime = "open"
  /\ realtime' = "connected"
  /\ IF authToken
     THEN /\ connectionState' = "authenticating"
          /\ SendAuth(TRUE)
          /\ UNCHANGED <<listens, writes, onDisconnectQueue>>
     ELSE connectionState' = "connected" /\ RestoreState(requestCBHash)
  /\ UNCHANGED <<interruptReasons, retryHelper, token>>

Lost(reason) ==
  /\ interruptReasons' = interruptReasons
  /\ OnDisconnect(reason, forceAuthTokenRefresh)
  /\ UNCHANGED <<authToken>>

(* The socket failed or was closed, by closeIfNeverConnected too.           *)
OnClosed == realtime # "none" /\ Lost("other")
OnReset == realtime \in {"open", "connected"} /\ Lost("server_reset")
OnConnectionShutdown == realtime \in {"open", "connected"} /\ InterruptForReason("server_kill")

(* The credential is refused: it is dropped before the connection is.       *)
CloseToRefresh ==
  /\ authToken' = FALSE
  /\ interruptReasons' = interruptReasons
  /\ OnDisconnect("other", TRUE)

OnAuthRevoked == realtime = "connected" /\ CloseToRefresh

-----------------------------------------------------------------------------
(* Answers.                                                                 *)
FirstAuth(r) ==
  /\ r.action \in {"auth", "auth_restore"}
  /\ \A q \in Awaited("auth") \cup Awaited("auth_restore") : r.rn <= q.rn

AuthAnswered(r) ==
  /\ FirstAuth(r)
  /\ connectionState' = "connected"
  /\ IF r.action = "auth_restore" THEN RestoreState(requestCBHash \ {r})
     ELSE /\ requestCBHash' = requestCBHash \ {r}
          /\ UNCHANGED <<listens, writes, onDisconnectQueue, requestNumber, unackedListensCount, asked>>
  /\ UNCHANGED <<interruptReasons, retryHelper, token, realtime>>

AuthRefused(r) == FirstAuth(r) /\ CloseToRefresh

PutAnswered(r) ==
  /\ r.action = "put"
  /\ requestCBHash' = requestCBHash \ {r}
  /\ LET answered == {p \in outstandingPuts : p.index = r.of[1]} IN
     /\ outstandingPuts' = outstandingPuts \ answered
     /\ IF unackedListensCount = 0
        THEN completed' = Told(IndicesOf(answered)) /\ UNCHANGED putsToAck
        ELSE putsToAck' = putsToAck \cup IndicesOf(answered) /\ UNCHANGED completed
  /\ UNCHANGED <<connectionState, interruptReasons, retryHelper, token, realtime, listens, putCounter,
                 onDisconnectQueue, requestNumber, unackedListensCount, asked>>

OpAnswered(r) ==
  /\ r.action = "on_disconnect"
  /\ requestCBHash' = requestCBHash \ {r}
  /\ UNCHANGED <<connectionState, interruptReasons, retryHelper, token, realtime, listens, writes, onDisconnectQueue,
                 requestNumber, unackedListensCount, asked>>

(* Slip: the blocks that were called stay.                                  *)
AckPutsAgain == completed' = Told(putsToAck) /\ UNCHANGED putsToAck
AckPuts ==
  /\ completed' = Told(putsToAck)
  /\ putsToAck' = {}

(* The specs that nothing refers to any more may be allocated again.        *)
FreeSpecs == {s \in Specs : /\ \A l \in listens : l.spec # s
                            /\ \A r \in Awaited("listen") : r.of[2] # s}

(* A listen that fails is removed and its block, in FSyncTree, may listen   *)
(* to another query before the count goes down.                             *)
ListenAnswered(r, ok, instead) ==
  LET current == {l \in listens : l.query = r.of[1] /\ l.spec = r.of[2]}
      failed == IF ok THEN {} ELSE current
      kept == requestCBHash \ {r}
      left == unackedListensCount - 1 + Cardinality(instead) IN
  /\ r.action = "listen"
  /\ instead # {} => failed # {}
  /\ \A l \in instead : l.spec \in FreeSpecs /\ \A m \in listens \ failed : m.query # l.query
  /\ listens' = (listens \ failed) \cup instead
  /\ requestCBHash' = kept \cup {ListenRequest(requestNumber, l) : l \in instead}
  /\ requestNumber' = requestNumber + Cardinality(instead)
  /\ asked' = (asked \ failed) \cup instead
  /\ unackedListensCount' = left
  /\ IF left = 0 THEN AckPuts ELSE UNCHANGED <<completed, putsToAck>>
  /\ UNCHANGED <<connectionState, interruptReasons, retryHelper, token, realtime, outstandingPuts, putCounter,
                 onDisconnectQueue>>

(* The queries at the path that the service names.                          *)
OnListenRevoked(queries) ==
  /\ connected
  /\ LET removed == {l \in listens : l.query \in queries} IN
     listens' = listens \ removed /\ asked' = asked \ removed
  /\ UNCHANGED <<connectionState, interruptReasons, retryHelper, token, realtime, writes, onDisconnectQueue,
                 requestNumber, requestCBHash, unackedListensCount>>

-----------------------------------------------------------------------------
(* Calls of the app, through FRepo and FSyncTree.                           *)
Listen(query, spec) ==
  /\ spec \in FreeSpecs /\ \A l \in listens : l.query # query
  /\ LET outstanding == [query |-> query, spec |-> spec] IN
     /\ listens' = listens \cup {outstanding}
     /\ IF connected
        THEN /\ requestCBHash' = requestCBHash \cup {ListenRequest(requestNumber, outstanding)}
             /\ requestNumber' = requestNumber + 1
             /\ unackedListensCount' = unackedListensCount + 1
             /\ asked' = asked \cup {outstanding}
        ELSE UNCHANGED requests
  /\ UNCHANGED <<connectionState, interruptReasons, retryHelper, token, realtime, writes, onDisconnectQueue>>

Unlisten(query) ==
  /\ \E outstanding \in listens :
       /\ outstanding.query = query
       /\ listens' = listens \ {outstanding}
       /\ asked' = asked \ {outstanding}
  /\ requestNumber' = IF connected THEN requestNumber + 1 ELSE requestNumber
  /\ UNCHANGED <<connectionState, interruptReasons, retryHelper, token, realtime, writes, onDisconnectQueue,
                 requestCBHash, unackedListensCount>>

PutInternal(hash) ==
  /\ putCounter <= MaxPuts
  /\ putCounter' = putCounter + 1
  /\ outstandingPuts' = outstandingPuts \cup {[index |-> putCounter, hash |-> hash, sent |-> canSendWrites]}
  /\ IF canSendWrites
     THEN /\ requestCBHash' = requestCBHash \cup {PutRequest(requestNumber, putCounter)}
          /\ requestNumber' = requestNumber + 1
     ELSE UNCHANGED <<requestCBHash, requestNumber>>
  /\ UNCHANGED <<connectionState, interruptReasons, retryHelper, token, realtime, listens, putsToAck, completed,
                 onDisconnectQueue, unackedListensCount, asked>>

(* onDisconnectPutData, onDisconnectMergeData and onDisconnectCancelPath.   *)
OnDisconnectData ==
  /\ IF canSendWrites
     THEN /\ requestCBHash' = requestCBHash \cup {OpRequest(requestNumber)}
          /\ requestNumber' = requestNumber + 1
          /\ UNCHANGED onDisconnectQueue
     ELSE onDisconnectQueue' = onDisconnectQueue + 1 /\ UNCHANGED <<requestCBHash, requestNumber>>
  /\ UNCHANGED <<connectionState, interruptReasons, retryHelper, token, realtime, listens, writes,
                 unackedListensCount, asked>>

(* Without a token the credential is withdrawn, by a request without answer.*)
RefreshAuthToken(given) ==
  /\ authToken' = given
  /\ IF connected
     THEN IF given THEN SendAuth(FALSE)
          ELSE requestNumber' = requestNumber + 1 /\ UNCHANGED <<requestCBHash, unackedListensCount, asked>>
     ELSE UNCHANGED requests
  /\ UNCHANGED <<connectionState, interruptReasons, retryHelper, forceAuthTokenRefresh, currentFetchTokenAttempt,
                 fetches, realtime, listens, writes, onDisconnectQueue>>

PurgeOutstandingWrites ==
  /\ completed' = [p \in Puts |-> Told(putsToAck)[p] + IF p \in IndicesOf(outstandingPuts) THEN 1 ELSE 0]
  /\ putsToAck' = {}
  /\ outstandingPuts' = {}
  /\ onDisconnectQueue' = 0
  /\ UNCHANGED <<connectionState, interruptReasons, retryHelper, token, realtime, listens, putCounter, requests>>

-----------------------------------------------------------------------------
Init ==
  /\ connectionState = "disconnected" /\ realtime = "none"
  /\ interruptReasons = {"waiting_for_open"}
  /\ retryHelper = NewHelper
  /\ authToken = FALSE /\ forceAuthTokenRefresh = FALSE
  /\ currentFetchTokenAttempt = 0 /\ fetches = {}
  /\ listens = {}
  /\ outstandingPuts = {} /\ putCounter = 1 /\ putsToAck = {} /\ completed = [p \in Puts |-> 0]
  /\ onDisconnectQueue = 0
  /\ requestNumber = 1 /\ requestCBHash = {} /\ unackedListensCount = 0 /\ asked = {}
  /\ calls = 0

Fetched ==
  \/ RetryBlock
  \/ \E fetch \in fetches : FetchFailed(fetch) \/ \E given \in BOOLEAN : FetchSucceeded(fetch, given)
Service ==
  \/ WebSocketDidOpen \/ OnHandshake \/ OnClosed \/ OnReset \/ OnConnectionShutdown \/ OnAuthRevoked
  \/ \E queries \in SUBSET Queries : OnListenRevoked(queries)
Answer ==
  \E r \in requestCBHash :
    \/ AuthAnswered(r) \/ AuthRefused(r) \/ PutAnswered(r) \/ OpAnswered(r)
    \/ \E ok \in BOOLEAN : ListenAnswered(r, ok, {})
Call ==
  \/ Open \/ GoOffline \/ GoOnline \/ ReachabilityCallback
  \/ \E query \in Queries : Unlisten(query) \/ \E spec \in Specs : Listen(query, spec)
  \/ \E hash \in BOOLEAN : PutInternal(hash)
  \/ \E given \in BOOLEAN : RefreshAuthToken(given)
  \/ \E r \in requestCBHash, l \in Listens : ListenAnswered(r, FALSE, {l})
  \/ OnDisconnectData \/ PurgeOutstandingWrites

Next ==
  \/ (Fetched \/ Service \/ Answer) /\ UNCHANGED calls
  \/ Call /\ calls < MaxCalls /\ calls' = calls + 1
Spec == Init /\ [][Next]_vars

-----------------------------------------------------------------------------
(* FConnection throws when it is asked to send before its handshake or      *)
(* after its end: whoever believes to be connected has a connection.        *)
SendsOnConnected ==
  /\ connected <=> realtime = "connected"
  /\ connectionState = "connecting" <=> realtime \in {"opening", "open"}

(* While nothing interrupts it the connection is always being worked on: a  *)
(* retry is due, or the latest fetch of a token is not yet answered, or     *)
(* there is a socket that will report.  Interrupted, it is left alone.      *)
NeverGivesUp ==
  /\ connectionState = "disconnected" => (interruptReasons = {} <=> retryHelper.scheduledRetry # {})
  /\ connectionState = "getting_token" => \E fetch \in fetches : IsLatest(fetch)
  /\ interruptReasons # {} => connectionState = "disconnected"

(* What tryScheduleReconnect and its blocks assert: a retry waits only when *)
(* disconnected, and the token of the latest attempt comes before anything  *)
(* was made of it.                                                          *)
AttemptsAreOrdered ==
  /\ retryHelper.scheduledRetry # {} => connectionState = "disconnected"
  /\ \A fetch \in fetches : IsLatest(fetch) => connectionState \in {"disconnected", "getting_token"}

(* The count that holds back the blocks of writes is that of the listens of *)
(* this connection not yet answered, whatever became of those listens.      *)
ListensAreCounted == unackedListensCount = Cardinality(Awaited("listen"))

(* On a connection that takes writes every outstanding write was sent, and  *)
(* its answer is awaited once; no operation waits, to be overtaken.         *)
WritesAreSent ==
  connectionState = "connected" =>
    /\ onDisconnectQueue = 0
    /\ \A p \in outstandingPuts :
         p.sent /\ \E r \in Awaited("put") : r.of = <<p.index>> /\ \A q \in Awaited("put") : q.of = r.of => q = r

(* Writes reach the service in the order in which the app made them, those  *)
(* sent again after a reconnection too.                                     *)
WritesKeepTheirOrder ==
  \A q, r \in Awaited("put") : q.of[1] < r.of[1] => q.rn < r.rn

(* A transaction that was sent and not answered is not sent again: the      *)
(* connection it was sent on has not ended.                                 *)
TransactionsAreSentOnce == \A p \in SentTransactions : connectionState = "connected"

(* A write is outstanding, or answered with its block held back, or its     *)
(* block was called, once.                                                  *)
WritesCompleteOnce ==
  \A p \in Puts :
    completed[p] + (IF p \in IndicesOf(outstandingPuts) THEN 1 ELSE 0) + (IF p \in putsToAck THEN 1 ELSE 0)
      = IF p < putCounter THEN 1 ELSE 0

(* The service is asked, on this connection, for what the app listens to,   *)
(* and for nothing it no longer listens to.                                 *)
ListensAreAskedFor ==
  /\ asked \subseteq listens
  /\ connectionState = "connected" => asked = listens

(* Whoever believes to be connected is, attempts come one at a time and in  *)
(* order, and while nothing interrupts it one is always due.                *)
ConnectionIsKept == SendsOnConnected /\ NeverGivesUp /\ AttemptsAreOrdered

(* Writes go out in order, again after a loss but for the transactions, and *)
(* each completes once.                                                     *)
WritesAreKept == WritesAreSent /\ WritesKeepTheirOrder /\ TransactionsAreSentOnce /\ WritesCompleteOnce

(* The listens of the app are those the service is asked for, and counted.  *)
ListensAreKept == ListensAreCounted /\ ListensAreAskedFor
=============================================================================
