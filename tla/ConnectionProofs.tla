-------------------------- MODULE ConnectionProofs --------------------------
(***************************************************************************)
(* The client of the database (PersistentConnection), for any queries, any *)
(* number of writes, calls and attempts: its connection, its listens and   *)
(* its writes.                                                             *)
(***************************************************************************)
EXTENDS PersistentConnection, FiniteSetTheorems, TLAPS

Helper == [lastWasSuccess : BOOLEAN, currentRetryDelay : 0..MaxRetryDelay, scheduledRetry : SUBSET [forceRefresh : BOOLEAN]]

(* The connection, by itself.                                               *)
LinkTypeOK ==
  /\ connectionState \in {"disconnected", "getting_token", "connecting", "authenticating", "connected"}
  /\ interruptReasons \subseteq Reasons
  /\ retryHelper \in Helper
  /\ authToken \in BOOLEAN /\ forceAuthTokenRefresh \in BOOLEAN
  /\ currentFetchTokenAttempt \in Nat
  /\ fetches \subseteq [attempt : Nat, force : BOOLEAN]
  /\ realtime \in {"none", "opening", "open", "connected"}

(* A fetch is of an attempt already made, one for each attempt.             *)
FetchesAreMade ==
  /\ \A fetch \in fetches : fetch.attempt <= currentFetchTokenAttempt
  /\ \A f, g \in fetches : f.attempt = g.attempt => f = g

LinkInv == LinkTypeOK /\ FetchesAreMade /\ SendsOnConnected /\ NeverGivesUp /\ AttemptsAreOrdered

(* The requests.                                                            *)
IsRequest(r) ==
  /\ r = Request(r.rn, r.action, r.of)
  /\ r.rn \in Nat
  /\ r.action \in {"listen", "put", "on_disconnect", "auth", "auth_restore"}
  /\ r.action = "listen" => r.of \in Queries \X Specs
  /\ r.action = "put" => \E i \in Puts : i < putCounter /\ r.of = <<i>>

RequestTypeOK ==
  /\ requestNumber \in Nat
  /\ IsFiniteSet(requestCBHash)
  /\ \A r \in requestCBHash : IsRequest(r) /\ r.rn < requestNumber
  /\ unackedListensCount \in Nat
  /\ listens \subseteq Listens /\ IsFiniteSet(listens)

(* Their numbers tell requests apart.                                       *)
NumbersAreUnique == \A q, r \in requestCBHash : q.rn = r.rn => q = r

(* Nothing is awaited without a connection.                                 *)
NothingAwaited == ~connected => requestCBHash = {} /\ asked = {}

(* While it authenticates, the first credential sent is the one after which *)
(* the state is restored, and no write was sent yet.                        *)
RestoresFirst ==
  /\ Awaited("auth_restore") # {} => connectionState = "authenticating"
  /\ connectionState = "authenticating" =>
       /\ Awaited("put") = {}
       /\ \E q \in Awaited("auth_restore") :
            /\ \A r \in Awaited("auth_restore") : r = q
            /\ \A r \in Awaited("auth") : q.rn < r.rn

RequestInv ==
  RequestTypeOK /\ NumbersAreUnique /\ NothingAwaited /\ RestoresFirst /\ ListensAreCounted /\ ListensAreAskedFor

(* The writes.                                                              *)
WriteTypeOK ==
  /\ putCounter \in 1..(MaxPuts + 1)
  /\ outstandingPuts \subseteq [index : Puts, hash : BOOLEAN, sent : BOOLEAN] /\ IsFiniteSet(outstandingPuts)
  /\ \A p \in outstandingPuts : p.index < putCounter
  /\ \A p, q \in outstandingPuts : p.index = q.index => p = q
  /\ putsToAck \subseteq Puts
  /\ completed \in [Puts -> Nat]
  /\ onDisconnectQueue \in Nat

PutsAreAwaitedOnce == \A q, r \in Awaited("put") : q.of = r.of => q = r

WriteInv ==
  /\ WriteTypeOK /\ PutsAreAwaitedOnce
  /\ WritesAreSent /\ WritesKeepTheirOrder /\ TransactionsAreSentOnce /\ WritesCompleteOnce

IInv == LinkInv /\ RequestInv /\ WriteInv

-----------------------------------------------------------------------------
(* The retry helper: its delay stays within the bounds, and only retry and  *)
(* cancel touch the task.                                                   *)
LEMMA HelperIsKept ==
  ASSUME NEW helper \in Helper, NEW forced \in BOOLEAN
  PROVE  /\ SignalSuccess(helper) \in Helper /\ SignalSuccess(helper).scheduledRetry = helper.scheduledRetry
         /\ CancelRetry(helper) \in Helper /\ CancelRetry(helper).scheduledRetry = {}
         /\ Retry(helper, forced) \in Helper /\ Retry(helper, forced).scheduledRetry = {[forceRefresh |-> forced]}
<1>1. MaxRetryDelay \in Nat /\ MinRetryDelay \in Nat /\ RetryExponent \in Nat /\ MinRetryDelay <= MaxRetryDelay
  BY DelaysAssumption
<1>2. \A delay \in 0..MaxRetryDelay : NextDelay(delay) \in 0..MaxRetryDelay
  <2> TAKE delay \in 0..MaxRetryDelay
  <2>1. delay * RetryExponent \in Nat
    BY <1>1
  <2> QED
    BY <1>1, <2>1 DEF NextDelay
<1>3. 0 \in 0..MaxRetryDelay
  BY <1>1
<1>4. SignalSuccess(helper) \in Helper /\ SignalSuccess(helper).scheduledRetry = helper.scheduledRetry
  BY <1>3 DEF Helper, SignalSuccess
<1>5. CancelRetry(helper) \in Helper /\ CancelRetry(helper).scheduledRetry = {}
  BY <1>3 DEF Helper, CancelRetry
<1>6. Retry(helper, forced) \in Helper /\ Retry(helper, forced).scheduledRetry = {[forceRefresh |-> forced]}
  BY <1>2 DEF Helper, Retry
<1> QED
  BY <1>4, <1>5, <1>6

(* A retry is due after tryScheduleReconnect unless the connection is       *)
(* interrupted, and then nothing changes.                                   *)
LEMMA RetryIsDue ==
  ASSUME NEW helper \in Helper, NEW forced \in BOOLEAN, TryScheduleReconnect(helper, forced)
  PROVE  /\ retryHelper' \in Helper /\ forceAuthTokenRefresh' \in BOOLEAN
         /\ interruptReasons' = {} => retryHelper'.scheduledRetry # {}
         /\ interruptReasons' # {} => retryHelper'.scheduledRetry = helper.scheduledRetry
<1>1. Retry(helper, forced) \in Helper /\ Retry(helper, forced).scheduledRetry = {[forceRefresh |-> forced]}
  BY HelperIsKept
<1>2. CASE interruptReasons' = {}
  BY <1>1, <1>2 DEF TryScheduleReconnect
<1>3. CASE interruptReasons' # {}
  BY <1>3 DEF TryScheduleReconnect
<1> QED
  BY <1>2, <1>3

(* What holds of every loss of the connection.                              *)
LEMMA LossKeepsLink ==
  ASSUME LinkInv, realtime # "none", interruptReasons' = interruptReasons, NEW reason, NEW forced \in BOOLEAN,
         OnDisconnect(reason, forced), authToken' \in BOOLEAN
  PROVE  LinkInv'
<1> USE DEF LinkInv, LinkTypeOK, SendsOnConnected, connected
<1>1. connectionState \in {"connecting", "authenticating", "connected"}
  OBVIOUS
<1>2. interruptReasons = {} /\ retryHelper.scheduledRetry = {}
  BY <1>1 DEF NeverGivesUp, AttemptsAreOrdered
<1>3. PICK helper \in {retryHelper, SignalSuccess(retryHelper)} : TryScheduleReconnect(helper, forced)
  BY DEF OnDisconnect
<1>4. helper \in Helper
  BY HelperIsKept
<1>5. retryHelper' \in Helper /\ forceAuthTokenRefresh' \in BOOLEAN /\ retryHelper'.scheduledRetry # {}
  BY <1>2, <1>3, <1>4, RetryIsDue
<1>6. connectionState' = "disconnected" /\ realtime' = "none" /\ UNCHANGED <<currentFetchTokenAttempt, fetches>>
  BY DEF OnDisconnect, DropConnection, ForgetRequests
<1> QED
  BY <1>2, <1>5, <1>6 DEF FetchesAreMade, NeverGivesUp, AttemptsAreOrdered, IsLatest

LEMMA InterruptKeepsLink ==
  ASSUME LinkInv, NEW reason \in Reasons, InterruptForReason(reason)
  PROVE  LinkInv'
<1> USE DEF LinkInv, LinkTypeOK, SendsOnConnected, connected
<1>1. CASE realtime # "none"
  <2>1. connectionState \in {"connecting", "authenticating", "connected"}
    BY <1>1
  <2>2. retryHelper.scheduledRetry = {}
    BY <2>1 DEF AttemptsAreOrdered
  <2>3. retryHelper' \in Helper /\ retryHelper'.scheduledRetry = {}
    BY <1>1, <2>2, HelperIsKept DEF InterruptForReason
  <2>4. connectionState' = "disconnected" /\ realtime' = "none" /\ UNCHANGED <<currentFetchTokenAttempt, fetches>>
    BY <1>1 DEF InterruptForReason, DropConnection, ForgetRequests
  <2>5. interruptReasons' = interruptReasons \cup {reason} /\ UNCHANGED <<authToken, forceAuthTokenRefresh>>
    BY DEF InterruptForReason
  <2> QED
    BY <2>3, <2>4, <2>5 DEF FetchesAreMade, NeverGivesUp, AttemptsAreOrdered, IsLatest
<1>2. CASE realtime = "none"
  <2>1. retryHelper' \in Helper /\ retryHelper'.scheduledRetry = {}
    BY <1>2, HelperIsKept DEF InterruptForReason
  <2>2. connectionState' = "disconnected" /\ UNCHANGED <<realtime, currentFetchTokenAttempt, fetches>>
    BY <1>2 DEF InterruptForReason
  <2>3. interruptReasons' = interruptReasons \cup {reason} /\ UNCHANGED <<authToken, forceAuthTokenRefresh>>
    BY DEF InterruptForReason
  <2> QED
    BY <1>2, <2>1, <2>2, <2>3 DEF FetchesAreMade, NeverGivesUp, AttemptsAreOrdered, IsLatest
<1> QED
  BY <1>1, <1>2

LEMMA ResumeKeepsLink ==
  ASSUME LinkInv, NEW reason, ResumeForReason(reason)
  PROVE  LinkInv'
<1> USE DEF LinkInv, LinkTypeOK, SendsOnConnected, connected
<1>1. interruptReasons' = interruptReasons \ {reason}
  BY DEF ResumeForReason
<1>2. UNCHANGED <<connectionState, realtime, authToken, currentFetchTokenAttempt, fetches>>
  BY DEF ResumeForReason
<1>3. CASE connectionState = "disconnected"
  <2>1. TryScheduleReconnect(retryHelper, forceAuthTokenRefresh)
    BY <1>3 DEF ResumeForReason
  <2>2. interruptReasons' # {} => retryHelper.scheduledRetry = {}
    BY <1>1, <1>3 DEF NeverGivesUp
  <2> QED
    BY <1>1, <1>2, <1>3, <2>1, <2>2, RetryIsDue DEF FetchesAreMade, NeverGivesUp, AttemptsAreOrdered, IsLatest
<1>4. CASE connectionState # "disconnected"
  <2>1. UNCHANGED <<retryHelper, forceAuthTokenRefresh>>
    BY <1>4 DEF ResumeForReason
  <2> QED
    BY <1>1, <1>2, <1>4, <2>1 DEF FetchesAreMade, NeverGivesUp, AttemptsAreOrdered, IsLatest
<1> QED
  BY <1>3, <1>4

LEMMA ReachabilityKeepsLink ==
  ASSUME LinkInv, ReachabilityCallback
  PROVE  LinkInv'
<1> USE DEF LinkInv, LinkTypeOK, SendsOnConnected, connected
<1> DEFINE helper == SignalSuccess(retryHelper)
<1>1. helper \in Helper /\ helper.scheduledRetry = retryHelper.scheduledRetry
  BY HelperIsKept
<1>2. UNCHANGED <<connectionState, interruptReasons, realtime, authToken, currentFetchTokenAttempt, fetches>>
  BY DEF ReachabilityCallback
<1>3. CASE connectionState = "disconnected"
  <2>1. TryScheduleReconnect(helper, forceAuthTokenRefresh)
    BY <1>3 DEF ReachabilityCallback
  <2> HIDE DEF helper
  <2>2. /\ retryHelper' \in Helper /\ forceAuthTokenRefresh' \in BOOLEAN
        /\ interruptReasons' = {} => retryHelper'.scheduledRetry # {}
        /\ interruptReasons' # {} => retryHelper'.scheduledRetry = retryHelper.scheduledRetry
    BY <1>1, <2>1, RetryIsDue
  <2> QED
    BY <1>2, <1>3, <2>2 DEF FetchesAreMade, NeverGivesUp, AttemptsAreOrdered, IsLatest
<1>4. CASE connectionState # "disconnected"
  <2>1. retryHelper' = helper /\ UNCHANGED forceAuthTokenRefresh
    BY <1>4 DEF ReachabilityCallback
  <2> HIDE DEF helper
  <2> QED
    BY <1>1, <1>2, <1>4, <2>1 DEF FetchesAreMade, NeverGivesUp, AttemptsAreOrdered, IsLatest
<1> QED
  BY <1>3, <1>4
(* The token's two answers.                                                 *)
LEMMA FetchKeepsLink ==
  ASSUME LinkInv, NEW fetch \in fetches, NEW given \in BOOLEAN,
         FetchFailed(fetch) \/ FetchSucceeded(fetch, given)
  PROVE  LinkInv'
<1> USE DEF LinkInv, LinkTypeOK, SendsOnConnected, connected
<1>1. fetches' = fetches \ {fetch} /\ UNCHANGED <<interruptReasons, currentFetchTokenAttempt>>
  BY DEF FetchFailed, FetchSucceeded
<1>2. CASE FetchFailed(fetch) /\ IsLatest(fetch)
  <2>1. connectionState \in {"disconnected", "getting_token"} /\ realtime = "none"
    BY <1>2 DEF AttemptsAreOrdered
  <2>2. connectionState' = "disconnected" /\ TryScheduleReconnect(retryHelper, forceAuthTokenRefresh)
    BY <1>2 DEF FetchFailed
  <2>3. UNCHANGED <<authToken, realtime>>
    BY <1>2 DEF FetchFailed
  <2>4. interruptReasons # {} => retryHelper.scheduledRetry = {}
    BY DEF NeverGivesUp
  <2>5. /\ retryHelper' \in Helper /\ forceAuthTokenRefresh' \in BOOLEAN
        /\ interruptReasons' = {} => retryHelper'.scheduledRetry # {}
        /\ interruptReasons' # {} => retryHelper'.scheduledRetry = retryHelper.scheduledRetry
    BY <2>2, RetryIsDue
  <2> QED
    BY <1>1, <2>1, <2>2, <2>3, <2>4, <2>5 DEF FetchesAreMade, NeverGivesUp, AttemptsAreOrdered, IsLatest
<1>3. CASE FetchSucceeded(fetch, given) /\ IsLatest(fetch) /\ connectionState = "getting_token"
  <2>1. connectionState' = "connecting" /\ realtime' = "opening" /\ authToken' = given
    <3>1. OpenNetworkConnectionWithToken(given)
      BY <1>3 DEF FetchSucceeded
    <3> QED
      BY <3>1 DEF OpenNetworkConnectionWithToken
  <2>2. UNCHANGED <<retryHelper, forceAuthTokenRefresh>>
    BY <1>3 DEF FetchSucceeded
  <2>3. retryHelper.scheduledRetry = {} /\ interruptReasons = {}
    BY <1>3 DEF AttemptsAreOrdered, NeverGivesUp
  <2>4. \A other \in fetches : IsLatest(other) => other = fetch
    BY <1>3 DEF IsLatest, FetchesAreMade
  <2>5. \A other \in fetches' : ~IsLatest(other)'
    BY <1>1, <2>4 DEF IsLatest
  <2> QED
    BY <1>1, <2>1, <2>2, <2>3, <2>5 DEF FetchesAreMade, NeverGivesUp, AttemptsAreOrdered, IsLatest
<1>4. CASE FetchFailed(fetch) /\ ~IsLatest(fetch)
  <2>1. UNCHANGED <<connectionState, retryHelper, forceAuthTokenRefresh, authToken, realtime>>
    BY <1>4 DEF FetchFailed
  <2> QED
    BY <1>1, <1>4, <2>1 DEF FetchesAreMade, NeverGivesUp, AttemptsAreOrdered, IsLatest
<1>5. CASE FetchSucceeded(fetch, given) /\ ~(IsLatest(fetch) /\ connectionState = "getting_token")
  <2>1. UNCHANGED <<connectionState, retryHelper, forceAuthTokenRefresh, authToken, realtime>>
    BY <1>5 DEF FetchSucceeded
  <2> QED
    BY <1>1, <1>5, <2>1 DEF FetchesAreMade, NeverGivesUp, AttemptsAreOrdered, IsLatest
<1> QED
  BY <1>2, <1>3, <1>4, <1>5

LEMMA RetryKeepsLink ==
  ASSUME LinkInv, RetryBlock
  PROVE  LinkInv'
<1> USE DEF LinkInv, LinkTypeOK, SendsOnConnected, connected
<1>1. PICK task \in retryHelper.scheduledRetry :
        /\ connectionState' = "getting_token"
        /\ currentFetchTokenAttempt' = currentFetchTokenAttempt + 1
        /\ fetches' = fetches \cup {[attempt |-> currentFetchTokenAttempt + 1, force |-> task.forceRefresh]}
        /\ retryHelper' = [retryHelper EXCEPT !.scheduledRetry = {}]
  BY DEF RetryBlock
<1>2. UNCHANGED <<interruptReasons, authToken, forceAuthTokenRefresh, realtime>>
  BY DEF RetryBlock
<1>3. connectionState = "disconnected" /\ interruptReasons = {} /\ realtime = "none"
  BY <1>1 DEF AttemptsAreOrdered, NeverGivesUp
<1>4. retryHelper' \in Helper /\ retryHelper'.scheduledRetry = {}
  BY <1>1 DEF Helper
<1>5. task.forceRefresh \in BOOLEAN
  BY <1>1 DEF Helper
<1>6. LinkTypeOK'
  BY <1>1, <1>2, <1>4, <1>5
<1>7. FetchesAreMade'
  BY <1>1 DEF FetchesAreMade
<1>8. NeverGivesUp'
  <2> DEFINE fetch == [attempt |-> currentFetchTokenAttempt + 1, force |-> task.forceRefresh]
  <2>1. fetch \in fetches' /\ fetch.attempt = currentFetchTokenAttempt'
    BY <1>1
  <2>2. \E latest \in fetches' : latest.attempt = currentFetchTokenAttempt'
    BY <2>1
  <2> QED
    BY <1>1, <1>2, <1>3, <2>2 DEF NeverGivesUp, IsLatest
<1>9. AttemptsAreOrdered'
  BY <1>1, <1>4 DEF AttemptsAreOrdered
<1> QED
  BY <1>1, <1>2, <1>3, <1>6, <1>7, <1>8, <1>9

(* The connection comes up.                                                 *)
LEMMA OpeningKeepsLink ==
  ASSUME LinkInv, WebSocketDidOpen \/ OnHandshake
  PROVE  LinkInv'
<1> USE DEF LinkInv, LinkTypeOK, SendsOnConnected, connected
<1>1. UNCHANGED <<interruptReasons, retryHelper, token>> /\ connectionState = "connecting"
  BY DEF WebSocketDidOpen, OnHandshake
<1>2. \/ realtime' = "open" /\ connectionState' = "connecting"
      \/ realtime' = "connected" /\ connectionState' \in {"authenticating", "connected"}
  BY <1>1 DEF WebSocketDidOpen, OnHandshake
<1>3. retryHelper.scheduledRetry = {} /\ interruptReasons = {}
  BY <1>1 DEF AttemptsAreOrdered, NeverGivesUp
<1> QED
  BY <1>1, <1>2, <1>3 DEF token, FetchesAreMade, NeverGivesUp, AttemptsAreOrdered, IsLatest

(* The rest of what happens leaves the connection as it is, or makes an     *)
(* authenticating one connected.                                            *)
LEMMA OthersKeepLink ==
  ASSUME LinkInv, UNCHANGED <<interruptReasons, retryHelper, forceAuthTokenRefresh, currentFetchTokenAttempt, fetches, realtime>>,
         authToken' \in BOOLEAN,
         connectionState' = connectionState \/ (connected /\ connectionState' = "connected")
  PROVE  LinkInv'
BY DEF LinkInv, LinkTypeOK, SendsOnConnected, connected, FetchesAreMade, NeverGivesUp, AttemptsAreOrdered, IsLatest

(* Every step of the connection: an answer needs one.                       *)
LEMMA LinkStep ==
  ASSUME LinkInv, NothingAwaited, [Next]_vars
  PROVE  LinkInv'
<1>1. CASE UNCHANGED vars
  BY <1>1, OthersKeepLink DEF vars, token, LinkInv, LinkTypeOK
<1>2. CASE Fetched
  BY <1>2, RetryKeepsLink, FetchKeepsLink DEF Fetched
<1>3. CASE Service
  <2>1. CASE WebSocketDidOpen \/ OnHandshake
    BY <2>1, OpeningKeepsLink
  <2>2. CASE OnClosed \/ OnReset
    <3>1. PICK reason \in {"other", "server_reset"} : realtime # "none" /\ Lost(reason)
      BY <2>2 DEF OnClosed, OnReset
    <3> QED
      BY <3>1, LossKeepsLink DEF Lost, LinkInv, LinkTypeOK
  <2>3. CASE OnConnectionShutdown
    BY <2>3, InterruptKeepsLink DEF OnConnectionShutdown, Reasons
  <2>4. CASE OnAuthRevoked
    BY <2>4, LossKeepsLink DEF OnAuthRevoked, CloseToRefresh, LinkInv, LinkTypeOK
  <2>5. CASE \E queries \in SUBSET Queries : OnListenRevoked(queries)
    BY <2>5, OthersKeepLink DEF OnListenRevoked, token, LinkInv, LinkTypeOK
  <2> QED
    BY <1>3, <2>1, <2>2, <2>3, <2>4, <2>5 DEF Service
<1>4. CASE Answer
  <2>1. PICK r \in requestCBHash :
          \/ AuthAnswered(r) \/ AuthRefused(r) \/ PutAnswered(r) \/ OpAnswered(r)
          \/ \E ok \in BOOLEAN : ListenAnswered(r, ok, {})
    BY <1>4 DEF Answer
  <2>2. connected /\ realtime = "connected"
    BY <2>1 DEF NothingAwaited, LinkInv, SendsOnConnected
  <2>3. CASE AuthRefused(r)
    BY <2>2, <2>3, LossKeepsLink DEF AuthRefused, CloseToRefresh, LinkInv, LinkTypeOK
  <2>4. CASE AuthAnswered(r)
    BY <2>2, <2>4, OthersKeepLink DEF AuthAnswered, token, LinkInv, LinkTypeOK
  <2>5. CASE PutAnswered(r) \/ OpAnswered(r)
    BY <2>5, OthersKeepLink DEF PutAnswered, OpAnswered, token, LinkInv, LinkTypeOK
  <2>6. CASE \E ok \in BOOLEAN : ListenAnswered(r, ok, {})
    BY <2>6, OthersKeepLink DEF ListenAnswered, token, LinkInv, LinkTypeOK
  <2> QED
    BY <2>1, <2>3, <2>4, <2>5, <2>6
<1>5. CASE Call
  <2>1. CASE Open \/ GoOnline
    BY <2>1, ResumeKeepsLink DEF Open, GoOnline
  <2>2. CASE GoOffline
    BY <2>2, InterruptKeepsLink DEF GoOffline, Reasons
  <2>3. CASE ReachabilityCallback
    BY <2>3, ReachabilityKeepsLink
  <2>4. CASE \E query \in Queries : Unlisten(query) \/ \E spec \in Specs : Listen(query, spec)
    BY <2>4, OthersKeepLink DEF Unlisten, Listen, token, LinkInv, LinkTypeOK
  <2>5. CASE \E hash \in BOOLEAN : PutInternal(hash)
    BY <2>5, OthersKeepLink DEF PutInternal, token, LinkInv, LinkTypeOK
  <2>6. CASE \E given \in BOOLEAN : RefreshAuthToken(given)
    <3>1. UNCHANGED <<connectionState, interruptReasons, retryHelper, forceAuthTokenRefresh, currentFetchTokenAttempt, fetches, realtime>>
      BY <2>6 DEF RefreshAuthToken
    <3>2. authToken' \in BOOLEAN
      BY <2>6 DEF RefreshAuthToken
    <3> QED
      BY <3>1, <3>2, OthersKeepLink
  <2>7. CASE \E r \in requestCBHash, l \in Listens : ListenAnswered(r, FALSE, {l})
    BY <2>7, OthersKeepLink DEF ListenAnswered, token, LinkInv, LinkTypeOK
  <2>8. CASE OnDisconnectData \/ PurgeOutstandingWrites
    BY <2>8, OthersKeepLink DEF OnDisconnectData, PurgeOutstandingWrites, token, LinkInv, LinkTypeOK
  <2> QED
    BY <1>5, <2>1, <2>2, <2>3, <2>4, <2>5, <2>6, <2>7, <2>8 DEF Call
<1> QED
  BY <1>1, <1>2, <1>3, <1>4, <1>5 DEF Next

-----------------------------------------------------------------------------
(* A set and its image under a function that tells its elements apart.      *)
LEMMA ImageIsCounted ==
  ASSUME NEW S, IsFiniteSet(S), NEW f, \A a, b \in S : f[a] = f[b] => a = b
  PROVE  IsFiniteSet({f[a] : a \in S}) /\ Cardinality({f[a] : a \in S}) = Cardinality(S)
<1> DEFINE T == {f[a] : a \in S}
           g == [a \in S |-> f[a]]
<1>1. g \in Bijection(S, T)
  BY DEF Bijection, Injection, Surjection, IsInjective
<1>2. ExistsBijection(S, T)
  BY <1>1 DEF ExistsBijection
<1> QED
  BY <1>2, FS_Bijection

LEMMA AwaitedIsFinite ==
  ASSUME RequestTypeOK, NEW action
  PROVE  IsFiniteSet(Awaited(action)) /\ Cardinality(Awaited(action)) \in Nat
<1>1. Awaited(action) \in SUBSET requestCBHash
  BY DEF Awaited
<1>2. IsFiniteSet(Awaited(action))
  BY <1>1, FS_Subset DEF RequestTypeOK
<1> QED
  BY <1>2, FS_CardinalityType

(* Steps that have nothing to do with the requests.                         *)
LEMMA RequestsLeftAlone ==
  ASSUME RequestInv, UNCHANGED listens, UNCHANGED requestNumber, UNCHANGED requestCBHash,
         UNCHANGED unackedListensCount, UNCHANGED asked, UNCHANGED putCounter,
         connectionState' = connectionState \/ (~connected /\ ~connected')
  PROVE  RequestInv'
<1>1. RequestTypeOK'
  BY DEF RequestInv, RequestTypeOK, IsRequest
<1>2. NumbersAreUnique'
  BY DEF RequestInv, NumbersAreUnique
<1>3. NothingAwaited' /\ RestoresFirst' /\ ListensAreAskedFor'
  <2>1. CASE connectionState' = connectionState
    BY <2>1 DEF RequestInv, NothingAwaited, RestoresFirst, ListensAreAskedFor, connected, Awaited
  <2>2. CASE ~connected /\ ~connected'
    BY <2>2 DEF RequestInv, NothingAwaited, RestoresFirst, ListensAreAskedFor, connected, Awaited
  <2> QED
    BY <2>1, <2>2
<1>4. ListensAreCounted'
  BY DEF RequestInv, ListensAreCounted, Awaited
<1> QED
  BY <1>1, <1>2, <1>3, <1>4 DEF RequestInv

(* A connection that is lost takes its requests with it.                    *)
LEMMA RequestsAreDropped ==
  ASSUME RequestInv, DropConnection
  PROVE  RequestInv'
<1>1. /\ requestCBHash' = {} /\ requestNumber' = 1 /\ unackedListensCount' = 0 /\ asked' = {}
      /\ connectionState' = "disconnected" /\ UNCHANGED listens
  BY DEF DropConnection, ForgetRequests
<1>2. RequestTypeOK'
  BY <1>1, FS_EmptySet DEF RequestInv, RequestTypeOK
<1>3. NumbersAreUnique' /\ NothingAwaited' /\ RestoresFirst' /\ ListensAreAskedFor'
  BY <1>1 DEF NumbersAreUnique, NothingAwaited, RestoresFirst, ListensAreAskedFor, connected, Awaited
<1>4. ListensAreCounted'
  <2>1. Awaited("listen")' = {}
    BY <1>1 DEF Awaited
  <2> QED
    BY <1>1, <2>1, FS_EmptySet DEF ListensAreCounted
<1> QED
  BY <1>2, <1>3, <1>4 DEF RequestInv

(* A request that is sent, or the credentials after which all is restored.  *)
LEMMA RequestIsAdded ==
  ASSUME RequestInv, connected, NEW r, IsRequest(r)', r.rn = requestNumber, r.action \in {"put", "on_disconnect", "auth"},
         r.action = "put" => connectionState = "connected",
         requestCBHash' = requestCBHash \cup {r}, requestNumber' = requestNumber + 1,
         UNCHANGED connectionState, UNCHANGED listens, UNCHANGED asked, UNCHANGED unackedListensCount,
         putCounter \in Nat, putCounter' \in Nat, putCounter <= putCounter'
  PROVE  RequestInv'
<1>1. RequestTypeOK'
  <2>1. \A q \in requestCBHash : IsRequest(q)' /\ q.rn < requestNumber'
    BY DEF RequestInv, RequestTypeOK, IsRequest, Puts
  <2>2. IsFiniteSet(requestCBHash')
    BY FS_AddElement DEF RequestInv, RequestTypeOK
  <2> QED
    BY <2>1, <2>2 DEF RequestInv, RequestTypeOK
<1>2. NumbersAreUnique'
  BY DEF RequestInv, RequestTypeOK, NumbersAreUnique, IsRequest
<1>3. /\ Awaited("listen")' = Awaited("listen") /\ Awaited("auth_restore")' = Awaited("auth_restore")
      /\ Awaited("put")' \subseteq Awaited("put") \cup {r} /\ Awaited("auth")' \subseteq Awaited("auth") \cup {r}
      /\ connectionState = "authenticating" => Awaited("put")' = Awaited("put")
  BY DEF Awaited
<1>4. ListensAreCounted' /\ ListensAreAskedFor' /\ NothingAwaited'
  BY <1>3 DEF RequestInv, ListensAreCounted, ListensAreAskedFor, NothingAwaited, connected
<1>5. RestoresFirst'
  <2>1. \A q \in Awaited("auth_restore") : q.rn < requestNumber
    BY DEF RequestInv, RequestTypeOK, Awaited
  <2> QED
    BY <1>3, <2>1 DEF RequestInv, RestoresFirst
<1> QED
  BY <1>1, <1>2, <1>4, <1>5 DEF RequestInv

(* An answer that changes nothing else about the requests.                  *)
LEMMA RequestIsRemoved ==
  ASSUME RequestInv, NEW r \in requestCBHash, r.action \in {"put", "on_disconnect", "auth"},
         requestCBHash' = requestCBHash \ {r}, UNCHANGED requestNumber,
         UNCHANGED connectionState, UNCHANGED listens, UNCHANGED asked, UNCHANGED unackedListensCount,
         UNCHANGED putCounter
  PROVE  RequestInv'
<1>1. RequestTypeOK'
  <2>1. IsFiniteSet(requestCBHash')
    BY FS_RemoveElement DEF RequestInv, RequestTypeOK
  <2> QED
    BY <2>1 DEF RequestInv, RequestTypeOK, IsRequest
<1>2. NumbersAreUnique'
  BY DEF RequestInv, NumbersAreUnique
<1>3. /\ Awaited("listen")' = Awaited("listen") /\ Awaited("auth_restore")' = Awaited("auth_restore")
      /\ Awaited("put")' \subseteq Awaited("put") /\ Awaited("auth")' \subseteq Awaited("auth")
  BY DEF Awaited
<1>4. ListensAreCounted' /\ ListensAreAskedFor' /\ NothingAwaited'
  BY <1>3 DEF RequestInv, ListensAreCounted, ListensAreAskedFor, NothingAwaited, connected
<1>5. RestoresFirst'
  BY <1>3 DEF RequestInv, RestoresFirst
<1> QED
  BY <1>1, <1>2, <1>4, <1>5 DEF RequestInv

(* The listens that the app makes and ends, or the service revokes.         *)
LEMMA ListenKeepsRequests ==
  ASSUME RequestInv, NEW query \in Queries, NEW spec \in Specs, Listen(query, spec)
  PROVE  RequestInv'
<1> DEFINE l == [query |-> query, spec |-> spec]
<1>0. PICK r : r = ListenRequest(requestNumber, l)
  OBVIOUS
<1>1. l \in Listens /\ listens' = listens \cup {l} /\ UNCHANGED <<connectionState, putCounter>>
  BY DEF Listen, Listens, writes
<1>2. l \notin listens
  BY DEF Listen
<1>3. IsFiniteSet(listens') /\ listens' \subseteq Listens
  <2> HIDE DEF l
  <2> QED
    BY <1>1, FS_AddElement DEF RequestInv, RequestTypeOK
<1>4. CASE ~connected
  <2>1. UNCHANGED <<requestNumber, requestCBHash, unackedListensCount, asked>> /\ requestCBHash = {} /\ asked = {}
    BY <1>4 DEF Listen, requests, RequestInv, NothingAwaited
  <2>2. RequestTypeOK'
    BY <1>1, <1>3, <2>1 DEF RequestInv, RequestTypeOK, IsRequest
  <2>3. NumbersAreUnique' /\ NothingAwaited' /\ RestoresFirst' /\ ListensAreCounted' /\ ListensAreAskedFor'
    BY <1>1, <1>4, <2>1 DEF RequestInv, NumbersAreUnique, NothingAwaited, RestoresFirst, ListensAreCounted,
                            ListensAreAskedFor, connected, Awaited
  <2> QED
    BY <2>2, <2>3 DEF RequestInv
<1>5. CASE connected
  <2>1. /\ requestCBHash' = requestCBHash \cup {r} /\ requestNumber' = requestNumber + 1
        /\ unackedListensCount' = unackedListensCount + 1 /\ asked' = asked \cup {l}
    BY <1>0, <1>5 DEF Listen
  <2>2. r.rn = requestNumber /\ r.action = "listen" /\ r.of \in Queries \X Specs /\ r = Request(r.rn, r.action, r.of)
    BY <1>0 DEF ListenRequest, Request
  <2> HIDE DEF l
  <2>3. r \notin requestCBHash
    BY <2>2 DEF RequestInv, RequestTypeOK
  <2>4. RequestTypeOK'
    <3>1. IsFiniteSet(requestCBHash')
      BY <2>1, FS_AddElement DEF RequestInv, RequestTypeOK
    <3>2. IsRequest(r)'
      BY <2>2 DEF IsRequest, RequestInv, RequestTypeOK
    <3>3. \A q \in requestCBHash : IsRequest(q)' /\ q.rn < requestNumber'
      BY <1>1, <2>1 DEF RequestInv, RequestTypeOK, IsRequest
    <3>4. requestNumber' \in Nat /\ unackedListensCount' \in Nat /\ r.rn < requestNumber'
      BY <2>1, <2>2 DEF RequestInv, RequestTypeOK
    <3> QED
      BY <1>3, <2>1, <3>1, <3>2, <3>3, <3>4 DEF RequestTypeOK
  <2>5. NumbersAreUnique'
    BY <2>1, <2>2 DEF RequestInv, RequestTypeOK, NumbersAreUnique, IsRequest
  <2>6. /\ Awaited("listen")' = Awaited("listen") \cup {r} /\ Awaited("auth_restore")' = Awaited("auth_restore")
        /\ Awaited("put")' = Awaited("put") /\ Awaited("auth")' = Awaited("auth") /\ r \notin Awaited("listen")
    BY <2>1, <2>2, <2>3 DEF Awaited
  <2>7. ListensAreCounted'
    BY <2>1, <2>6, AwaitedIsFinite, FS_AddElement DEF RequestInv, ListensAreCounted
  <2>8. NothingAwaited' /\ RestoresFirst' /\ ListensAreAskedFor'
    BY <1>1, <1>5, <2>1, <2>6 DEF RequestInv, NothingAwaited, RestoresFirst, ListensAreAskedFor, connected
  <2> QED
    BY <2>4, <2>5, <2>7, <2>8 DEF RequestInv
<1> QED
  BY <1>4, <1>5

LEMMA EndOfListensKeepsRequests ==
  ASSUME RequestInv, NEW removed \in SUBSET listens, listens' = listens \ removed, asked' = asked \ removed,
         requestNumber' \in Nat, requestNumber <= requestNumber', UNCHANGED requestCBHash,
         UNCHANGED unackedListensCount, UNCHANGED connectionState, UNCHANGED putCounter
  PROVE  RequestInv'
<1>1. RequestTypeOK'
  <2>1. IsFiniteSet(listens') /\ listens' \subseteq Listens
    BY FS_Subset DEF RequestInv, RequestTypeOK
  <2> QED
    BY <2>1 DEF RequestInv, RequestTypeOK, IsRequest
<1>2. NumbersAreUnique' /\ NothingAwaited' /\ RestoresFirst' /\ ListensAreCounted' /\ ListensAreAskedFor'
  BY DEF RequestInv, NumbersAreUnique, NothingAwaited, RestoresFirst, ListensAreCounted, ListensAreAskedFor,
         connected, Awaited
<1> QED
  BY <1>1, <1>2 DEF RequestInv

LEMMA ListenAnswerKeepsRequests ==
  ASSUME RequestInv, NEW r \in requestCBHash, NEW ok \in BOOLEAN, NEW instead, instead = {} \/ \E l \in Listens : instead = {l},
         ListenAnswered(r, ok, instead), UNCHANGED putCounter
  PROVE  RequestInv'
<1> DEFINE kept == requestCBHash \ {r}
           new == {ListenRequest(requestNumber, l) : l \in instead}
<1>1. PICK failed \in SUBSET listens : listens' = (listens \ failed) \cup instead /\ asked' = (asked \ failed) \cup instead
  <2> DEFINE current == {l \in listens : l.query = r.of[1] /\ l.spec = r.of[2]}
  <2>1. LET failed == IF ok THEN {} ELSE current IN
        listens' = (listens \ failed) \cup instead /\ asked' = (asked \ failed) \cup instead
    BY DEF ListenAnswered
  <2>2. (IF ok THEN {} ELSE current) \in SUBSET listens
    OBVIOUS
  <2> HIDE DEF current
  <2> QED
    BY <2>1, <2>2
<1>2. /\ r.action = "listen" /\ requestCBHash' = kept \cup new
      /\ requestNumber' = requestNumber + Cardinality(instead)
      /\ unackedListensCount' = unackedListensCount - 1 + Cardinality(instead)
      /\ UNCHANGED connectionState
  BY DEF ListenAnswered
<1>3. connected
  BY DEF RequestInv, NothingAwaited
<1>4. IsFiniteSet(kept)
  BY FS_RemoveElement DEF RequestInv, RequestTypeOK
<1>5. PICK others : others = Awaited("listen") \ {r}
  OBVIOUS
<1>6. IsFiniteSet(others) /\ Cardinality(others) \in Nat /\ unackedListensCount = Cardinality(others) + 1
  <2>1. IsFiniteSet(Awaited("listen")) /\ Cardinality(Awaited("listen")) \in Nat
    BY AwaitedIsFinite DEF RequestInv
  <2>2. r \in Awaited("listen") /\ unackedListensCount = Cardinality(Awaited("listen"))
    BY <1>2 DEF Awaited, RequestInv, ListensAreCounted
  <2>3. IsFiniteSet(others) /\ Cardinality(others) = Cardinality(Awaited("listen")) - 1
    BY <1>5, <2>1, <2>2, FS_RemoveElement
  <2>4. Cardinality(others) \in Nat
    BY <2>3, FS_CardinalityType
  <2> QED
    BY <2>1, <2>2, <2>3, <2>4
<1>7. CASE instead = {}
  <2>1. requestCBHash' = kept /\ Cardinality(instead) = 0
    BY <1>2, <1>7, FS_EmptySet
  <2>2. /\ Awaited("listen")' = others /\ Awaited("auth_restore")' = Awaited("auth_restore")
        /\ Awaited("put")' = Awaited("put") /\ Awaited("auth")' = Awaited("auth")
    BY <1>2, <1>5, <2>1 DEF Awaited
  <2>3. IsFiniteSet(listens') /\ listens' \subseteq Listens
    BY <1>1, <1>7, FS_Subset DEF RequestInv, RequestTypeOK
  <2>4. requestNumber \in Nat
    BY DEF RequestInv, RequestTypeOK
  <2>5. unackedListensCount' = Cardinality(Awaited("listen")') /\ unackedListensCount' \in Nat
    BY <1>2, <1>6, <2>1, <2>2
  <2>6. RequestTypeOK'
    <3>1. requestNumber' = requestNumber
      BY <1>2, <2>1, <2>4
    <3>2. \A q \in requestCBHash : IsRequest(q)' /\ q.rn < requestNumber'
      BY <3>1 DEF RequestInv, RequestTypeOK, IsRequest
    <3> QED
      BY <1>4, <2>1, <2>3, <2>4, <2>5, <3>1, <3>2 DEF RequestTypeOK
  <2>7. NumbersAreUnique' /\ NothingAwaited' /\ RestoresFirst' /\ ListensAreAskedFor'
    BY <1>1, <1>2, <1>3, <1>7, <2>1, <2>2 DEF RequestInv, NumbersAreUnique, NothingAwaited, RestoresFirst,
                                              ListensAreAskedFor, connected
  <2> QED
    BY <2>5, <2>6, <2>7 DEF RequestInv, ListensAreCounted
<1>8. CASE \E l \in Listens : instead = {l}
  <2>1. PICK l \in Listens : instead = {l}
    BY <1>8
  <2>0. PICK s : s = ListenRequest(requestNumber, l)
    OBVIOUS
  <2>2. s.rn = requestNumber /\ s.action = "listen" /\ s.of \in Queries \X Specs /\ s = Request(s.rn, s.action, s.of)
    BY <2>0 DEF ListenRequest, Request, Listens
  <2>3. requestCBHash' = kept \cup {s} /\ Cardinality(instead) = 1
    BY <1>2, <2>0, <2>1, FS_Singleton
  <2>4. s \notin requestCBHash
    BY <2>2 DEF RequestInv, RequestTypeOK
  <2>5. /\ Awaited("listen")' = others \cup {s} /\ Awaited("auth_restore")' = Awaited("auth_restore")
        /\ Awaited("put")' = Awaited("put") /\ Awaited("auth")' = Awaited("auth") /\ s \notin others
    BY <1>2, <1>5, <2>2, <2>3, <2>4 DEF Awaited
  <2>6. IsFiniteSet(listens') /\ listens' \subseteq Listens
    <3>1. IsFiniteSet(listens \ failed)
      BY FS_Subset DEF RequestInv, RequestTypeOK
    <3> QED
      BY <1>1, <2>1, <3>1, FS_AddElement DEF RequestInv, RequestTypeOK
  <2>7. unackedListensCount \in Nat /\ requestNumber \in Nat
    BY DEF RequestInv, RequestTypeOK
  <2>8. unackedListensCount' = Cardinality(Awaited("listen")') /\ unackedListensCount' \in Nat
    BY <1>2, <1>6, <2>3, <2>5, <2>7, FS_AddElement
  <2>9. RequestTypeOK'
    <3>1. IsFiniteSet(requestCBHash')
      BY <1>4, <2>3, FS_AddElement
    <3>2. requestNumber' = requestNumber + 1
      BY <1>2, <2>3
    <3>3. IsRequest(s)' /\ s.rn < requestNumber'
      BY <2>2, <2>7, <3>2 DEF IsRequest
    <3>4. \A q \in kept : IsRequest(q)' /\ q.rn < requestNumber'
      BY <2>7, <3>2 DEF RequestInv, RequestTypeOK, IsRequest
    <3> QED
      BY <2>3, <2>6, <2>7, <2>8, <3>1, <3>2, <3>3, <3>4 DEF RequestTypeOK
  <2>10. NumbersAreUnique'
    BY <2>2, <2>3 DEF RequestInv, RequestTypeOK, NumbersAreUnique, IsRequest
  <2>11. NothingAwaited' /\ RestoresFirst' /\ ListensAreAskedFor'
    BY <1>1, <1>2, <1>3, <2>5 DEF RequestInv, NothingAwaited, RestoresFirst, ListensAreAskedFor, connected
  <2> QED
    BY <2>8, <2>9, <2>10, <2>11 DEF RequestInv, ListensAreCounted
<1> QED
  BY <1>7, <1>8

(* The rank of a write among those outstanding grows with its index.        *)
LEMMA RankIsOrdered ==
  ASSUME WriteTypeOK, NEW p \in outstandingPuts
  PROVE  /\ RankOf(p) \in Nat /\ RankOf(p) < Cardinality(outstandingPuts) /\ Cardinality(outstandingPuts) \in Nat
         /\ \A q \in outstandingPuts : p.index < q.index => RankOf(p) < RankOf(q)
<1> DEFINE Below(q) == {o \in outstandingPuts : o.index < q.index}
<1>0. \A q \in outstandingPuts : q.index \in Nat
  BY MaxPutsAssumption DEF WriteTypeOK, Puts
<1>1. \A q \in outstandingPuts : Below(q) \in SUBSET outstandingPuts /\ q \notin Below(q)
  BY <1>0
<1>2. Below(p) \cup {p} \in SUBSET outstandingPuts
  BY <1>1
<1>3. \A q \in outstandingPuts : p.index < q.index => Below(p) \cup {p} \in SUBSET Below(q)
  BY <1>0
<1> HIDE DEF Below
<1>4. \A q \in outstandingPuts : IsFiniteSet(Below(q)) /\ Cardinality(Below(q)) \in Nat
  BY <1>1, FS_Subset, FS_CardinalityType DEF WriteTypeOK
<1>5. IsFiniteSet(Below(p) \cup {p}) /\ Cardinality(Below(p) \cup {p}) = Cardinality(Below(p)) + 1
  BY <1>1, <1>4, FS_AddElement
<1>6. Cardinality(Below(p) \cup {p}) <= Cardinality(outstandingPuts) /\ Cardinality(outstandingPuts) \in Nat
  BY <1>2, FS_Subset, FS_CardinalityType DEF WriteTypeOK
<1>7. \A q \in outstandingPuts : p.index < q.index => Cardinality(Below(p) \cup {p}) <= Cardinality(Below(q))
  BY <1>3, <1>4, FS_Subset
<1>8. \A q \in outstandingPuts : RankOf(q) = Cardinality(Below(q))
  BY DEF RankOf, Below
<1>9. RankOf(p) \in Nat /\ RankOf(p) < Cardinality(outstandingPuts) /\ Cardinality(outstandingPuts) \in Nat
  BY <1>4, <1>5, <1>6, <1>8
<1>10. ASSUME NEW q \in outstandingPuts, p.index < q.index PROVE RankOf(p) < RankOf(q)
  <2>1. Cardinality(Below(p)) + 1 <= Cardinality(Below(q))
    BY <1>5, <1>7, <1>10
  <2>2. Cardinality(Below(p)) \in Nat /\ Cardinality(Below(q)) \in Nat
    BY <1>4
  <2>3. Cardinality(Below(p)) < Cardinality(Below(q))
    BY <2>1, <2>2
  <2> QED
    BY <1>8, <2>3
<1> QED
  BY <1>9, <1>10

(* What is sent again: the listens, then the writes in their order, then    *)
(* the operations, each with a number of its own.                           *)
LEMMA RestoredListensAreNumbered ==
  ASSUME RequestTypeOK, NEW first \in Nat, NEW order \in Orders
  PROVE  /\ IsFiniteSet(RestoredListens(first, order))
         /\ Cardinality(RestoredListens(first, order)) = Cardinality(listens)
         /\ \A q \in RestoredListens(first, order) :
              /\ q = Request(q.rn, q.action, q.of) /\ q.action = "listen" /\ q.of \in Queries \X Specs
              /\ q.rn \in first..(first + Cardinality(listens) - 1)
              /\ \A r \in RestoredListens(first, order) : q.rn = r.rn => q = r
<1> DEFINE f == [l \in listens |-> ListenRequest(first + order[l], l)]
<1>1. Cardinality(listens) \in Nat
  BY FS_CardinalityType DEF RequestTypeOK
<1>2. /\ \A l \in listens : order[l] \in 0..(Cardinality(listens) - 1)
      /\ \A k, l \in listens : order[k] = order[l] => k = l
  BY DEF Orders
<1>3. \A l \in listens : /\ f[l].rn = first + order[l] /\ f[l] = Request(f[l].rn, f[l].action, f[l].of)
                         /\ f[l].action = "listen" /\ f[l].of \in Queries \X Specs
  BY DEF ListenRequest, Request, RequestTypeOK, Listens
<1>4. RestoredListens(first, order) = {f[l] : l \in listens}
  BY DEF RestoredListens
<1> HIDE DEF f
<1>5. \A k, l \in listens : f[k].rn = f[l].rn => k = l
  BY <1>1, <1>2, <1>3
<1>6. IsFiniteSet({f[l] : l \in listens}) /\ Cardinality({f[l] : l \in listens}) = Cardinality(listens)
  BY <1>5, ImageIsCounted DEF RequestTypeOK
<1>7. ASSUME NEW q \in {f[l] : l \in listens}
      PROVE  /\ q = Request(q.rn, q.action, q.of) /\ q.action = "listen" /\ q.of \in Queries \X Specs
             /\ q.rn \in first..(first + Cardinality(listens) - 1)
             /\ \A r \in {f[l] : l \in listens} : q.rn = r.rn => q = r
  BY <1>1, <1>2, <1>3, <1>5
<1> QED
  BY <1>4, <1>6, <1>7

LEMMA RestoredPutsAreNumbered ==
  ASSUME WriteTypeOK, NEW first \in Nat
  PROVE  /\ IsFiniteSet(RestoredPuts(first))
         /\ \A p \in outstandingPuts : PutRequest(first + RankOf(p), p.index) \in RestoredPuts(first)
         /\ \A q \in RestoredPuts(first) :
              /\ q = Request(q.rn, q.action, q.of) /\ q.action = "put"
              /\ \E i \in Puts : i < putCounter /\ q.of = <<i>>
              /\ q.rn \in first..(first + Cardinality(outstandingPuts) - 1)
              /\ \A r \in RestoredPuts(first) : /\ q.rn = r.rn => q = r
                                                /\ q.of = r.of => q = r
                                                /\ q.of[1] < r.of[1] => q.rn < r.rn
<1> DEFINE f == [p \in outstandingPuts |-> PutRequest(first + RankOf(p), p.index)]
<1>0. \A p \in outstandingPuts : p.index \in Puts /\ p.index \in Nat /\ p.index < putCounter
  BY MaxPutsAssumption DEF WriteTypeOK, Puts
<1>1. \A p \in outstandingPuts : /\ RankOf(p) \in 0..(Cardinality(outstandingPuts) - 1) /\ Cardinality(outstandingPuts) \in Nat
                                 /\ \A q \in outstandingPuts : p.index < q.index => RankOf(p) < RankOf(q)
  BY RankIsOrdered
<1>2. \A p, q \in outstandingPuts : RankOf(p) = RankOf(q) \/ p.index = q.index => p = q
  BY <1>0, <1>1 DEF WriteTypeOK
<1>3. \A p \in outstandingPuts : /\ f[p].rn = first + RankOf(p) /\ f[p] = Request(f[p].rn, f[p].action, f[p].of)
                                 /\ f[p].action = "put" /\ f[p].of = <<p.index>>
  BY DEF PutRequest, Request
<1>4. RestoredPuts(first) = {f[p] : p \in outstandingPuts}
  BY DEF RestoredPuts
<1>5. \A p \in outstandingPuts : f[p] = PutRequest(first + RankOf(p), p.index)
  OBVIOUS
<1> HIDE DEF f
<1>6. \A p, q \in outstandingPuts : f[p].rn = f[q].rn => p = q
  BY <1>1, <1>2, <1>3
<1>7. IsFiniteSet({f[p] : p \in outstandingPuts})
  BY <1>6, ImageIsCounted DEF WriteTypeOK
<1>8. ASSUME NEW p \in outstandingPuts
      PROVE  /\ f[p] = Request(f[p].rn, f[p].action, f[p].of) /\ f[p].action = "put"
             /\ \E i \in Puts : i < putCounter /\ f[p].of = <<i>>
             /\ f[p].rn \in first..(first + Cardinality(outstandingPuts) - 1)
  BY <1>0, <1>1, <1>3
<1>9. ASSUME NEW p \in outstandingPuts, NEW q \in outstandingPuts
      PROVE  /\ f[p].rn = f[q].rn => f[p] = f[q]
             /\ f[p].of = f[q].of => f[p] = f[q]
             /\ f[p].of[1] < f[q].of[1] => f[p].rn < f[q].rn
  <2>1. f[p].of[1] = p.index /\ f[q].of[1] = q.index
    BY <1>3
  <2>2. f[p].rn = f[q].rn => f[p] = f[q]
    BY <1>6
  <2>3. f[p].of = f[q].of => f[p] = f[q]
    BY <1>2, <2>1
  <2>4. p.index < q.index => f[p].rn < f[q].rn
    BY <1>1, <1>3
  <2> QED
    BY <2>1, <2>2, <2>3, <2>4
<1> QED
  BY <1>4, <1>5, <1>7, <1>8, <1>9

LEMMA RestoredOpsAreNumbered ==
  ASSUME NEW first \in Nat, NEW n \in Nat, onDisconnectQueue = n
  PROVE  /\ IsFiniteSet(RestoredOps(first))
         /\ \A q \in RestoredOps(first) :
              /\ q = Request(q.rn, q.action, q.of) /\ q.action = "on_disconnect"
              /\ q.rn \in first..(first + n - 1)
              /\ \A r \in RestoredOps(first) : q.rn = r.rn => q = r
<1> DEFINE S == 0..(n - 1)
           f == [i \in S |-> OpRequest(first + i)]
<1>1. \A i \in S : /\ f[i] = Request(f[i].rn, f[i].action, f[i].of) /\ f[i].action = "on_disconnect"
                   /\ f[i].rn = first + i
  BY DEF OpRequest, Request
<1>2. RestoredOps(first) = {f[i] : i \in S}
  BY DEF RestoredOps
<1>3. IsFiniteSet(S)
  BY FS_Interval
<1> HIDE DEF f
<1>4. \A i, j \in S : f[i] = f[j] => i = j
  BY <1>1
<1>5. IsFiniteSet({f[i] : i \in S})
  <2> HIDE DEF S
  <2> QED
    BY <1>3, <1>4, ImageIsCounted
<1>6. ASSUME NEW i \in S
      PROVE  /\ f[i] = Request(f[i].rn, f[i].action, f[i].of) /\ f[i].action = "on_disconnect"
             /\ f[i].rn \in first..(first + n - 1)
             /\ \A j \in S : f[i].rn = f[j].rn => f[i] = f[j]
  BY <1>1
<1> QED
  BY <1>2, <1>5, <1>6

(* The state is restored: all that waited is sent, on a connection whose    *)
(* other requests are credentials and listens.                              *)
LEMMA RestoreKeepsRequestsAndWrites ==
  ASSUME RequestInv, WriteInv, NEW kept \in SUBSET requestCBHash, RestoreState(kept), connectionState' = "connected",
         \A q \in kept : q.action \notin {"put", "auth_restore"}, Awaited("listen") \subseteq kept
  PROVE  RequestInv' /\ WriteInv'
<1>1. PICK n, m, k : n = requestNumber /\ m = n + Cardinality(listens) /\ k = m + Cardinality(outstandingPuts)
  OBVIOUS
<1>2. PICK order \in Orders :
        requestCBHash' = kept \cup RestoredListens(n, order) \cup RestoredPuts(m) \cup RestoredOps(k)
  BY <1>1 DEF RestoreState
<1>3. /\ requestNumber' = k + onDisconnectQueue /\ unackedListensCount' = unackedListensCount + Cardinality(listens)
      /\ asked' = asked \cup listens /\ outstandingPuts' = {[p EXCEPT !.sent = TRUE] : p \in outstandingPuts}
      /\ onDisconnectQueue' = 0 /\ UNCHANGED listens /\ UNCHANGED putCounter /\ UNCHANGED putsToAck /\ UNCHANGED completed
  BY <1>1 DEF RestoreState
<1>4. PICK L, P, O : L = RestoredListens(n, order) /\ P = RestoredPuts(m) /\ O = RestoredOps(k)
  OBVIOUS
<1>5. /\ n \in Nat /\ Cardinality(listens) \in Nat /\ Cardinality(outstandingPuts) \in Nat /\ onDisconnectQueue \in Nat
      /\ m \in Nat /\ k \in Nat /\ n <= m /\ m <= k /\ requestNumber' \in Nat
  <2>1. n \in Nat /\ Cardinality(listens) \in Nat /\ Cardinality(outstandingPuts) \in Nat /\ onDisconnectQueue \in Nat
    BY <1>1, FS_CardinalityType DEF RequestInv, RequestTypeOK, WriteInv, WriteTypeOK
  <2> QED
    BY <1>1, <1>3, <2>1
<1>6. /\ IsFiniteSet(L) /\ Cardinality(L) = Cardinality(listens)
      /\ \A q \in L : /\ q = Request(q.rn, q.action, q.of) /\ q.action = "listen" /\ q.of \in Queries \X Specs
                      /\ q.rn \in n..(m - 1) /\ \A r \in L : q.rn = r.rn => q = r
  BY <1>1, <1>4, <1>5, RestoredListensAreNumbered DEF RequestInv
<1>7. /\ IsFiniteSet(P) /\ \A p \in outstandingPuts : PutRequest(m + RankOf(p), p.index) \in P
      /\ \A q \in P : /\ q = Request(q.rn, q.action, q.of) /\ q.action = "put"
                      /\ \E i \in Puts : i < putCounter /\ q.of = <<i>>
                      /\ q.rn \in m..(k - 1)
                      /\ \A r \in P : /\ q.rn = r.rn => q = r
                                      /\ q.of = r.of => q = r
                                      /\ q.of[1] < r.of[1] => q.rn < r.rn
  BY <1>1, <1>4, <1>5, RestoredPutsAreNumbered DEF WriteInv
<1>8. /\ IsFiniteSet(O)
      /\ \A q \in O : /\ q = Request(q.rn, q.action, q.of) /\ q.action = "on_disconnect"
                      /\ q.rn \in k..(requestNumber' - 1) /\ \A r \in O : q.rn = r.rn => q = r
  BY <1>3, <1>4, <1>5, RestoredOpsAreNumbered
<1>9. \A q \in kept : /\ IsRequest(q) /\ q.rn \in 0..(n - 1) /\ q.action \notin {"put", "auth_restore"}
                      /\ \A r \in kept : q.rn = r.rn => q = r
  BY <1>1, <1>5 DEF RequestInv, RequestTypeOK, NumbersAreUnique, IsRequest
<1>10. requestCBHash' = kept \cup L \cup P \cup O
  BY <1>2, <1>4
<1>11. /\ Awaited("listen")' = Awaited("listen") \cup L /\ Awaited("listen") \cap L = {}
       /\ Awaited("put")' = P /\ Awaited("auth_restore")' = {}
  <2>1. {q \in kept : q.action = "listen"} = Awaited("listen")
    BY DEF Awaited
  <2>2. \A q \in L : q \notin kept
    BY <1>5, <1>6, <1>9
  <2>3. Awaited("listen")' = {q \in kept : q.action = "listen"} \cup L
    BY <1>6, <1>7, <1>8, <1>10 DEF Awaited
  <2>4. Awaited("put")' = P /\ Awaited("auth_restore")' = {}
    BY <1>6, <1>7, <1>8, <1>9, <1>10 DEF Awaited
  <2> QED
    BY <2>1, <2>2, <2>3, <2>4
<1>12. RequestTypeOK'
  <2>1. IsFiniteSet(kept \cup L \cup P \cup O)
    <3>1. IsFiniteSet(kept)
      BY FS_Subset DEF RequestInv, RequestTypeOK
    <3>2. IsFiniteSet(kept \cup L)
      BY <1>6, <3>1, FS_Union
    <3>3. IsFiniteSet((kept \cup L) \cup P)
      BY <1>7, <3>2, FS_Union
    <3> QED
      BY <1>8, <3>3, FS_Union
  <2>2. n <= requestNumber' /\ m <= requestNumber' /\ k <= requestNumber'
    BY <1>3, <1>5
  <2>3. \A q \in kept : IsRequest(q)' /\ q.rn < requestNumber'
    BY <1>3, <1>5, <1>9, <2>2 DEF IsRequest
  <2>4. \A q \in L : IsRequest(q)' /\ q.rn < requestNumber'
    BY <1>5, <1>6, <2>2 DEF IsRequest
  <2>5. \A q \in P : IsRequest(q)' /\ q.rn < requestNumber'
    BY <1>3, <1>5, <1>7, <2>2 DEF IsRequest
  <2>6. \A q \in O : IsRequest(q)' /\ q.rn < requestNumber'
    BY <1>5, <1>8, <2>2 DEF IsRequest
  <2>7. unackedListensCount' \in Nat
    BY <1>3, <1>5 DEF RequestInv, RequestTypeOK
  <2> QED
    BY <1>3, <1>5, <1>10, <2>1, <2>3, <2>4, <2>5, <2>6, <2>7 DEF RequestInv, RequestTypeOK
<1>13. NumbersAreUnique'
  <2>1. ASSUME NEW q \in kept \cup L \cup P \cup O, NEW r \in kept \cup L \cup P \cup O, q.rn = r.rn PROVE q = r
    <3>1. CASE q \in kept
      BY <1>5, <1>6, <1>7, <1>8, <1>9, <2>1, <3>1
    <3>2. CASE q \in L
      BY <1>5, <1>6, <1>7, <1>8, <1>9, <2>1, <3>2
    <3>3. CASE q \in P
      BY <1>5, <1>6, <1>7, <1>8, <1>9, <2>1, <3>3
    <3>4. CASE q \in O
      BY <1>5, <1>6, <1>7, <1>8, <1>9, <2>1, <3>4
    <3> QED
      BY <2>1, <3>1, <3>2, <3>3, <3>4
  <2> QED
    BY <1>10, <2>1 DEF NumbersAreUnique
<1>14. NothingAwaited' /\ RestoresFirst' /\ ListensAreAskedFor'
  BY <1>3, <1>11 DEF RequestInv, NothingAwaited, RestoresFirst, ListensAreAskedFor, connected
<1>15. ListensAreCounted'
  <2>1. IsFiniteSet(Awaited("listen")) /\ Cardinality(Awaited("listen")) \in Nat /\ unackedListensCount = Cardinality(Awaited("listen"))
    BY AwaitedIsFinite DEF RequestInv, ListensAreCounted
  <2>2. Cardinality(Awaited("listen") \cup L) = Cardinality(Awaited("listen")) + Cardinality(L)
    <3>1. PICK A : A = Awaited("listen")
      OBVIOUS
    <3>2. Cardinality(A \cup L) = Cardinality(A) + Cardinality(L) - Cardinality(A \cap L)
      BY <1>6, <2>1, <3>1, FS_Union
    <3>3. Cardinality(A \cap L) = 0
      BY <1>11, <3>1, FS_EmptySet
    <3> QED
      BY <1>5, <1>6, <2>1, <3>1, <3>2, <3>3
  <2> QED
    BY <1>3, <1>6, <1>11, <2>1, <2>2 DEF ListensAreCounted
<1>16. WriteTypeOK'
  <2> DEFINE f == [p \in outstandingPuts |-> [p EXCEPT !.sent = TRUE]]
  <2>1. outstandingPuts' = {f[p] : p \in outstandingPuts}
    BY <1>3
  <2>2. \A p \in outstandingPuts : f[p] \in [index : Puts, hash : BOOLEAN, sent : BOOLEAN] /\ f[p].index = p.index
    BY DEF WriteInv, WriteTypeOK
  <2> HIDE DEF f
  <2>3. \A p, q \in outstandingPuts : f[p] = f[q] => p = q
    BY <2>2 DEF WriteInv, WriteTypeOK
  <2>4. IsFiniteSet(outstandingPuts')
    BY <2>1, <2>3, ImageIsCounted DEF WriteInv, WriteTypeOK
  <2>5. \A p \in outstandingPuts' : p \in [index : Puts, hash : BOOLEAN, sent : BOOLEAN]
    BY <2>1, <2>2
  <2>6. \A p \in outstandingPuts' : p.index < putCounter'
    BY <1>3, <2>1, <2>2 DEF WriteInv, WriteTypeOK
  <2>7. \A p, q \in outstandingPuts' : p.index = q.index => p = q
    BY <2>1, <2>2 DEF WriteInv, WriteTypeOK
  <2>8. /\ putCounter' \in 1..(MaxPuts + 1) /\ putsToAck' \subseteq Puts /\ completed' \in [Puts -> Nat]
        /\ onDisconnectQueue' \in Nat
    BY <1>3 DEF WriteInv, WriteTypeOK
  <2> QED
    BY <2>4, <2>5, <2>6, <2>7, <2>8 DEF WriteTypeOK
<1>17. PutsAreAwaitedOnce' /\ WritesKeepTheirOrder' /\ TransactionsAreSentOnce'
  BY <1>7, <1>11 DEF PutsAreAwaitedOnce, WritesKeepTheirOrder, TransactionsAreSentOnce
<1>18. WritesAreSent'
  <2>1. ASSUME NEW p \in outstandingPuts
        PROVE  \E r \in P : r.of = <<p.index>> /\ \A q \in P : q.of = r.of => q = r
    <3>1. PutRequest(m + RankOf(p), p.index).of = <<p.index>>
      BY DEF PutRequest, Request
    <3> QED
      BY <1>7, <3>1
  <2>2. ASSUME NEW p \in outstandingPuts'
        PROVE  p.sent /\ \E r \in Awaited("put")' : r.of = <<p.index>> /\ \A q \in Awaited("put")' : q.of = r.of => q = r
    <3>1. PICK old \in outstandingPuts : p = [old EXCEPT !.sent = TRUE]
      BY <1>3
    <3>2. p.sent /\ p.index = old.index
      BY <3>1 DEF WriteInv, WriteTypeOK
    <3> QED
      BY <1>11, <2>1, <3>2
  <2> QED
    BY <1>3, <2>2 DEF WritesAreSent
<1>19. WritesCompleteOnce'
  <2>1. IndicesOf(outstandingPuts') = IndicesOf(outstandingPuts)
    <3>1. \A p \in outstandingPuts : [p EXCEPT !.sent = TRUE].index = p.index
      BY DEF WriteInv, WriteTypeOK
    <3> QED
      BY <1>3, <3>1 DEF IndicesOf
  <2>2. IndicesOf(outstandingPuts)' = IndicesOf(outstandingPuts')
    BY DEF IndicesOf
  <2> QED
    BY <1>3, <2>1, <2>2 DEF WriteInv, WritesCompleteOnce
<1> QED
  BY <1>12, <1>13, <1>14, <1>15, <1>16, <1>17, <1>18, <1>19 DEF RequestInv, WriteInv

LEMMA HandshakeKeepsRequests ==
  ASSUME RequestInv, ~connected, connectionState' = "authenticating", SendAuth(TRUE), UNCHANGED listens, UNCHANGED putCounter
  PROVE  RequestInv' /\ Awaited("put")' = Awaited("put")
<1>1. PICK r : r = AuthRequest(requestNumber, TRUE)
  OBVIOUS
<1>2. requestCBHash = {} /\ asked = {} /\ requestNumber \in Nat
  BY DEF RequestInv, RequestTypeOK, NothingAwaited
<1>3. requestCBHash' = {r} /\ requestNumber' = requestNumber + 1 /\ UNCHANGED <<unackedListensCount, asked>>
  BY <1>1, <1>2 DEF SendAuth
<1>4. r.rn = requestNumber /\ r.action = "auth_restore" /\ r = Request(r.rn, r.action, r.of)
  BY <1>1 DEF AuthRequest, Request
<1>5. RequestTypeOK'
  <2>1. IsFiniteSet(requestCBHash')
    BY <1>3, FS_Singleton
  <2> QED
    BY <1>2, <1>3, <1>4, <2>1 DEF RequestInv, RequestTypeOK, IsRequest
<1>6. Awaited("listen")' = Awaited("listen") /\ Awaited("put")' = {} /\ Awaited("put") = {} /\ Awaited("auth")' = {} /\ Awaited("auth_restore")' = {r}
  BY <1>2, <1>3, <1>4 DEF Awaited
<1>7. NumbersAreUnique' /\ NothingAwaited' /\ RestoresFirst' /\ ListensAreCounted' /\ ListensAreAskedFor'
  BY <1>2, <1>3, <1>6 DEF RequestInv, NumbersAreUnique, NothingAwaited, RestoresFirst, ListensAreCounted, ListensAreAskedFor, connected
<1> QED
  BY <1>5, <1>6, <1>7 DEF RequestInv

-----------------------------------------------------------------------------
(* Writes that are answered or given up: an index is that of one write.     *)
LEMMA IndicesOfTheRest ==
  ASSUME WriteTypeOK, NEW S \in SUBSET outstandingPuts
  PROVE  /\ IndicesOf(outstandingPuts \ S) = IndicesOf(outstandingPuts) \ IndicesOf(S)
         /\ IndicesOf(S) \subseteq IndicesOf(outstandingPuts) /\ IndicesOf(outstandingPuts) \subseteq Puts
         /\ IsFiniteSet(outstandingPuts \ S)
<1>1. IsFiniteSet(outstandingPuts \ S)
  BY FS_Subset DEF WriteTypeOK
<1> QED
  BY <1>1 DEF WriteTypeOK, IndicesOf

(* The writes that S holds leave the queue, and each is counted completed,  *)
(* or its block is held back.                                               *)
LEMMA WritesComplete ==
  ASSUME WriteInv, NEW S \in SUBSET outstandingPuts,
         outstandingPuts' = outstandingPuts \ S, UNCHANGED putCounter, onDisconnectQueue' \in Nat,
         \/ completed' = Told(IndicesOf(S)) /\ UNCHANGED putsToAck
         \/ putsToAck' = putsToAck \cup IndicesOf(S) /\ UNCHANGED completed
  PROVE  WriteTypeOK' /\ WritesCompleteOnce'
<1>1. /\ IndicesOf(outstandingPuts') = IndicesOf(outstandingPuts) \ IndicesOf(S) /\ IsFiniteSet(outstandingPuts')
      /\ IndicesOf(S) \subseteq IndicesOf(outstandingPuts) /\ IndicesOf(outstandingPuts) \subseteq Puts
  BY IndicesOfTheRest DEF WriteInv
<1>2. completed' \in [Puts -> Nat] /\ putsToAck' \subseteq Puts
  BY <1>1 DEF WriteInv, WriteTypeOK, Told
<1>3. WriteTypeOK'
  BY <1>1, <1>2 DEF WriteInv, WriteTypeOK
<1>4. ASSUME NEW p \in Puts
      PROVE  completed'[p] + (IF p \in IndicesOf(outstandingPuts') THEN 1 ELSE 0) + (IF p \in putsToAck' THEN 1 ELSE 0)
               = IF p < putCounter' THEN 1 ELSE 0
  <2>1. /\ completed[p] \in Nat
        /\ completed[p] + (IF p \in IndicesOf(outstandingPuts) THEN 1 ELSE 0) + (IF p \in putsToAck THEN 1 ELSE 0)
             = IF p < putCounter THEN 1 ELSE 0
    BY DEF WriteInv, WriteTypeOK, WritesCompleteOnce
  <2>2. CASE completed' = Told(IndicesOf(S)) /\ UNCHANGED putsToAck
    <3>1. completed'[p] = completed[p] + IF p \in IndicesOf(S) THEN 1 ELSE 0
      BY <2>2 DEF Told
    <3> QED
      BY <1>1, <2>1, <2>2, <3>1
  <2>3. CASE putsToAck' = putsToAck \cup IndicesOf(S) /\ UNCHANGED completed
    <3>1. completed'[p] = completed[p] /\ putCounter' = putCounter
      BY <2>3
    <3>2. CASE p \in IndicesOf(S)
      <4>1. p \in IndicesOf(outstandingPuts) /\ p \notin IndicesOf(outstandingPuts') /\ p \in putsToAck'
        BY <1>1, <2>3, <3>2
      <4>2. p \notin putsToAck
        BY <2>1, <4>1
      <4> QED
        BY <2>1, <3>1, <4>1, <4>2
    <3>3. CASE p \notin IndicesOf(S)
      <4>1. /\ p \in IndicesOf(outstandingPuts) <=> p \in IndicesOf(outstandingPuts')
            /\ p \in putsToAck <=> p \in putsToAck'
        BY <1>1, <2>3, <3>3
      <4> QED
        BY <2>1, <3>1, <4>1
    <3> QED
      BY <3>2, <3>3
  <2> QED
    BY <2>2, <2>3
<1>5. WritesCompleteOnce'
  <2>1. IndicesOf(outstandingPuts)' = IndicesOf(outstandingPuts')
    BY DEF IndicesOf
  <2> QED
    BY <1>4, <2>1 DEF WritesCompleteOnce
<1> QED
  BY <1>3, <1>5

(* Steps that have nothing to do with the writes.                           *)
LEMMA WritesLeftAlone ==
  ASSUME WriteInv, UNCHANGED outstandingPuts, UNCHANGED putCounter, UNCHANGED putsToAck, UNCHANGED completed,
         UNCHANGED onDisconnectQueue, Awaited("put")' = Awaited("put"),
         connectionState' = connectionState \/ (connectionState # "connected" /\ connectionState' # "connected")
  PROVE  WriteInv'
<1>1. WriteTypeOK' /\ WritesCompleteOnce'
  <2>1. WriteTypeOK'
    BY DEF WriteInv, WriteTypeOK
  <2>2. IndicesOf(outstandingPuts)' = IndicesOf(outstandingPuts)
    BY DEF IndicesOf
  <2>3. WritesCompleteOnce'
    BY <2>2 DEF WriteInv, WritesCompleteOnce
  <2> QED
    BY <2>1, <2>3
<1>2. PutsAreAwaitedOnce' /\ WritesKeepTheirOrder'
  BY DEF WriteInv, PutsAreAwaitedOnce, WritesKeepTheirOrder
<1>3. WritesAreSent'
  <2>1. CASE connectionState' = connectionState
    BY <2>1 DEF WriteInv, WritesAreSent
  <2>2. CASE connectionState' # "connected"
    BY <2>2 DEF WritesAreSent
  <2> QED
    BY <2>1, <2>2
<1>4. TransactionsAreSentOnce'
  BY DEF WriteInv, TransactionsAreSentOnce, SentTransactions
<1> QED
  BY <1>1, <1>2, <1>3, <1>4 DEF WriteInv

LEMMA DropKeepsWrites ==
  ASSUME WriteInv, DropConnection
  PROVE  WriteInv'
<1>1. /\ connectionState' = "disconnected" /\ requestCBHash' = {} /\ UNCHANGED putCounter /\ UNCHANGED putsToAck
      /\ outstandingPuts' = outstandingPuts \ SentTransactions /\ completed' = Told(IndicesOf(SentTransactions))
      /\ UNCHANGED onDisconnectQueue
  BY DEF DropConnection, ForgetRequests
<1>2. SentTransactions \in SUBSET outstandingPuts
  BY DEF SentTransactions
<1>3. WriteTypeOK' /\ WritesCompleteOnce'
  <2>1. onDisconnectQueue' \in Nat
    BY <1>1 DEF WriteInv, WriteTypeOK
  <2> QED
    BY <1>1, <1>2, <2>1, WritesComplete
<1>4. Awaited("put")' = {}
  BY <1>1 DEF Awaited
<1>5. PutsAreAwaitedOnce' /\ WritesKeepTheirOrder' /\ WritesAreSent'
  BY <1>1, <1>4 DEF PutsAreAwaitedOnce, WritesKeepTheirOrder, WritesAreSent
<1>6. TransactionsAreSentOnce'
  BY <1>1 DEF TransactionsAreSentOnce, SentTransactions
<1> QED
  BY <1>3, <1>5, <1>6 DEF WriteInv

LEMMA PutAnswerKeepsAll ==
  ASSUME RequestInv, WriteInv, NEW r \in requestCBHash, PutAnswered(r)
  PROVE  RequestInv' /\ WriteInv'
<1>1. /\ r.action = "put" /\ requestCBHash' = requestCBHash \ {r}
      /\ UNCHANGED <<connectionState, listens, putCounter, onDisconnectQueue, requestNumber, unackedListensCount, asked>>
  BY DEF PutAnswered
<1>2. RequestInv'
  BY <1>1, RequestIsRemoved
<1>3. PICK answered : answered = {p \in outstandingPuts : p.index = r.of[1]}
  OBVIOUS
<1>4. /\ outstandingPuts' = outstandingPuts \ answered
      /\ \/ completed' = Told(IndicesOf(answered)) /\ UNCHANGED putsToAck
         \/ putsToAck' = putsToAck \cup IndicesOf(answered) /\ UNCHANGED completed
  BY <1>3 DEF PutAnswered
<1>5. WriteTypeOK' /\ WritesCompleteOnce'
  <2>1. answered \in SUBSET outstandingPuts /\ onDisconnectQueue' \in Nat
    BY <1>1, <1>3 DEF WriteInv, WriteTypeOK
  <2> QED
    BY <1>1, <1>4, <2>1, WritesComplete
<1>6. Awaited("put")' = Awaited("put") \ {r} /\ UNCHANGED connectionState
  BY <1>1 DEF Awaited
<1>7. PutsAreAwaitedOnce' /\ WritesKeepTheirOrder'
  BY <1>6 DEF WriteInv, PutsAreAwaitedOnce, WritesKeepTheirOrder
<1>8. TransactionsAreSentOnce'
  BY <1>1, <1>4 DEF WriteInv, TransactionsAreSentOnce, SentTransactions
<1>9. WritesAreSent'
  <2> SUFFICES ASSUME connectionState = "connected"
               PROVE  /\ onDisconnectQueue' = 0
                      /\ \A p \in outstandingPuts' :
                           p.sent /\ \E q \in Awaited("put")' : q.of = <<p.index>> /\ \A s \in Awaited("put")' : s.of = q.of => s = q
    BY <1>1 DEF WritesAreSent
  <2>1. ASSUME NEW p \in outstandingPuts'
        PROVE  p.sent /\ \E q \in Awaited("put")' : q.of = <<p.index>> /\ \A s \in Awaited("put")' : s.of = q.of => s = q
    <3>1. p \in outstandingPuts /\ p.index # r.of[1]
      BY <1>3, <1>4
    <3>2. PICK q \in Awaited("put") : p.sent /\ q.of = <<p.index>> /\ \A s \in Awaited("put") : s.of = q.of => s = q
      BY <3>1 DEF WriteInv, WritesAreSent
    <3>3. q # r
      BY <3>1, <3>2
    <3> QED
      BY <1>6, <3>2, <3>3
  <2> QED
    BY <1>1, <2>1 DEF WriteInv, WritesAreSent
<1> QED
  BY <1>2, <1>5, <1>7, <1>8, <1>9 DEF WriteInv

(* The blocks held back are called once no listen is awaited.               *)
LEMMA ListenAnswerKeepsWrites ==
  ASSUME RequestInv, WriteInv, NEW r \in requestCBHash, NEW ok \in BOOLEAN, NEW instead, instead = {} \/ \E l \in Listens : instead = {l},
         ListenAnswered(r, ok, instead)
  PROVE  WriteInv'
<1>1. /\ r.action = "listen" /\ requestCBHash' = (requestCBHash \ {r}) \cup {ListenRequest(requestNumber, l) : l \in instead}
      /\ UNCHANGED <<connectionState, outstandingPuts, putCounter, onDisconnectQueue>>
      /\ (completed' = Told(putsToAck) /\ putsToAck' = {}) \/ UNCHANGED <<completed, putsToAck>>
  BY DEF ListenAnswered, AckPuts
<1>2. Awaited("put")' = Awaited("put")
  BY <1>1 DEF Awaited, ListenRequest, Request
<1>3. WriteTypeOK'
  BY <1>1 DEF WriteInv, WriteTypeOK, Told
<1>4. WritesCompleteOnce'
  <2>1. IndicesOf(outstandingPuts)' = IndicesOf(outstandingPuts)
    BY <1>1 DEF IndicesOf
  <2>2. ASSUME NEW p \in Puts
        PROVE  completed'[p] + (IF p \in IndicesOf(outstandingPuts) THEN 1 ELSE 0) + (IF p \in putsToAck' THEN 1 ELSE 0)
                 = IF p < putCounter THEN 1 ELSE 0
    <3>1. /\ completed[p] \in Nat
          /\ completed[p] + (IF p \in IndicesOf(outstandingPuts) THEN 1 ELSE 0) + (IF p \in putsToAck THEN 1 ELSE 0)
               = IF p < putCounter THEN 1 ELSE 0
      BY DEF WriteInv, WriteTypeOK, WritesCompleteOnce
    <3>2. CASE completed' = Told(putsToAck) /\ putsToAck' = {}
      <4>1. completed'[p] = completed[p] + IF p \in putsToAck THEN 1 ELSE 0
        BY <3>2 DEF Told
      <4>2. p \notin putsToAck'
        BY <3>2
      <4> QED
        BY <3>1, <4>1, <4>2
    <3>3. CASE UNCHANGED <<completed, putsToAck>>
      BY <3>1, <3>3
    <3> QED
      BY <1>1, <3>2, <3>3
  <2> QED
    BY <1>1, <2>1, <2>2 DEF WritesCompleteOnce
<1>5. PutsAreAwaitedOnce' /\ WritesKeepTheirOrder'
  BY <1>2 DEF WriteInv, PutsAreAwaitedOnce, WritesKeepTheirOrder
<1>6. WritesAreSent'
  BY <1>1, <1>2 DEF WriteInv, WritesAreSent
<1>7. TransactionsAreSentOnce'
  BY <1>1 DEF WriteInv, TransactionsAreSentOnce, SentTransactions
<1> QED
  BY <1>3, <1>4, <1>5, <1>6, <1>7 DEF WriteInv

(* A write that is made: its index is the next one, and if it is sent its   *)
(* number too.                                                              *)
LEMMA PutKeepsAll ==
  ASSUME RequestInv, WriteInv, NEW hash \in BOOLEAN, PutInternal(hash)
  PROVE  RequestInv' /\ WriteInv'
<1>1. PICK p, i : i = putCounter /\ p = [index |-> putCounter, hash |-> hash, sent |-> canSendWrites]
  OBVIOUS
<1>2. /\ i <= MaxPuts /\ putCounter' = i + 1 /\ outstandingPuts' = outstandingPuts \cup {p}
      /\ UNCHANGED <<connectionState, listens, putsToAck, completed, onDisconnectQueue, unackedListensCount, asked>>
  BY <1>1 DEF PutInternal
<1>3. i \in Puts /\ i \in Nat /\ putCounter' \in 1..(MaxPuts + 1) /\ \A q \in Puts : q \in Nat /\ (q < putCounter' <=> q < i \/ q = i)
  BY <1>1, <1>2, MaxPutsAssumption DEF WriteInv, WriteTypeOK, Puts
<1>4. p.index = i /\ p.hash = hash /\ p.sent = canSendWrites /\ p \in [index : Puts, hash : BOOLEAN, sent : BOOLEAN]
  BY <1>1, <1>3 DEF canSendWrites
<1>5. \A q \in outstandingPuts : q.index \in Puts /\ q.index < i /\ q.index # i
  BY <1>1, <1>3 DEF WriteInv, WriteTypeOK
<1>6. WriteTypeOK'
  <2>1. IsFiniteSet(outstandingPuts')
    BY <1>2, FS_AddElement DEF WriteInv, WriteTypeOK
  <2>2. \A q \in outstandingPuts' : q \in [index : Puts, hash : BOOLEAN, sent : BOOLEAN] /\ q.index < putCounter'
    BY <1>2, <1>3, <1>4, <1>5 DEF WriteInv, WriteTypeOK
  <2>3. \A q, s \in outstandingPuts' : q.index = s.index => q = s
    BY <1>2, <1>4, <1>5 DEF WriteInv, WriteTypeOK
  <2> QED
    BY <1>2, <1>3, <2>1, <2>2, <2>3 DEF WriteInv, WriteTypeOK
<1>7. WritesCompleteOnce'
  <2>1. IndicesOf(outstandingPuts)' = IndicesOf(outstandingPuts) \cup {i}
    BY <1>2, <1>4 DEF IndicesOf
  <2>2. i \notin IndicesOf(outstandingPuts)
    BY <1>5 DEF IndicesOf
  <2>3. ASSUME NEW q \in Puts
        PROVE  completed[q] + (IF q \in IndicesOf(outstandingPuts) \cup {i} THEN 1 ELSE 0) + (IF q \in putsToAck THEN 1 ELSE 0)
                 = IF q < putCounter' THEN 1 ELSE 0
    <3>1. /\ completed[q] \in Nat
          /\ completed[q] + (IF q \in IndicesOf(outstandingPuts) THEN 1 ELSE 0) + (IF q \in putsToAck THEN 1 ELSE 0)
               = IF q < i THEN 1 ELSE 0
      BY <1>1 DEF WriteInv, WriteTypeOK, WritesCompleteOnce
    <3>2. CASE q = i
      <4>1. q \notin IndicesOf(outstandingPuts) /\ q \in IndicesOf(outstandingPuts) \cup {i} /\ q < putCounter' /\ ~(q < i)
        BY <1>3, <2>2, <3>2
      <4> QED
        BY <3>1, <4>1
    <3>3. CASE q # i
      <4>1. /\ q \in IndicesOf(outstandingPuts) <=> q \in IndicesOf(outstandingPuts) \cup {i}
            /\ q < putCounter' <=> q < i
        BY <1>3, <3>3
      <4> QED
        BY <3>1, <4>1
    <3> QED
      BY <3>2, <3>3
  <2> QED
    BY <1>2, <2>1, <2>3 DEF WritesCompleteOnce
<1>8. TransactionsAreSentOnce'
  BY <1>2, <1>4 DEF WriteInv, TransactionsAreSentOnce, SentTransactions, canSendWrites
<1>9. CASE canSendWrites
  <2>1. PICK r : r = PutRequest(requestNumber, putCounter)
    OBVIOUS
  <2>2. requestCBHash' = requestCBHash \cup {r} /\ requestNumber' = requestNumber + 1
    BY <1>9, <2>1 DEF PutInternal
  <2>3. r.rn = requestNumber /\ r.action = "put" /\ r.of = <<i>> /\ r = Request(r.rn, r.action, r.of) /\ r.of[1] = i
    BY <1>1, <2>1 DEF PutRequest, Request
  <2>4. requestNumber \in Nat /\ connected /\ connectionState = "connected"
    BY <1>9 DEF RequestInv, RequestTypeOK, canSendWrites, connected
  <2>5. IsRequest(r)'
    BY <1>1, <1>2, <1>3, <2>3, <2>4 DEF IsRequest
  <2>6. RequestInv'
    BY <1>1, <1>2, <1>3, <2>2, <2>3, <2>4, <2>5, RequestIsAdded
  <2>7. Awaited("put")' = Awaited("put") \cup {r}
    BY <2>2, <2>3 DEF Awaited
  <2>8. \A q \in Awaited("put") : q.rn < r.rn /\ q.rn \in Nat /\ \E j \in Puts : j < i /\ q.of = <<j>> /\ q.of[1] = j
    BY <1>1, <2>3 DEF RequestInv, RequestTypeOK, IsRequest, Awaited
  <2>9. \A q \in Awaited("put") : q.of # r.of /\ q.of[1] < r.of[1] /\ ~(r.of[1] < q.of[1])
    <3> TAKE q \in Awaited("put")
    <3>1. PICK j \in Puts : j < i /\ q.of = <<j>> /\ q.of[1] = j
      BY <2>8
    <3>2. j \in Nat /\ i \in Nat /\ r.of[1] = i
      BY <1>3, <2>3
    <3>3. q.of[1] < r.of[1] /\ ~(r.of[1] < q.of[1]) /\ q.of[1] # r.of[1]
      BY <3>1, <3>2
    <3> QED
      BY <3>3
  <2>10. PutsAreAwaitedOnce' /\ WritesKeepTheirOrder'
    BY <1>3, <2>3, <2>7, <2>8, <2>9 DEF WriteInv, PutsAreAwaitedOnce, WritesKeepTheirOrder
  <2>11. WritesAreSent'
    <3>1. ASSUME NEW q \in outstandingPuts
          PROVE  q.sent /\ \E s \in Awaited("put")' : s.of = <<q.index>> /\ \A t \in Awaited("put")' : t.of = s.of => t = s
      <4>1. PICK s \in Awaited("put") : q.sent /\ s.of = <<q.index>> /\ \A t \in Awaited("put") : t.of = s.of => t = s
        BY <2>4 DEF WriteInv, WritesAreSent
      <4> QED
        BY <2>7, <2>9, <4>1
    <3>2. p.sent /\ \E s \in Awaited("put")' : s.of = <<p.index>> /\ \A t \in Awaited("put")' : t.of = s.of => t = s
      BY <1>4, <1>9, <2>3, <2>7, <2>9
    <3> QED
      BY <1>2, <2>4, <3>1, <3>2 DEF WriteInv, WritesAreSent
  <2> QED
    BY <1>6, <1>7, <1>8, <2>6, <2>10, <2>11 DEF WriteInv
<1>10. CASE ~canSendWrites
  <2>1. UNCHANGED requestCBHash /\ UNCHANGED requestNumber
    BY <1>10 DEF PutInternal
  <2>2. RequestInv'
    <3>1. RequestTypeOK'
      BY <1>1, <1>2, <1>3, <2>1 DEF RequestInv, RequestTypeOK, IsRequest
    <3> QED
      BY <1>2, <2>1, <3>1 DEF RequestInv, NumbersAreUnique, NothingAwaited, RestoresFirst, ListensAreCounted,
                              ListensAreAskedFor, Awaited, connected
  <2>3. Awaited("put")' = Awaited("put")
    BY <2>1 DEF Awaited
  <2>4. PutsAreAwaitedOnce' /\ WritesKeepTheirOrder' /\ WritesAreSent'
    BY <1>2, <1>10, <2>3 DEF WriteInv, PutsAreAwaitedOnce, WritesKeepTheirOrder, WritesAreSent, canSendWrites
  <2> QED
    BY <1>6, <1>7, <1>8, <2>2, <2>4 DEF WriteInv
<1> QED
  BY <1>9, <1>10

LEMMA OperationKeepsAll ==
  ASSUME RequestInv, WriteInv, OnDisconnectData
  PROVE  RequestInv' /\ WriteInv'
<1>1. /\ UNCHANGED <<connectionState, listens, unackedListensCount, asked>>
      /\ UNCHANGED <<outstandingPuts, putCounter, putsToAck, completed>>
  BY DEF OnDisconnectData, writes
<1>2. putCounter \in Nat
  BY MaxPutsAssumption DEF WriteInv, WriteTypeOK
<1>3. CASE canSendWrites
  <2>1. PICK r : r = OpRequest(requestNumber)
    OBVIOUS
  <2>2. requestCBHash' = requestCBHash \cup {r} /\ requestNumber' = requestNumber + 1 /\ UNCHANGED onDisconnectQueue
    BY <1>3, <2>1 DEF OnDisconnectData
  <2>3. r.rn = requestNumber /\ r.action = "on_disconnect" /\ r = Request(r.rn, r.action, r.of)
    BY <2>1 DEF OpRequest, Request
  <2>4. IsRequest(r)'
    BY <2>3 DEF IsRequest, RequestInv, RequestTypeOK
  <2>5. RequestInv'
    BY <1>1, <1>2, <1>3, <2>2, <2>3, <2>4, RequestIsAdded DEF canSendWrites, connected
  <2>6. Awaited("put")' = Awaited("put")
    BY <2>2, <2>3 DEF Awaited
  <2> QED
    BY <1>1, <2>2, <2>5, <2>6, WritesLeftAlone
<1>4. CASE ~canSendWrites
  <2>1. onDisconnectQueue' = onDisconnectQueue + 1 /\ UNCHANGED requestCBHash /\ UNCHANGED requestNumber
    BY <1>4 DEF OnDisconnectData
  <2>2. RequestInv'
    BY <1>1, <2>1, RequestsLeftAlone
  <2>3. WriteTypeOK'
    BY <1>1, <2>1 DEF WriteInv, WriteTypeOK
  <2>4. WritesCompleteOnce' /\ TransactionsAreSentOnce'
    BY <1>1 DEF WriteInv, WritesCompleteOnce, IndicesOf, TransactionsAreSentOnce, SentTransactions
  <2>5. PutsAreAwaitedOnce' /\ WritesKeepTheirOrder' /\ WritesAreSent'
    BY <1>1, <1>4, <2>1 DEF WriteInv, PutsAreAwaitedOnce, WritesKeepTheirOrder, WritesAreSent, Awaited, canSendWrites
  <2> QED
    BY <2>2, <2>3, <2>4, <2>5 DEF WriteInv
<1> QED
  BY <1>3, <1>4

LEMMA PurgeKeepsAll ==
  ASSUME RequestInv, WriteInv, PurgeOutstandingWrites
  PROVE  RequestInv' /\ WriteInv'
<1>1. /\ UNCHANGED connectionState /\ UNCHANGED listens /\ UNCHANGED putCounter /\ UNCHANGED requestNumber
      /\ UNCHANGED requestCBHash /\ UNCHANGED unackedListensCount /\ UNCHANGED asked
      /\ putsToAck' = {} /\ outstandingPuts' = {} /\ onDisconnectQueue' = 0
  BY DEF PurgeOutstandingWrites, requests
<1>2. RequestInv'
  BY <1>1, RequestsLeftAlone
<1>3. \A p \in Puts :
        /\ completed'[p] = completed[p] + (IF p \in putsToAck THEN 1 ELSE 0) + (IF p \in IndicesOf(outstandingPuts) THEN 1 ELSE 0)
        /\ completed[p] \in Nat
        /\ completed[p] + (IF p \in IndicesOf(outstandingPuts) THEN 1 ELSE 0) + (IF p \in putsToAck THEN 1 ELSE 0)
             = IF p < putCounter THEN 1 ELSE 0
  BY DEF PurgeOutstandingWrites, Told, WriteInv, WriteTypeOK, WritesCompleteOnce
<1>4. WriteTypeOK'
  <2>1. completed' \in [Puts -> Nat]
    <3>1. \A p \in Puts : Told(putsToAck)[p] + (IF p \in IndicesOf(outstandingPuts) THEN 1 ELSE 0) \in Nat
      BY DEF Told, WriteInv, WriteTypeOK
    <3> QED
      BY <3>1 DEF PurgeOutstandingWrites
  <2> QED
    BY <1>1, <2>1, FS_EmptySet DEF WriteInv, WriteTypeOK
<1>5. WritesCompleteOnce'
  <2>1. IndicesOf(outstandingPuts)' = {}
    BY <1>1 DEF IndicesOf
  <2> QED
    BY <1>1, <1>3, <2>1 DEF WritesCompleteOnce
<1>6. PutsAreAwaitedOnce' /\ WritesKeepTheirOrder' /\ WritesAreSent' /\ TransactionsAreSentOnce'
  BY <1>1 DEF WriteInv, PutsAreAwaitedOnce, WritesKeepTheirOrder, WritesAreSent, TransactionsAreSentOnce,
              SentTransactions, Awaited
<1> QED
  BY <1>2, <1>4, <1>5, <1>6 DEF WriteInv

(* A credential: its request, and the two answers.                          *)
LEMMA RefreshKeepsAll ==
  ASSUME RequestInv, WriteInv, NEW given \in BOOLEAN, RefreshAuthToken(given)
  PROVE  RequestInv' /\ WriteInv'
<1>1. /\ UNCHANGED <<connectionState, listens, onDisconnectQueue, unackedListensCount, asked>>
      /\ UNCHANGED <<outstandingPuts, putCounter, putsToAck, completed>>
  BY DEF RefreshAuthToken, writes, requests, SendAuth
<1>2. putCounter \in Nat /\ requestNumber \in Nat
  BY MaxPutsAssumption DEF WriteInv, WriteTypeOK, RequestInv, RequestTypeOK
<1>3. CASE connected /\ given
  <2>1. PICK r : r = AuthRequest(requestNumber, FALSE)
    OBVIOUS
  <2>2. requestCBHash' = requestCBHash \cup {r} /\ requestNumber' = requestNumber + 1
    BY <1>3, <2>1 DEF RefreshAuthToken, SendAuth
  <2>3. r.rn = requestNumber /\ r.action = "auth" /\ r = Request(r.rn, r.action, r.of)
    BY <2>1 DEF AuthRequest, Request
  <2>4. IsRequest(r)'
    BY <1>2, <2>3 DEF IsRequest
  <2>5. RequestInv'
    BY <1>1, <1>2, <1>3, <2>2, <2>3, <2>4, RequestIsAdded
  <2>6. Awaited("put")' = Awaited("put")
    BY <2>2, <2>3 DEF Awaited
  <2> QED
    BY <1>1, <2>5, <2>6, WritesLeftAlone
<1>4. CASE ~(connected /\ given)
  <2>1. UNCHANGED requestCBHash /\ requestNumber' \in Nat /\ requestNumber <= requestNumber'
    <3>1. CASE connected
      <4>1. ~given
        BY <1>4, <3>1
      <4>2. requestNumber' = requestNumber + 1 /\ UNCHANGED requestCBHash
        BY <3>1, <4>1 DEF RefreshAuthToken
      <4> QED
        BY <1>2, <4>2
    <3>2. CASE ~connected
      <4>1. UNCHANGED requests
        BY <3>2 DEF RefreshAuthToken
      <4> QED
        BY <1>2, <4>1 DEF requests
    <3> QED
      BY <3>1, <3>2
  <2>2. RequestInv'
    <3>1. {} \in SUBSET listens /\ listens' = listens \ {} /\ asked' = asked \ {}
      BY <1>1
    <3>2. UNCHANGED requestCBHash /\ UNCHANGED unackedListensCount /\ UNCHANGED connectionState /\ UNCHANGED putCounter
      BY <1>1, <2>1
    <3> QED
      BY <2>1, <3>1, <3>2, EndOfListensKeepsRequests
  <2>3. Awaited("put")' = Awaited("put")
    BY <2>1 DEF Awaited
  <2> QED
    BY <1>1, <2>2, <2>3, WritesLeftAlone
<1> QED
  BY <1>3, <1>4

LEMMA AuthAnswerKeepsAll ==
  ASSUME RequestInv, WriteInv, NEW r \in requestCBHash, AuthAnswered(r)
  PROVE  RequestInv' /\ WriteInv'
<1>1. connected /\ r.action \in {"auth", "auth_restore"} /\ IsRequest(r) /\ r.rn \in Nat
      /\ \A q \in Awaited("auth") \cup Awaited("auth_restore") : r.rn <= q.rn /\ q.rn \in Nat
  BY DEF AuthAnswered, FirstAuth, RequestInv, RequestTypeOK, NothingAwaited, IsRequest, Awaited
<1>2. CASE r.action = "auth_restore"
  <2>1. RestoreState(requestCBHash \ {r}) /\ connectionState' = "connected"
    BY <1>2 DEF AuthAnswered
  <2>2. r \in Awaited("auth_restore") /\ connectionState = "authenticating"
    BY <1>2 DEF RequestInv, RestoresFirst, Awaited
  <2>3. Awaited("put") = {} /\ \A q \in Awaited("auth_restore") : q = r
    BY <2>2 DEF RequestInv, RestoresFirst
  <2>4. \A q \in requestCBHash \ {r} : q.action \notin {"put", "auth_restore"}
    BY <2>3 DEF Awaited
  <2>5. Awaited("listen") \subseteq requestCBHash \ {r}
    BY <1>2 DEF Awaited
  <2>6. requestCBHash \ {r} \in SUBSET requestCBHash
    OBVIOUS
  <2> QED
    BY <2>1, <2>4, <2>5, <2>6, RestoreKeepsRequestsAndWrites
<1>3. CASE r.action = "auth"
  <2>1. /\ requestCBHash' = requestCBHash \ {r} /\ UNCHANGED <<outstandingPuts, putCounter, putsToAck, completed>>
        /\ UNCHANGED <<listens, onDisconnectQueue, requestNumber, unackedListensCount, asked>> /\ connectionState' = "connected"
    BY <1>3 DEF AuthAnswered, writes
  <2>2. connectionState = "connected"
    <3>1. r \in Awaited("auth")
      BY <1>3 DEF Awaited
    <3>2. ASSUME connectionState = "authenticating" PROVE FALSE
      <4>1. PICK q \in Awaited("auth_restore") : q.rn < r.rn
        BY <3>1, <3>2 DEF RequestInv, RestoresFirst
      <4> QED
        BY <1>1, <4>1
    <3> QED
      BY <1>1, <3>2 DEF connected
  <2>3. RequestInv'
    BY <1>3, <2>1, <2>2, RequestIsRemoved
  <2>4. Awaited("put")' = Awaited("put")
    BY <1>3, <2>1 DEF Awaited
  <2> QED
    BY <2>1, <2>2, <2>3, <2>4, WritesLeftAlone
<1> QED
  BY <1>1, <1>2, <1>3

-----------------------------------------------------------------------------
(* Losing the connection, and every step that leaves requests and writes    *)
(* as they are.                                                             *)
LEMMA LossKeepsAll ==
  ASSUME RequestInv, WriteInv, DropConnection
  PROVE  RequestInv' /\ WriteInv'
BY RequestsAreDropped, DropKeepsWrites

LEMMA LinkStepsKeepAll ==
  ASSUME RequestInv, WriteInv, UNCHANGED listens, UNCHANGED writes, UNCHANGED onDisconnectQueue, UNCHANGED requests,
         connectionState' = connectionState \/ (~connected /\ ~connected')
  PROVE  RequestInv' /\ WriteInv'
<1>1. /\ UNCHANGED requestNumber /\ UNCHANGED requestCBHash /\ UNCHANGED unackedListensCount /\ UNCHANGED asked
      /\ UNCHANGED outstandingPuts /\ UNCHANGED putCounter /\ UNCHANGED putsToAck /\ UNCHANGED completed
  BY DEF writes, requests
<1>2. Awaited("put")' = Awaited("put")
  BY <1>1 DEF Awaited
<1>3. connectionState' = connectionState \/ (connectionState # "connected" /\ connectionState' # "connected")
  BY DEF connected
<1> QED
  BY <1>1, <1>2, <1>3, RequestsLeftAlone, WritesLeftAlone

LEMMA InterruptKeepsAll ==
  ASSUME LinkInv, RequestInv, WriteInv, NEW reason, InterruptForReason(reason)
  PROVE  RequestInv' /\ WriteInv'
<1>1. CASE realtime # "none"
  BY <1>1, LossKeepsAll DEF InterruptForReason
<1>2. CASE realtime = "none"
  <2>1. ~connected
    BY <1>2 DEF LinkInv, SendsOnConnected
  <2>2. connectionState' = "disconnected" /\ UNCHANGED <<listens, writes, onDisconnectQueue, requests>>
    BY <1>2 DEF InterruptForReason
  <2>3. ~connected'
    BY <2>2 DEF connected
  <2> QED
    BY <2>1, <2>2, <2>3, LinkStepsKeepAll
<1> QED
  BY <1>1, <1>2

LEMMA FetchedKeepsAll ==
  ASSUME LinkInv, RequestInv, WriteInv, Fetched
  PROVE  RequestInv' /\ WriteInv'
<1>1. UNCHANGED <<listens, writes, onDisconnectQueue, requests>>
  BY DEF Fetched, RetryBlock, FetchFailed, FetchSucceeded
<1>2. connectionState' = connectionState \/ (~connected /\ ~connected')
  <2>1. CASE RetryBlock
    BY <2>1 DEF RetryBlock, LinkInv, AttemptsAreOrdered, connected
  <2>2. CASE \E fetch \in fetches : FetchFailed(fetch)
    BY <2>2 DEF FetchFailed, LinkInv, AttemptsAreOrdered, connected
  <2>3. CASE \E fetch \in fetches, given \in BOOLEAN : FetchSucceeded(fetch, given)
    BY <2>3 DEF FetchSucceeded, OpenNetworkConnectionWithToken, connected
  <2> QED
    BY <2>1, <2>2, <2>3 DEF Fetched
<1> QED
  BY <1>1, <1>2, LinkStepsKeepAll

LEMMA HandshakeKeepsAll ==
  ASSUME LinkInv, RequestInv, WriteInv, OnHandshake
  PROVE  RequestInv' /\ WriteInv'
<1>1. connectionState = "connecting" /\ ~connected /\ requestCBHash = {}
  BY DEF OnHandshake, LinkInv, SendsOnConnected, connected, RequestInv, NothingAwaited
<1>2. CASE authToken
  <2>1. connectionState' = "authenticating" /\ SendAuth(TRUE) /\ UNCHANGED listens /\ UNCHANGED writes /\ UNCHANGED onDisconnectQueue
    BY <1>2 DEF OnHandshake
  <2>2. /\ UNCHANGED outstandingPuts /\ UNCHANGED putCounter /\ UNCHANGED putsToAck /\ UNCHANGED completed
    BY <2>1 DEF writes
  <2>3. RequestInv' /\ Awaited("put")' = Awaited("put")
    BY <1>1, <2>1, <2>2, HandshakeKeepsRequests
  <2> QED
    BY <1>1, <2>1, <2>2, <2>3, WritesLeftAlone
<1>3. CASE ~authToken
  <2>1. RestoreState(requestCBHash) /\ connectionState' = "connected"
    BY <1>3 DEF OnHandshake
  <2>2. requestCBHash \in SUBSET requestCBHash /\ Awaited("listen") \subseteq requestCBHash
    BY DEF Awaited
  <2>3. \A q \in requestCBHash : q.action \notin {"put", "auth_restore"}
    BY <1>1
  <2> QED
    BY <2>1, <2>2, <2>3, RestoreKeepsRequestsAndWrites
<1> QED
  BY <1>2, <1>3

LEMMA ServiceKeepsAll ==
  ASSUME LinkInv, RequestInv, WriteInv, Service
  PROVE  RequestInv' /\ WriteInv'
<1>1. CASE WebSocketDidOpen
  BY <1>1, LinkStepsKeepAll DEF WebSocketDidOpen
<1>2. CASE OnHandshake
  BY <1>2, HandshakeKeepsAll
<1>3. CASE OnClosed \/ OnReset \/ OnAuthRevoked
  <2>1. DropConnection
    BY <1>3 DEF OnClosed, OnReset, OnAuthRevoked, Lost, CloseToRefresh, OnDisconnect
  <2> QED
    BY <2>1, LossKeepsAll
<1>4. CASE OnConnectionShutdown
  BY <1>4, InterruptKeepsAll DEF OnConnectionShutdown
<1>5. CASE \E queries \in SUBSET Queries : OnListenRevoked(queries)
  <2>1. PICK queries \in SUBSET Queries : OnListenRevoked(queries)
    BY <1>5
  <2>2. PICK removed : removed = {l \in listens : l.query \in queries}
    OBVIOUS
  <2>3. /\ removed \in SUBSET listens /\ listens' = listens \ removed /\ asked' = asked \ removed
        /\ UNCHANGED connectionState /\ UNCHANGED writes /\ UNCHANGED onDisconnectQueue
        /\ UNCHANGED requestNumber /\ UNCHANGED requestCBHash /\ UNCHANGED unackedListensCount
    BY <2>1, <2>2 DEF OnListenRevoked
  <2>4. UNCHANGED outstandingPuts /\ UNCHANGED putCounter /\ UNCHANGED putsToAck /\ UNCHANGED completed
    BY <2>3 DEF writes
  <2>5. requestNumber' \in Nat /\ requestNumber <= requestNumber' /\ Awaited("put")' = Awaited("put")
    BY <2>3 DEF RequestInv, RequestTypeOK, Awaited
  <2>6. RequestInv'
    BY <2>3, <2>4, <2>5, EndOfListensKeepsRequests
  <2> QED
    BY <2>3, <2>4, <2>5, <2>6, WritesLeftAlone
<1> QED
  BY <1>1, <1>2, <1>3, <1>4, <1>5 DEF Service

LEMMA AnswerKeepsAll ==
  ASSUME LinkInv, RequestInv, WriteInv, NEW r \in requestCBHash,
         \/ AuthAnswered(r) \/ AuthRefused(r) \/ PutAnswered(r) \/ OpAnswered(r)
         \/ \E ok \in BOOLEAN, instead \in {{}} \cup {{l} : l \in Listens} : ListenAnswered(r, ok, instead)
  PROVE  RequestInv' /\ WriteInv'
<1>1. CASE AuthAnswered(r)
  BY <1>1, AuthAnswerKeepsAll
<1>2. CASE AuthRefused(r)
  BY <1>2, LossKeepsAll DEF AuthRefused, CloseToRefresh, OnDisconnect
<1>3. CASE PutAnswered(r)
  BY <1>3, PutAnswerKeepsAll
<1>4. CASE OpAnswered(r)
  <2>1. /\ r.action = "on_disconnect" /\ requestCBHash' = requestCBHash \ {r}
        /\ UNCHANGED connectionState /\ UNCHANGED listens /\ UNCHANGED writes /\ UNCHANGED onDisconnectQueue
        /\ UNCHANGED requestNumber /\ UNCHANGED unackedListensCount /\ UNCHANGED asked
    BY <1>4 DEF OpAnswered
  <2>2. UNCHANGED outstandingPuts /\ UNCHANGED putCounter /\ UNCHANGED putsToAck /\ UNCHANGED completed
    BY <2>1 DEF writes
  <2>3. Awaited("put")' = Awaited("put")
    BY <2>1 DEF Awaited
  <2>4. RequestInv'
    BY <2>1, <2>2, RequestIsRemoved
  <2> QED
    BY <2>1, <2>2, <2>3, <2>4, WritesLeftAlone
<1>5. CASE \E ok \in BOOLEAN, instead \in {{}} \cup {{l} : l \in Listens} : ListenAnswered(r, ok, instead)
  <2>1. PICK ok \in BOOLEAN, instead \in {{}} \cup {{l} : l \in Listens} : ListenAnswered(r, ok, instead)
    BY <1>5
  <2>2. instead = {} \/ \E l \in Listens : instead = {l}
    OBVIOUS
  <2>3. UNCHANGED putCounter
    BY <2>1 DEF ListenAnswered
  <2>4. RequestInv'
    BY <2>1, <2>2, <2>3, ListenAnswerKeepsRequests
  <2>5. WriteInv'
    BY <2>1, <2>2, ListenAnswerKeepsWrites
  <2> QED
    BY <2>4, <2>5
<1> QED
  BY <1>1, <1>2, <1>3, <1>4, <1>5

LEMMA ListensKeepAll ==
  ASSUME RequestInv, WriteInv, NEW query \in Queries,
         Unlisten(query) \/ \E spec \in Specs : Listen(query, spec)
  PROVE  RequestInv' /\ WriteInv'
<1>1. CASE Unlisten(query)
  <2>1. PICK outstanding \in listens : listens' = listens \ {outstanding} /\ asked' = asked \ {outstanding}
    BY <1>1 DEF Unlisten
  <2>2. /\ UNCHANGED connectionState /\ UNCHANGED writes /\ UNCHANGED onDisconnectQueue
        /\ UNCHANGED requestCBHash /\ UNCHANGED unackedListensCount
    BY <1>1 DEF Unlisten
  <2>3. UNCHANGED outstandingPuts /\ UNCHANGED putCounter /\ UNCHANGED putsToAck /\ UNCHANGED completed
    BY <2>2 DEF writes
  <2>4. requestNumber' \in Nat /\ requestNumber <= requestNumber' /\ Awaited("put")' = Awaited("put")
    <3>1. requestNumber \in Nat /\ requestNumber' \in {requestNumber, requestNumber + 1}
      BY <1>1 DEF Unlisten, RequestInv, RequestTypeOK
    <3> QED
      BY <2>2, <3>1 DEF Awaited
  <2>5. RequestInv'
    BY <2>1, <2>2, <2>3, <2>4, EndOfListensKeepsRequests
  <2> QED
    BY <2>2, <2>3, <2>4, <2>5, WritesLeftAlone
<1>2. CASE \E spec \in Specs : Listen(query, spec)
  <2>1. PICK spec \in Specs : Listen(query, spec)
    BY <1>2
  <2>2. RequestInv'
    BY <2>1, ListenKeepsRequests
  <2>3. UNCHANGED connectionState /\ UNCHANGED writes /\ UNCHANGED onDisconnectQueue
    BY <2>1 DEF Listen
  <2>4. UNCHANGED outstandingPuts /\ UNCHANGED putCounter /\ UNCHANGED putsToAck /\ UNCHANGED completed
    BY <2>3 DEF writes
  <2>5. Awaited("put")' = Awaited("put")
    BY <2>1 DEF Listen, requests, Awaited, ListenRequest, Request
  <2> QED
    BY <2>2, <2>3, <2>4, <2>5, WritesLeftAlone
<1> QED
  BY <1>1, <1>2

LEMMA CallKeepsAll ==
  ASSUME LinkInv, RequestInv, WriteInv, Call
  PROVE  RequestInv' /\ WriteInv'
<1>1. CASE Open \/ GoOnline \/ ReachabilityCallback
  BY <1>1, LinkStepsKeepAll DEF Open, GoOnline, ResumeForReason, ReachabilityCallback
<1>2. CASE GoOffline
  BY <1>2, InterruptKeepsAll DEF GoOffline
<1>3. CASE \E query \in Queries : Unlisten(query) \/ \E spec \in Specs : Listen(query, spec)
  BY <1>3, ListensKeepAll
<1>4. CASE \E hash \in BOOLEAN : PutInternal(hash)
  BY <1>4, PutKeepsAll
<1>5. CASE \E given \in BOOLEAN : RefreshAuthToken(given)
  BY <1>5, RefreshKeepsAll
<1>6. CASE \E r \in requestCBHash, l \in Listens : ListenAnswered(r, FALSE, {l})
  BY <1>6, AnswerKeepsAll
<1>7. CASE OnDisconnectData \/ PurgeOutstandingWrites
  BY <1>7, OperationKeepsAll, PurgeKeepsAll
<1> QED
  BY <1>1, <1>2, <1>3, <1>4, <1>5, <1>6, <1>7 DEF Call

(* The three parts hold at the start and every step keeps them together:    *)
(* an answer needs a connection, and a connection that is lost takes what   *)
(* was asked and the transactions that were sent with it.                   *)
THEOREM ConnectionInvariant == Spec => []IInv
<1>1. Init => IInv
  <2> SUFFICES ASSUME Init PROVE IInv
    OBVIOUS
  <2>1. LinkInv
    <3>1. retryHelper \in Helper /\ retryHelper.scheduledRetry = {}
      BY DelaysAssumption DEF Init, NewHelper, Helper
    <3>2. LinkTypeOK /\ FetchesAreMade
      BY <3>1 DEF Init, LinkTypeOK, FetchesAreMade, Reasons
    <3>3. SendsOnConnected /\ NeverGivesUp /\ AttemptsAreOrdered
      BY <3>1 DEF Init, SendsOnConnected, NeverGivesUp, AttemptsAreOrdered, connected
    <3> QED
      BY <3>2, <3>3 DEF LinkInv
  <2>2. RequestInv
    <3>1. Awaited("listen") = {}
      BY DEF Init, Awaited
    <3>2. ListensAreCounted
      BY <3>1, FS_EmptySet DEF Init, ListensAreCounted
    <3> QED
      BY <3>2, FS_EmptySet DEF Init, RequestInv, RequestTypeOK, NumbersAreUnique, NothingAwaited, RestoresFirst,
         ListensAreAskedFor, connected, Awaited
  <2>3. WriteInv
    BY MaxPutsAssumption, FS_EmptySet DEF Init, WriteInv, WriteTypeOK, PutsAreAwaitedOnce, WritesAreSent, WritesKeepTheirOrder,
       TransactionsAreSentOnce, SentTransactions, WritesCompleteOnce, IndicesOf, Awaited, Puts
  <2> QED
    BY <2>1, <2>2, <2>3 DEF IInv
<1>2. IInv /\ [Next]_vars => IInv'
  <2> SUFFICES ASSUME IInv, [Next]_vars PROVE IInv'
    OBVIOUS
  <2>0. LinkInv /\ RequestInv /\ WriteInv
    BY DEF IInv
  <2>1. LinkInv'
    BY <2>0, LinkStep DEF RequestInv
  <2>2. RequestInv' /\ WriteInv'
    <3>1. CASE UNCHANGED vars
      BY <2>0, <3>1, LinkStepsKeepAll DEF vars
    <3>2. CASE Fetched
      BY <2>0, <3>2, FetchedKeepsAll
    <3>3. CASE Service
      BY <2>0, <3>3, ServiceKeepsAll
    <3>4. CASE Answer
      <4>1. PICK r \in requestCBHash :
              \/ AuthAnswered(r) \/ AuthRefused(r) \/ PutAnswered(r) \/ OpAnswered(r)
              \/ \E ok \in BOOLEAN : ListenAnswered(r, ok, {})
        BY <3>4 DEF Answer
      <4> QED
        BY <2>0, <4>1, AnswerKeepsAll
    <3>5. CASE Call
      BY <2>0, <3>5, CallKeepsAll
    <3> QED
      BY <3>1, <3>2, <3>3, <3>4, <3>5 DEF Next
  <2> QED
    BY <2>1, <2>2 DEF IInv
<1> QED
  BY <1>1, <1>2, PTL DEF Spec

-----------------------------------------------------------------------------
(* FConnection is never asked to send when it would throw, the assertions   *)
(* of tryScheduleReconnect never fail, and a connection that nothing        *)
(* interrupts is always being worked on.                                    *)
THEOREM ConnectionStaysKept == Spec => []ConnectionIsKept
BY ConnectionInvariant, PTL DEF IInv, LinkInv, ConnectionIsKept

(* Writes reach the service in the order they were made, on every           *)
(* connection, except a transaction that was sent, and the block of each is *)
(* called once at most, when the client has forgotten it.                   *)
THEOREM WritesStayKept == Spec => []WritesAreKept
BY ConnectionInvariant, PTL DEF IInv, WriteInv, WritesAreKept

(* The service knows the listens of the app and no other, and those not yet *)
(* answered are counted, for any number made, ended, revoked, failed and    *)
(* asked for again.                                                         *)
THEOREM ListensStayKept == Spec => []ListensAreKept
BY ConnectionInvariant, PTL DEF IInv, RequestInv, WriteInv, ListensAreKept
=============================================================================
