-------------------------- MODULE GwServiceProofs --------------------------
(***************************************************************************)
(* Proofs about the accept loop and the oracle client (GwService.tla,      *)
(* GwClient.tla) for every budget, number of attempts, connections and     *)
(* signals.                                                                *)
(***************************************************************************)
EXTENDS GwService, TLAPS

USE ClientConstants, ServiceConstants DEF ClientConstants, ServiceConstants

LoopPc == {"bind", "listen", "notify", "loop", "enter", "blocked", "reading", "calling",
           "closing", "exited"}

(* The loop of main: its variables and what its control state says of the  *)
(* socket, of the connection in hand and of the call.                      *)
LoopInv ==
  /\ pc \in LoopPc
  /\ g_stop \in BOOLEAN /\ ready \in BOOLEAN /\ listening \in BOOLEAN
  /\ client # "none" <=> pc \in {"reading", "calling", "closing"}
  /\ ready => pc \notin {"bind", "listen", "notify"}
  /\ pc \notin {"bind", "listen", "exited"} => listening

(* A request is taken after the stop only by an accept that was decided on *)
(* before it, and then none was in hand.                                   *)
StopInv ==
  /\ taken_late \in Nat /\ busy_at_stop \in BOOLEAN
  /\ ~g_stop => taken_late = 0 /\ ~busy_at_stop
  /\ pc \in {"enter", "blocked"} => taken_late = 0 /\ ~busy_at_stop
  /\ taken_late <= 1
  /\ busy_at_stop => taken_late = 0

(* The call in progress: its attempts, and what they may have cost. *)
CallInv ==
  /\ cpc \in {"idle", "setup", "perform", "backoff", "returned"}
  /\ cpc # "idle" <=> pc = "calling"
  /\ attempt \in Nat
  /\ cpc # "idle" => attempt \in 1 .. MaxAttempts
  /\ cpc = "backoff" => attempt < MaxAttempts
  /\ carried \in {0, 1}
  /\ carried = 1 => cpc = "returned"

(* Sends so far: all attempts of every earlier call, and those of this one. *)
SpentInv ==
  /\ calls_made \in 0 .. CallBudget
  /\ spent \in Nat
  /\ cpc = "idle" => spent <= calls_made * MaxAttempts
  /\ cpc # "idle" => calls_made >= 1
  /\ cpc = "setup" => spent <= (calls_made - 1) * MaxAttempts + (attempt - 1)
  /\ cpc \in {"perform", "backoff", "returned"} =>
       spent <= (calls_made - 1) * MaxAttempts + attempt

ServiceInv == LoopInv /\ StopInv /\ CallInv /\ SpentInv

-----------------------------------------------------------------------------
(* The process starts with no socket, no connection and no call. *)
LEMMA InitService == Init => ServiceInv
<1> SUFFICES ASSUME Init PROVE ServiceInv
  OBVIOUS
<1> USE DEF Init, ClientInit
<1>1. LoopInv
  BY Zenon DEF LoopInv, LoopPc
<1>2. StopInv
  <2>1. taken_late \in Nat /\ taken_late = 0 /\ taken_late <= 1
    OBVIOUS
  <2>2. busy_at_stop \in BOOLEAN /\ ~busy_at_stop
    BY Zenon
  <2> QED
    BY Zenon, <2>1, <2>2 DEF StopInv
<1>3. CallInv
  BY DEF CallInv
<1>4. SpentInv
  BY DEF SpentInv
<1> QED
  BY Zenon, <1>1, <1>2, <1>3, <1>4 DEF ServiceInv

(* Every step of the loop, of a peer and of a signal keeps the control     *)
(* state in line with the socket and the connection.                       *)
LEMMA LoopStep == LoopInv /\ [Next]_vars => LoopInv'
<1> SUFFICES ASSUME LoopInv, [Next]_vars PROVE LoopInv'
  OBVIOUS
<1> USE DEF LoopInv, LoopPc, Step
<1>1. CASE Bind
  BY <1>1 DEF Bind
<1>2. CASE Listen
  BY Zenon, <1>2 DEF Listen
<1>3. CASE gw_notify_ready
  BY <1>3 DEF gw_notify_ready
<1>4. CASE LoopTest
  BY Zenon, <1>4 DEF LoopTest
<1>5. CASE EnterAccept
  BY <1>5 DEF EnterAccept
<1>6. CASE Accept
  BY <1>6 DEF Accept
<1>7. CASE ReadRequest
  BY <1>7 DEF ReadRequest
<1>8. CASE Calling
  BY <1>8 DEF Calling, loopVars
<1>9. CASE Answer
  BY <1>9 DEF Answer
<1>10. CASE Close
  BY <1>10 DEF Close
<1>11. CASE AcceptFails
  BY Zenon, <1>11 DEF AcceptFails
<1>12. CASE on_signal
  BY <1>12 DEF on_signal
<1>13. CASE Connect
  BY <1>13 DEF Connect
<1>14. CASE Peer
  BY <1>14 DEF Peer
<1>15. CASE UNCHANGED vars
  BY <1>15 DEF vars, loopVars
<1> QED
  BY Zenon, <1>1, <1>2, <1>3, <1>4, <1>5, <1>6, <1>7, <1>8, <1>9, <1>10, <1>11, <1>12, <1>13, <1>14, <1>15 DEF Next, Process

(* Every step keeps the account of what was taken after a stop. *)
LEMMA StopStep == LoopInv /\ StopInv /\ [Next]_vars => StopInv'
<1> SUFFICES ASSUME LoopInv, StopInv, [Next]_vars PROVE StopInv'
  OBVIOUS
<1> USE DEF LoopInv, LoopPc, StopInv, Step
<1>1. CASE Bind
  BY <1>1 DEF Bind, countVars
<1>2. CASE Listen
  BY <1>2 DEF Listen, countVars
<1>3. CASE gw_notify_ready
  BY <1>3 DEF gw_notify_ready, countVars
<1>4. CASE LoopTest
  BY <1>4 DEF LoopTest, countVars
<1>5. CASE EnterAccept
  BY <1>5 DEF EnterAccept, countVars
<1>6. CASE Accept
  BY <1>6 DEF Accept
<1>7. CASE ReadRequest
  BY <1>7 DEF ReadRequest, countVars
<1>8. CASE Calling
  BY <1>8 DEF Calling, loopVars
<1>9. CASE Answer
  BY <1>9 DEF Answer, countVars
<1>10. CASE Close
  BY <1>10 DEF Close, countVars
<1>11. CASE AcceptFails
  BY <1>11 DEF AcceptFails, countVars
<1>12. CASE on_signal
  BY <1>12 DEF on_signal
<1>13. CASE Connect
  BY <1>13 DEF Connect
<1>14. CASE Peer
  BY <1>14 DEF Peer, countVars
<1>15. CASE UNCHANGED vars
  BY <1>15 DEF vars, loopVars, countVars
<1> QED
  BY Zenon, <1>1, <1>2, <1>3, <1>4, <1>5, <1>6, <1>7, <1>8, <1>9, <1>10, <1>11, <1>12, <1>13, <1>14, <1>15 DEF Next, Process

(* Every step keeps the attempts of the call within their bound, and only  *)
(* the last of its transfers can have been carried out.                    *)
LEMMA CallStep == LoopInv /\ CallInv /\ [Next]_vars => CallInv'
<1> SUFFICES ASSUME LoopInv, CallInv, [Next]_vars PROVE CallInv'
  OBVIOUS
<1> USE DEF CallInv, Step, clientVars
<1>1. CASE Bind
  BY <1>1 DEF Bind
<1>2. CASE Listen
  BY <1>2 DEF Listen
<1>3. CASE gw_notify_ready
  BY <1>3 DEF gw_notify_ready
<1>4. CASE LoopTest
  BY <1>4 DEF LoopTest
<1>5. CASE EnterAccept
  BY <1>5 DEF EnterAccept
<1>6. CASE Accept
  BY <1>6 DEF Accept
<1>7. CASE ReadRequest
  BY <1>7 DEF ReadRequest, Call, Fresh
<1>8. CASE Calling
  <2>1. UNCHANGED pc /\ pc = "calling"
    BY <1>8 DEF Calling, loopVars
  <2>2. CASE SetUp
    BY <2>1, <2>2 DEF SetUp
  <2>3. ASSUME NEW end \in TransferEnd, NEW v \in RetryAfter, NEW jitter \in Jitter,
               Perform(end, v, jitter)
        PROVE  CallInv'
    <3>1. cpc = "perform" /\ carried = 0 /\ UNCHANGED attempt
      BY <2>3 DEF Perform
    <3>2. CASE Retries(end)
      <4>1. end \in Refused /\ attempt < MaxAttempts
        BY <3>2 DEF Retries, Refused
      <4> QED
        BY <2>1, <2>3, <3>1, <3>2, <4>1 DEF Perform
    <3>3. CASE ~Retries(end)
      BY <2>1, <2>3, <3>1, <3>3 DEF Perform
    <3> QED
      BY <3>2, <3>3
  <2>4. CASE NextAttempt
    BY <2>1, <2>4 DEF NextAttempt
  <2> QED
    BY <1>8, <2>2, <2>3, <2>4 DEF Calling, gwc_call, Transfer
<1>9. CASE Answer
  BY <1>9 DEF Answer, gwc_result_free, Fresh
<1>10. CASE Close
  BY <1>10 DEF Close
<1>11. CASE AcceptFails
  BY <1>11 DEF AcceptFails
<1>12. CASE on_signal
  BY <1>12 DEF on_signal
<1>13. CASE Connect
  BY <1>13 DEF Connect
<1>14. CASE Peer
  BY <1>14 DEF Peer
<1>15. CASE UNCHANGED vars
  BY <1>15 DEF vars, loopVars
<1> QED
  BY Zenon, <1>1, <1>2, <1>3, <1>4, <1>5, <1>6, <1>7, <1>8, <1>9, <1>10, <1>11, <1>12, <1>13, <1>14, <1>15 DEF Next, Process

(* A step outside the call leaves its account alone. *)
LEMMA QuietSpending ==
  ASSUME SpentInv, UNCHANGED <<calls_made, spent, clientVars>>
  PROVE  SpentInv'
BY DEF SpentInv, clientVars

(* What all attempts of n calls may cost. *)
LEMMA Cost ==
  ASSUME NEW n \in Nat, NEW b \in Nat, NEW a \in Nat, n <= b
  PROVE  /\ n * a \in Nat /\ n * a <= b * a
         /\ n >= 1 => (n - 1) * a \in Nat /\ (n - 1) * a + a = n * a
         /\ (n + 1 - 1) * a = n * a
OBVIOUS

(* Every step keeps the account of what was sent. *)
LEMMA SpentStep == LoopInv /\ CallInv /\ SpentInv /\ [Next]_vars => SpentInv'
<1> SUFFICES ASSUME LoopInv, CallInv, SpentInv, [Next]_vars PROVE SpentInv'
  OBVIOUS
<1> USE DEF Step
<1>1. CASE Bind
  BY <1>1, QuietSpending DEF Bind, countVars
<1>2. CASE Listen
  BY <1>2, QuietSpending DEF Listen, countVars
<1>3. CASE gw_notify_ready
  BY <1>3, QuietSpending DEF gw_notify_ready, countVars
<1>4. CASE LoopTest
  BY <1>4, QuietSpending DEF LoopTest, countVars
<1>5. CASE EnterAccept
  BY <1>5, QuietSpending DEF EnterAccept, countVars
<1>6. CASE Accept
  BY <1>6, QuietSpending DEF Accept
<1>7. CASE ReadRequest
  <2>1. CASE UNCHANGED <<calls_made, clientVars>>
    BY <1>7, <2>1, QuietSpending DEF ReadRequest, countVars
  <2>2. CASE BudgetLeft /\ calls_made' = calls_made + 1 /\ Call
    <3>1. cpc = "idle" /\ UNCHANGED spent
      BY <1>7, <2>2 DEF ReadRequest, CallInv, countVars
    <3>2. calls_made \in Nat /\ MaxAttempts \in Nat
      BY DEF SpentInv
    <3>3. (calls_made + 1 - 1) * MaxAttempts = calls_made * MaxAttempts
      BY <3>2, Cost
    <3>4. cpc' = "setup" /\ attempt' = 1
      BY <2>2 DEF Call, Fresh
    <3> QED
      BY <2>2, <3>1, <3>3, <3>4 DEF SpentInv, BudgetLeft
  <2> QED
    BY <1>7, <2>1, <2>2 DEF ReadRequest
<1>8. CASE Calling
  <2>1. UNCHANGED calls_made
    BY <1>8 DEF Calling, loopVars
  <2> DEFINE before == (calls_made - 1) * MaxAttempts
  <2>2. calls_made \in Nat /\ MaxAttempts \in Nat /\ calls_made >= 1
    BY <1>8 DEF SpentInv, CallInv, Calling
  <2>3. before \in Nat
    BY <2>2, Cost
  <2>4. SpentCap \in Nat
    BY <2>2, Cost DEF SpentCap
  <2>5. /\ calls_made \in 0 .. CallBudget /\ spent \in Nat
        /\ cpc = "setup" => spent <= before + (attempt - 1)
        /\ cpc \in {"perform", "backoff", "returned"} => spent <= before + attempt
    BY DEF SpentInv
  <2>6. attempt \in Nat /\ cpc # "idle"
    BY <1>8 DEF CallInv, Calling
  <2>7. spent' = IF cpc' = "perform" THEN Least(spent + 1, SpentCap) ELSE spent
    BY <1>8 DEF Calling
  <2> HIDE DEF before
  <2>8. spent' \in Nat /\ spent' <= spent + 1 /\ (cpc' # "perform" => spent' = spent)
    BY <2>4, <2>5, <2>7 DEF Least
  <2>9. /\ cpc' # "idle"
        /\ cpc' = "setup" => spent' <= before + (attempt' - 1)
        /\ cpc' \in {"perform", "backoff", "returned"} => spent' <= before + attempt'
    <3>1. CASE SetUp
      BY <2>3, <2>5, <2>6, <2>8, <3>1 DEF SetUp
    <3>2. CASE Transfer
      BY <2>3, <2>5, <2>6, <2>8, <3>2 DEF Transfer, Perform
    <3>3. CASE NextAttempt
      BY <2>3, <2>5, <2>6, <2>8, <3>3 DEF NextAttempt
    <3> QED
      BY <1>8, <3>1, <3>2, <3>3 DEF Calling, gwc_call
  <2> QED
    BY <2>1, <2>2, <2>5, <2>8, <2>9 DEF SpentInv, before
<1>9. CASE Answer
  <2>1. cpc = "returned" /\ cpc' = "idle" /\ UNCHANGED <<calls_made, spent>>
    BY <1>9 DEF Answer, gwc_result_free, Fresh, countVars
  <2>2. calls_made \in Nat /\ MaxAttempts \in Nat /\ calls_made >= 1
    BY <2>1 DEF SpentInv
  <2>3. (calls_made - 1) * MaxAttempts \in Nat /\ calls_made * MaxAttempts \in Nat
    BY <2>2, Cost
  <2>4. (calls_made - 1) * MaxAttempts + MaxAttempts = calls_made * MaxAttempts
    BY <2>2, Cost
  <2>5. attempt \in Nat /\ attempt <= MaxAttempts
    BY <2>1 DEF CallInv
  <2>6. spent \in Nat /\ spent <= (calls_made - 1) * MaxAttempts + attempt
    BY <2>1 DEF SpentInv
  <2>7. spent <= calls_made * MaxAttempts
    BY <2>2, <2>3, <2>4, <2>5, <2>6
  <2> QED
    BY <2>1, <2>7 DEF SpentInv
<1>10. CASE Close
  BY <1>10, QuietSpending DEF Close, countVars
<1>11. CASE AcceptFails
  BY <1>11, QuietSpending DEF AcceptFails, countVars
<1>12. CASE on_signal
  BY <1>12, QuietSpending DEF on_signal
<1>13. CASE Connect
  BY <1>13, QuietSpending DEF Connect
<1>14. CASE Peer
  BY <1>14, QuietSpending DEF Peer, countVars
<1>15. CASE UNCHANGED vars
  BY <1>15, QuietSpending DEF vars, loopVars, countVars
<1> QED
  BY Zenon, <1>1, <1>2, <1>3, <1>4, <1>5, <1>6, <1>7, <1>8, <1>9, <1>10, <1>11, <1>12, <1>13, <1>14, <1>15 DEF Next, Process

-----------------------------------------------------------------------------
(* The inductive invariant of the service holds in every behaviour. *)
LEMMA ServiceInvariant == Spec => []ServiceInv
<1>1. ServiceInv /\ [Next]_vars => ServiceInv'
  BY Zenon, LoopStep, StopStep, CallStep, SpentStep DEF ServiceInv
<1> QED
  BY <1>1, InitService, PTL DEF Spec

(***************************************************************************)
(* However signals fall between the steps of the accept loop, and however  *)
(* many connections wait, a stop costs at most one more request.           *)
(***************************************************************************)
THEOREM StopCostsOneRequest == Spec => []OneMoreAfterStop
<1>1. ServiceInv => OneMoreAfterStop
  BY DEF ServiceInv, StopInv, OneMoreAfterStop
<1> QED
  BY <1>1, ServiceInvariant, PTL

(* For every max_attempts, no transfer that the upstream may have carried  *)
(* out is followed by another one of the same gwc_call.                    *)
THEOREM PaidRequestSentOnce == Spec => []CarriedOutOnce
<1>1. ServiceInv => CarriedOutOnce
  BY DEF ServiceInv, CallInv, CarriedOutOnce
<1> QED
  BY <1>1, ServiceInvariant, PTL

(* For every call_budget and max_attempts, their product bounds what one   *)
(* process sends upstream, whatever the order of calls and retries.        *)
THEOREM SpendIsBounded == Spec => []SpendBounded
<1>1. ServiceInv => SpendBounded
  <2> SUFFICES ASSUME ServiceInv PROVE SpendBounded
    OBVIOUS
  <2>1. /\ calls_made \in Nat /\ calls_made <= CallBudget /\ MaxAttempts \in Nat
        /\ spent \in Nat
    BY DEF ServiceInv, SpentInv
  <2>2. calls_made * MaxAttempts \in Nat /\ CallBudget * MaxAttempts \in Nat
    BY <2>1, Cost
  <2>3. calls_made * MaxAttempts <= CallBudget * MaxAttempts
    BY <2>1, Cost
  <2>4. spent <= calls_made * MaxAttempts
    <3>1. CASE cpc = "idle"
      BY <3>1 DEF ServiceInv, SpentInv
    <3>2. CASE cpc # "idle"
      <4>1. calls_made >= 1 /\ attempt \in Nat /\ attempt <= MaxAttempts
        BY <3>2 DEF ServiceInv, CallInv, SpentInv
      <4>2. /\ (calls_made - 1) * MaxAttempts \in Nat
            /\ (calls_made - 1) * MaxAttempts + MaxAttempts = calls_made * MaxAttempts
        BY <2>1, <4>1, Cost
      <4>3. spent <= (calls_made - 1) * MaxAttempts + attempt
        BY <3>2, <4>1 DEF ServiceInv, CallInv, SpentInv
      <4> QED
        BY <2>1, <2>2, <4>1, <4>2, <4>3
    <3> QED
      BY <3>1, <3>2
  <2> QED
    BY <2>1, <2>2, <2>3, <2>4 DEF SpendBounded
<1> QED
  BY <1>1, ServiceInvariant, PTL

(* READY=1 is never announced for a socket that does not take connections. *)
THEOREM ReadyMeansListening == Spec => []ReadyIsListening
<1>1. ServiceInv => ReadyIsListening
  BY DEF ServiceInv, LoopInv, ReadyIsListening
<1> QED
  BY <1>1, ServiceInvariant, PTL

-----------------------------------------------------------------------------
(***************************************************************************)
(* The waits between the attempts of one call.  The last one that the      *)
(* upstream did not set is no longer than what the next attempt, if it is  *)
(* refused, will wait at least: the jitter added to a wait never makes up  *)
(* for the doubling of the next.                                           *)
(***************************************************************************)
Base(n) == SecondMs * 2^(n - 1)

WaitInv ==
  /\ own_wait \in 0 .. MinuteMs
  /\ cpc \in {"setup", "perform"} => own_wait <= Base(attempt)
  /\ cpc = "backoff" => ms \in SecondMs .. MinuteMs /\ own_wait <= Base(attempt + 1)

(* The two bounds of backoff_sleep. *)
LEMMA Bounds == SecondMs \in Nat /\ MinuteMs \in Nat /\ 500 < SecondMs /\ SecondMs <= MinuteMs
BY SMT DEF SecondMs, MinuteMs

(* The shift of backoff_sleep by attempt - 1 doubles for as many attempts  *)
(* as gw_config.c allows.                                                  *)
LEMMA Doubling ==
  ASSUME NEW n \in 1 .. 9
  PROVE  Base(n) \in Int /\ SecondMs <= Base(n) /\ Base(n + 1) = 2 * Base(n)
<1> DEFINE Power(k) == 2^k \in Nat \ {0} /\ 2^(k + 1) = 2 * 2^k
<1>1. n - 1 = 0 \/ n - 1 = 1 \/ n - 1 = 2 \/ n - 1 = 3 \/ n - 1 = 4 \/ n - 1 = 5 \/ n - 1 = 6
        \/ n - 1 = 7 \/ n - 1 = 8
  BY SMT
<1>2. Power(0) /\ Power(1) /\ Power(2) /\ Power(3) /\ Power(4) /\ Power(5) /\ Power(6) /\ Power(7)
        /\ Power(8)
  BY SMT
<1> HIDE DEF Power
<1>3. Power(n - 1)
  BY Zenon, <1>1, <1>2
<1> DEFINE p == 2^(n - 1)
<1>4. p \in Nat \ {0} /\ 2^(n + 1 - 1) = 2 * p
  <2>1. n + 1 - 1 = (n - 1) + 1
    OBVIOUS
  <2> QED
    BY Zenon, <1>3, <2>1 DEF Power
<1>5. Base(n) = SecondMs * p /\ Base(n + 1) = SecondMs * (2 * p)
  BY <1>4 DEF Base
<1> HIDE DEF p
<1>6. ASSUME NEW b \in Nat, NEW q \in Nat \ {0} PROVE b * q \in Nat /\ b <= b * q /\ b * (2 * q) = 2 * (b * q)
  OBVIOUS
<1> QED
  BY <1>4, <1>5, <1>6, Bounds

(* A wait of the gateway's own, between this doubling and the next. *)
LEMMA OwnWait ==
  ASSUME NEW n \in 1 .. 9, NEW jitter \in 0 .. 499, NEW w, w = backoff_sleep(n, 0, jitter),
         NEW u \in 0 .. MinuteMs, u <= Base(n)
  PROVE  w \in SecondMs .. MinuteMs /\ w <= Base(n + 1) /\ u <= w
<1>1. Base(n) \in Int /\ SecondMs <= Base(n) /\ Base(n + 1) = 2 * Base(n)
  BY Doubling
<1>2. w = IF MinuteMs < Base(n) + jitter THEN MinuteMs ELSE Base(n) + jitter
  BY DEF backoff_sleep, Least, Base
<1>3. /\ Base(n) + jitter \in Int /\ Base(n) + jitter >= Base(n)
      /\ Base(n) + jitter < Base(n + 1)
  BY <1>1, Bounds
<1>4. CASE MinuteMs < Base(n) + jitter
  BY <1>1, <1>2, <1>3, <1>4, Bounds
<1>5. CASE ~(MinuteMs < Base(n) + jitter)
  BY <1>1, <1>2, <1>3, <1>5, Bounds
<1> QED
  BY <1>4, <1>5

(* A wait that the upstream set. *)
LEMMA SetWait ==
  ASSUME NEW n, NEW r \in Nat \ {0}, NEW jitter
  PROVE  backoff_sleep(n, r, jitter) \in SecondMs .. MinuteMs
<1>1. ASSUME NEW b \in Nat PROVE r * b \in Nat /\ b <= r * b
  OBVIOUS
<1> QED
  BY <1>1, Bounds DEF backoff_sleep, Least

(* What the retry of a transfer does to the waits. *)
LEMMA PerformWait ==
  ASSUME CallInv, WaitInv, NEW end, NEW v \in RetryAfter, NEW jitter \in Jitter,
         Perform(end, v, jitter), Retries(end)
  PROVE  /\ ms' \in SecondMs .. MinuteMs /\ own_wait' >= own_wait
         /\ own_wait' \in 0 .. MinuteMs /\ own_wait' <= Base(attempt + 1)
<1>0. cpc = "perform"
  BY DEF Perform
<1>1. attempt \in 1 .. 9 /\ jitter \in 0 .. 499
  BY <1>0 DEF CallInv, Retries
<1>2. Base(attempt) \in Int /\ SecondMs <= Base(attempt) /\ Base(attempt + 1) = 2 * Base(attempt)
  BY <1>1, Doubling
<1>3. /\ ms' = backoff_sleep(attempt, on_header(v), jitter)
      /\ own_wait' = IF on_header(v) = 0 THEN ms' ELSE own_wait
  BY DEF Perform
<1>4. own_wait \in 0 .. MinuteMs /\ own_wait <= Base(attempt)
  BY <1>0 DEF WaitInv
<1> HIDE DEF Base
<1>5. CASE on_header(v) = 0
  <2>1. ms' = backoff_sleep(attempt, 0, jitter) /\ own_wait' = ms'
    BY <1>3, <1>5
  <2>2. ms' \in SecondMs .. MinuteMs /\ ms' <= Base(attempt + 1) /\ own_wait <= ms'
    BY ZenonT(40), <1>1, <1>4, <2>1, OwnWait
  <2> QED
    BY <1>4, <2>1, <2>2, Bounds
<1>6. CASE on_header(v) # 0
  <2>1. on_header(v) \in Nat \ {0}
    BY SMT, <1>6 DEF on_header
  <2>2. ms' \in SecondMs .. MinuteMs /\ own_wait' = own_wait
    BY Zenon, <1>3, <1>6, <2>1, SetWait
  <2> QED
    BY <1>2, <1>4, <2>2, Bounds
<1> QED
  BY <1>5, <1>6

(* A step that leaves the call alone. *)
LEMMA QuietWaits == WaitInv /\ UNCHANGED clientVars => WaitInv' /\ own_wait' = own_wait
BY DEF WaitInv, clientVars

(* Every step keeps the waits of a call in order, and none shortens the    *)
(* wait that the next one will be compared with while the call goes on.    *)
LEMMA WaitStep ==
  ASSUME LoopInv, CallInv, WaitInv, [Next]_vars
  PROVE  WaitInv' /\ (cpc' = "backoff" => own_wait' >= own_wait)
<1>0. own_wait \in Int
  BY Bounds DEF WaitInv
<1>1. CASE UNCHANGED clientVars
  BY <1>0, <1>1, QuietWaits
<1>2. ASSUME NEW l \in {"setup", "idle"}, NEW n, l = "setup" => n = 1, Fresh(l, n)
      PROVE  WaitInv' /\ cpc' # "backoff"
  <2>1. cpc' = l /\ own_wait' = 0 /\ (l = "setup" => attempt' = 1)
    BY <1>2 DEF Fresh
  <2>2. 0 <= Base(1) /\ 0 \in 0 .. MinuteMs
    BY Doubling, Bounds
  <2> QED
    BY <2>1, <2>2 DEF WaitInv
<1>3. CASE SetUp
  BY <1>3 DEF SetUp, WaitInv
<1>4. ASSUME NEW end \in TransferEnd, NEW v \in RetryAfter, NEW jitter \in Jitter,
             Perform(end, v, jitter)
      PROVE  WaitInv' /\ (cpc' = "backoff" => own_wait' >= own_wait)
  <2>1. CASE Retries(end)
    <3>1. cpc' = "backoff" /\ attempt' = attempt
      BY <1>4, <2>1 DEF Perform
    <3>2. /\ ms' \in SecondMs .. MinuteMs /\ own_wait' >= own_wait
          /\ own_wait' \in 0 .. MinuteMs /\ own_wait' <= Base(attempt + 1)
      BY Zenon, <1>4, <2>1, PerformWait
    <3> QED
      BY <3>1, <3>2 DEF WaitInv
  <2>2. CASE ~Retries(end)
    <3>1. cpc' = "returned" /\ own_wait' = own_wait
      BY <1>4, <2>2 DEF Perform
    <3> QED
      BY <3>1 DEF WaitInv
  <2> QED
    BY <2>1, <2>2
<1>5. CASE NextAttempt
  BY <1>5 DEF NextAttempt, WaitInv
<1>6. CASE Calling
  BY Zenon, <1>3, <1>4, <1>5, <1>6 DEF Calling, gwc_call, Transfer
<1>7. CASE ReadRequest
  BY Zenon, <1>1, <1>2, <1>7 DEF ReadRequest, Call
<1>8. CASE Answer
  BY Zenon, <1>2, <1>8 DEF Answer, gwc_result_free
<1> QED
  BY Zenon, <1>1, <1>6, <1>7, <1>8
     DEF Next, Process, vars, Bind, Listen, gw_notify_ready, LoopTest, EnterAccept, Accept, Close,
         AcceptFails, on_signal, Connect, Peer

(***************************************************************************)
(* For every max_attempts that the configuration allows and every          *)
(* retry-after header, backoff_sleep waits between a second and a minute,  *)
(* and the waits of one call that the upstream does not set never shrink.  *)
(***************************************************************************)
THEOREM BackoffGrows == Spec => BackoffGrowsToCap
<1>1. Init => WaitInv
  BY Bounds DEF Init, ClientInit, WaitInv
<1>2. ServiceInv /\ WaitInv /\ [Next]_vars =>
        WaitInv' /\ (cpc' = "backoff" => ms' \in SecondMs .. MinuteMs /\ own_wait' >= own_wait)
  BY Zenon, WaitStep DEF ServiceInv, WaitInv
<1> QED
  BY <1>1, <1>2, ServiceInvariant, PTL DEF Spec, BackoffGrowsToCap
=============================================================================
