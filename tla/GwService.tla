----------------------------- MODULE GwService -----------------------------
(***************************************************************************)
(* gateway/src/gw_main.c from the signal handlers on: the listening        *)
(* socket, the serial accept loop, the request in hand and its oracle      *)
(* call, and the signals that stop the service at any of these points.     *)
(* What the request leaves in the ledger is Gateway.tla's part.            *)
(***************************************************************************)
EXTENDS GwClient

CONSTANTS CallBudget,     \* cfg.call_budget
          MaxConns,       \* bound on connections ever made
          MaxSignals      \* bound on signals sent

ASSUME ServiceConstants == CallBudget \in Nat /\ MaxConns \in Nat /\ MaxSignals \in Nat

VARIABLES
  pc,              \* "bind", "listen", "notify", "loop", "enter", "blocked",
                   \* "reading", "calling", "closing" or "exited"
  g_stop,
  listening,       \* does the socket take connections?
  ready,           \* has READY=1 been sent?
  pending,         \* connections in the backlog
  client,          \* the peer of the connection in hand: "none", "silent",
                   \* "sent" or "gone"
  calls_made,
  conns, signals,  \* ghost: connections made and signals sent so far
  taken_late,      \* ghost: connections taken after g_stop was set
  busy_at_stop,    \* ghost: was a request in hand when it was set?
  spent            \* ghost: transfers started by this process

loopVars == <<pc, g_stop, listening, ready, pending, client, calls_made>>
countVars == <<conns, signals, taken_late, busy_at_stop, spent>>
vars == <<loopVars, countVars, clientVars>>

Init == /\ ClientInit
        /\ pc = "bind" /\ g_stop = FALSE /\ listening = FALSE /\ ready = FALSE
        /\ pending = 0 /\ client = "none" /\ calls_made = 0
        /\ conns = 0 /\ signals = 0 /\ taken_late = 0 /\ busy_at_stop = FALSE /\ spent = 0

Step(from, to) == pc = from /\ pc' = to

-----------------------------------------------------------------------------
(* Mutant: READY=1 is sent once the socket is bound. *)
Bind_ready == /\ \E to \in {"listen", "exited"} : Step("bind", to)
              /\ ready' = TRUE
              /\ UNCHANGED <<g_stop, listening, pending, client, calls_made, countVars, clientVars>>

(* unlink, socket, bind, chmod: any failure exits. *)
Bind == /\ \E to \in {"listen", "exited"} : Step("bind", to)
        /\ UNCHANGED <<g_stop, listening, ready, pending, client, calls_made, countVars, clientVars>>

Listen == /\ \/ Step("listen", "notify") /\ listening' = TRUE
             \/ Step("listen", "exited") /\ UNCHANGED listening
          /\ UNCHANGED <<g_stop, ready, pending, client, calls_made, countVars, clientVars>>

(* A failed send is logged and the service continues. *)
gw_notify_ready == /\ Step("notify", "loop")
                   /\ ready' \in BOOLEAN
                   /\ UNCHANGED <<g_stop, listening, pending, client, calls_made, countVars,
                                  clientVars>>

(* Mutant: the loop condition is not rechecked. *)
LoopTest_always == /\ Step("loop", "enter")
                   /\ UNCHANGED <<g_stop, listening, ready, pending, client, calls_made,
                                  countVars, clientVars>>

(* while (!g_stop): on the way out the socket is closed and unlinked. *)
LoopTest == /\ \/ ~g_stop /\ Step("loop", "enter") /\ UNCHANGED <<listening, pending>>
               \/ g_stop /\ Step("loop", "exited") /\ listening' = FALSE /\ pending' = 0
            /\ UNCHANGED <<g_stop, ready, client, calls_made, countVars, clientVars>>

(* The thread enters accept, which sleeps while the backlog is empty. *)
EnterAccept == /\ pending = 0 /\ Step("enter", "blocked")
               /\ UNCHANGED <<g_stop, listening, ready, pending, client, calls_made, countVars,
                              clientVars>>

Accept == /\ pending > 0 /\ pc \in {"enter", "blocked"} /\ pc' = "reading"
          /\ pending' = pending - 1 /\ client' = "silent"
          /\ taken_late' = IF g_stop THEN taken_late + 1 ELSE taken_late
          /\ UNCHANGED <<g_stop, listening, ready, calls_made, conns, signals, busy_at_stop, spent,
                         clientVars>>

(* Any other error of accept ends the loop. *)
AcceptFails == /\ Step("enter", "exited")
               /\ listening' = FALSE /\ pending' = 0
               /\ UNCHANGED <<g_stop, ready, client, calls_made, countVars, clientVars>>

(* Mutant: the budget may be passed by one. *)
BudgetLeft_off_by_one == calls_made <= CallBudget

BudgetLeft == calls_made < CallBudget

(* Mutant: a peer that closed its connection is waited for. *)
ReadRequest_no_eof ==
  /\ client = "sent"
  /\ \/ Step("reading", "closing") /\ UNCHANGED <<calls_made, clientVars>>
     \/ /\ BudgetLeft
        /\ Step("reading", "calling")
        /\ calls_made' = calls_made + 1
        /\ Call
  /\ UNCHANGED <<g_stop, listening, ready, pending, client, countVars>>

(***************************************************************************)
(* handle_request up to the call: what was read is rejected, or is over    *)
(* the budget, or its intent or body fails, or the call is made.           *)
(***************************************************************************)
ReadRequest ==
  /\ client \in {"sent", "gone"}
  /\ \/ Step("reading", "closing") /\ UNCHANGED <<calls_made, clientVars>>
     \/ /\ client = "sent" /\ BudgetLeft
        /\ Step("reading", "calling")
        /\ calls_made' = calls_made + 1
        /\ Call
  /\ UNCHANGED <<g_stop, listening, ready, pending, client, countVars>>

(* The ghost stops counting just past the bound that is of interest. *)
SpentCap == CallBudget * MaxAttempts + 1

Calling == /\ pc = "calling"
           /\ gwc_call
           /\ spent' = IF cpc' = "perform" THEN Least(spent + 1, SpentCap) ELSE spent
           /\ UNCHANGED <<loopVars, conns, signals, taken_late, busy_at_stop>>

(* The observation is committed and answered. *)
Answer == /\ Step("calling", "closing")
          /\ gwc_result_free
          /\ UNCHANGED <<g_stop, listening, ready, pending, client, calls_made, countVars>>

Close == /\ Step("closing", "loop")
         /\ client' = "none"
         /\ UNCHANGED <<g_stop, listening, ready, pending, calls_made, countVars, clientVars>>

Process == \/ Bind \/ Listen \/ gw_notify_ready \/ LoopTest \/ EnterAccept \/ Accept
           \/ ReadRequest \/ Calling \/ Answer \/ Close

-----------------------------------------------------------------------------
(***************************************************************************)
(* SIGTERM or SIGINT.  The handler sets g_stop; with SA_RESTART not set, a *)
(* signal that finds the thread asleep in accept, or in the read of a      *)
(* request, makes that call fail.  One that arrives just before the call   *)
(* is entered does not.                                                    *)
(***************************************************************************)
on_signal ==
  /\ pc # "exited" /\ signals < MaxSignals
  /\ signals' = signals + 1
  /\ g_stop' = TRUE
  /\ busy_at_stop' = IF g_stop THEN busy_at_stop ELSE client # "none"
  /\ pc' \in IF pc = "blocked" THEN {"loop"}
             ELSE IF pc = "reading" /\ client = "silent" THEN {pc, "closing"} ELSE {pc}
  /\ UNCHANGED <<listening, ready, pending, client, calls_made, conns, taken_late, spent, clientVars>>

Connect == /\ listening /\ conns < MaxConns
           /\ conns' = conns + 1 /\ pending' = pending + 1
           /\ UNCHANGED <<pc, g_stop, listening, ready, client, calls_made, signals, taken_late,
                          busy_at_stop, spent, clientVars>>

(* The peer in hand sends its whole request, or gives up before that. *)
Peer == /\ client = "silent" /\ client' \in {"sent", "gone"}
        /\ UNCHANGED <<pc, g_stop, listening, ready, pending, calls_made, countVars, clientVars>>

Next == Process \/ AcceptFails \/ on_signal \/ Connect \/ Peer

Spec == Init /\ [][Next]_vars

(* The thread keeps running, and a transfer ends by its timeout. *)
FairSpec == Spec /\ WF_vars(Process)

(* Moreover no peer holds its connection for ever without sending. *)
FairPeersSpec == FairSpec /\ WF_vars(Peer)

-----------------------------------------------------------------------------
(***************************************************************************)
(* After a stop signal at most one more request is served: the one in hand *)
(* when it arrived, or one taken by an accept that had already been        *)
(* decided on (the loop of main).                                          *)
(***************************************************************************)
OneMoreAfterStop == taken_late + (IF busy_at_stop THEN 1 ELSE 0) <= 1

(***************************************************************************)
(* A paid request is not sent twice: of the transfers of one gwc_call at   *)
(* most one, the last, can have been carried out by the upstream, because  *)
(* only refusals (429, 5xx) are tried again.                               *)
(***************************************************************************)
CarriedOutOnce == carried <= 1 /\ (carried = 1 => cpc = "returned")

(***************************************************************************)
(* The spend guard counts calls, and a call is up to max_attempts          *)
(* transfers: that product bounds what one process can send upstream.      *)
(***************************************************************************)
SpendBounded == spent <= CallBudget * MaxAttempts

(***************************************************************************)
(* backoff_sleep waits a second at least and a minute at most, for every   *)
(* attempt and every retry-after header, and where the upstream sets no    *)
(* time a wait is never shorter than an earlier one of the same call.      *)
(***************************************************************************)
BackoffGrowsToCap ==
  [][cpc' = "backoff" => ms' \in SecondMs .. MinuteMs /\ own_wait' >= own_wait]_vars

(***************************************************************************)
(* READY=1 is sent only once the socket takes connections, and it takes    *)
(* them until the service stops (gw_notify_ready after listen).            *)
(***************************************************************************)
ReadyIsListening == ready /\ pc # "exited" => listening

(* Every oracle call comes to an end, whatever the upstream does, and the  *)
(* loop goes on: the retries of gwc_call are bounded.                      *)
CallsEnd == pc = "calling" ~> pc = "loop"

(***************************************************************************)
(* If no peer holds its connection for ever, every connection in the       *)
(* backlog is taken by the loop or dropped with the socket.  handle_request*)
(* reads without a timeout, so the condition is needed: one silent peer    *)
(* holds the service.                                                      *)
(***************************************************************************)
BacklogServed == WF_vars(Peer) => (pending > 0 ~> pending = 0)

(***************************************************************************)
(* "accept() must return EINTR so the loop rechecks g_stop, or SIGTERM     *)
(* never lands" (main): a stop signal ends the service.                    *)
(***************************************************************************)
StopLands == g_stop ~> pc = "exited"
=============================================================================
