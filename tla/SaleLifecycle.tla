--------------------------- MODULE SaleLifecycle ---------------------------
(***************************************************************************)
(* A flash sale from its window to its post-mortem.  Purchases pass the    *)
(* window check and report to ClickHouse in the background, best effort.   *)
(* Celery beat fires flash_sale_postmortem again and again; each pass, on  *)
(* any worker, selects the sales that are over, asks ClickHouse for their  *)
(* figures and commits status and audit_log rows in one transaction.       *)
(* Messages are acknowledged late, so that a lost worker repeats its pass. *)
(* The load-test script gives a sale a new window.                         *)
(***************************************************************************)
EXTENDS Integers, Sequences, FiniteSets

CONSTANTS
  Sales,         \* ids in flash_sales
  Buys,          \* POSTs to /flashsales/{id}/buy that end in an order
  SaleOf,        \* which sale each of them is for
  Workers,       \* Celery worker processes
  MaxQueued,     \* beat messages waiting at a time (a bound)
  MaxLosses,     \* how often a worker is lost or a pass fails (a bound)
  MaxRefreshes,  \* how often the script gives out a new window (a bound)
  NoStats        \* the payload of a row without ClickHouse figures

ASSUME SaleAssumption ==
  /\ SaleOf \in [Buys -> Sales]
  /\ MaxQueued \in Nat \ {0} /\ MaxLosses \in Nat /\ MaxRefreshes \in Nat

VARIABLES
  phase,     \* the window of each sale: before, open or over
  status,    \* flash_sales.status
  buy,       \* how far each purchase is
  events,    \* ClickHouse flash_sale_events: purchases whose row arrived
  queued,    \* messages of flash_sale_postmortem in RabbitMQ
  pass,      \* what each worker's pass has done
  audit,     \* audit_log: the flash_sale.ended rows of each sale
  losses, refreshes,
  windows,   \* history: how many windows each sale has had
  unsure,    \* history: purchases in flight when their window closed, or unreported
  doubled,   \* history: sales that two passes held at a time
  overtaken  \* history: sales refreshed while a pass held them

vars == <<phase, status, buy, events, queued, pass, audit, losses, refreshes,
          windows, unsure, doubled, overtaken>>
saleVars == <<phase, windows, refreshes, overtaken>>
buyVars == <<buy, events, unsure>>
passVars == <<queued, pass, doubled, losses>>

Idle == [at |-> "idle", picked |-> {}, rows |-> <<>>]

Init ==
  /\ phase = [s \in Sales |-> "before"]
  /\ status \in [Sales -> {"scheduled", "active", "cancelled"}]
  /\ buy = [b \in Buys |-> "start"]
  /\ events = {}
  /\ queued = 0
  /\ pass = [w \in Workers |-> Idle]
  /\ audit = [s \in Sales |-> <<>>]
  /\ losses = 0 /\ refreshes = 0
  /\ windows = [s \in Sales |-> 1]
  /\ unsure = {} /\ doubled = {} /\ overtaken = {}

-----------------------------------------------------------------------------
(* Time, and the script                                                    *)

InFlight(s) == {b \in Buys : SaleOf[b] = s /\ buy[b] \in {"buying", "reporting"}}

Opens(s) ==
  /\ phase[s] = "before"
  /\ phase' = [phase EXCEPT ![s] = "open"]
  /\ UNCHANGED <<status, buyVars, passVars, audit, windows, refreshes, overtaken>>

Closes(s) ==
  /\ phase[s] = "open"
  /\ phase' = [phase EXCEPT ![s] = "over"]
  /\ unsure' = unsure \cup InFlight(s)
  /\ UNCHANGED <<status, buy, events, passVars, audit, windows, refreshes, overtaken>>

Holders(s) == {w \in Workers : s \in pass[w].picked}

\* create_loadtest_flashsale.py: a window that is open at once, and status active.
Refresh(s) ==
  /\ refreshes < MaxRefreshes
  /\ refreshes' = refreshes + 1
  /\ phase' = [phase EXCEPT ![s] = "open"]
  /\ status' = [status EXCEPT ![s] = "active"]
  /\ windows' = [windows EXCEPT ![s] = @ + 1]
  /\ overtaken' = IF Holders(s) = {} THEN overtaken \ {s} ELSE overtaken \cup {s}
  /\ UNCHANGED <<buyVars, passVars, audit>>

-----------------------------------------------------------------------------
(* A purchase                                                              *)

\* _is_buyable_now: inside of the window, and neither ended nor cancelled.
IsBuyable(s) == phase[s] = "open" /\ status[s] \notin {"ended", "cancelled"}

\* The sale is loaded and checked once, at the start; a rejected one changes nothing.
PassGate(b) ==
  /\ buy[b] = "start" /\ IsBuyable(SaleOf[b])
  /\ buy' = [buy EXCEPT ![b] = "buying"]
  /\ UNCHANGED <<saleVars, status, events, unsure, passVars, audit>>

\* The order is persisted and handed off; the `accepted` row is left to a task.
Buy(b) ==
  /\ buy[b] = "buying"
  /\ buy' = [buy EXCEPT ![b] = "reporting"]
  /\ UNCHANGED <<saleVars, status, events, unsure, passVars, audit>>

\* emit_flash_sale_event inserts the row.
Report(b) ==
  /\ buy[b] = "reporting"
  /\ buy' = [buy EXCEPT ![b] = "done"]
  /\ events' = events \cup {b}
  /\ UNCHANGED <<saleVars, status, unsure, passVars, audit>>

\* No client since start-up, a failing insert, or the process stops: no row.
ReportLost(b) ==
  /\ buy[b] = "reporting"
  /\ buy' = [buy EXCEPT ![b] = "done"]
  /\ unsure' = unsure \cup {b}
  /\ UNCHANGED <<saleVars, status, events, passVars, audit>>

-----------------------------------------------------------------------------
(* flash_sale_postmortem                                                   *)

\* Beat sends the message, every five minutes.
Fire ==
  /\ queued < MaxQueued
  /\ queued' = queued + 1
  /\ UNCHANGED <<saleVars, status, buyVars, pass, doubled, losses, audit>>

\* Mutant: only sales that somebody has activated are looked for.
DueActive == {s \in Sales : phase[s] = "over" /\ status[s] = "active"}

\* Mutant: the window is not looked at.
DueAnyTime == {s \in Sales : phase[s] # "before" /\ status[s] \in {"scheduled", "active"}}

\* Mutant: sales that have ended are selected again.
DueAgain == {s \in Sales : phase[s] = "over" /\ status[s] # "cancelled"}

Due == {s \in Sales : phase[s] = "over" /\ status[s] \in {"scheduled", "active"}}

\* A worker receives the message and SELECTs, without locking the rows.
Select(w) ==
  /\ pass[w] = Idle /\ queued > 0
  /\ queued' = queued - 1
  /\ pass' = [pass EXCEPT ![w] = [at |-> "stats", picked |-> Due, rows |-> <<>>]]
  /\ doubled' = doubled \cup {s \in Due : Holders(s) # {}}
  /\ UNCHANGED <<saleVars, status, buyVars, losses, audit>>

\* get_sync_clickhouse fails to connect, as it may on any call, or a query fails.
Unavailable == {NoStats}

\* What the queries may return for a sale.
Figures(s) == {{b \in events : SaleOf[b] = s}} \cup Unavailable

\* The figures of one sale, for the row that will be inserted.
Stats(w, s) ==
  /\ pass[w].at = "stats" /\ s \in pass[w].picked \ DOMAIN pass[w].rows
  /\ \E f \in Figures(s) :
       pass' = [pass EXCEPT ![w].rows =
                  [t \in {s} \cup DOMAIN @ |-> IF t = s THEN f ELSE @[t]]]
  /\ UNCHANGED <<saleVars, status, buyVars, queued, doubled, losses, audit>>

\* COMMIT: status and row of every sale that was selected.
Commit(w) ==
  /\ pass[w].at = "stats" /\ DOMAIN pass[w].rows = pass[w].picked
  /\ status' = [s \in Sales |-> IF s \in pass[w].picked THEN "ended" ELSE status[s]]
  /\ audit' = [s \in Sales |->
       IF s \in pass[w].picked THEN Append(audit[s], pass[w].rows[s]) ELSE audit[s]]
  /\ pass' = [pass EXCEPT ![w] = [Idle EXCEPT !.at = "ack"]]
  /\ UNCHANGED <<saleVars, buyVars, queued, doubled, losses>>

Ack(w) ==
  /\ pass[w].at = "ack"
  /\ pass' = [pass EXCEPT ![w] = Idle]
  /\ UNCHANGED <<saleVars, status, buyVars, queued, doubled, losses, audit>>

Lose(w) ==
  /\ pass[w].at # "idle"
  /\ losses < MaxLosses
  /\ losses' = losses + 1
  /\ pass' = [pass EXCEPT ![w] = Idle]
  /\ UNCHANGED <<saleVars, status, buyVars, doubled, audit>>

\* The worker dies, before its commit or after it, and the message comes back.
WorkerLost(w) == Lose(w) /\ queued' = queued + 1

\* The transaction fails: rolled back, and the message is gone.
PassFails(w) == pass[w].at = "stats" /\ Lose(w) /\ UNCHANGED queued

-----------------------------------------------------------------------------
Purchase(b) == PassGate(b) \/ Buy(b) \/ Report(b) \/ ReportLost(b)

Step(w) == Select(w) \/ (\E s \in Sales : Stats(w, s)) \/ Commit(w) \/ Ack(w)

Next ==
  \/ \E s \in Sales : Opens(s) \/ Closes(s) \/ Refresh(s)
  \/ \E b \in Buys : Purchase(b)
  \/ Fire
  \/ \E w \in Workers : Step(w)
  \/ \E w \in Workers : WorkerLost(w)
  \/ \E w \in Workers : PassFails(w)

\* Beat goes on firing and workers go on working; nobody has to buy, and ClickHouse
\* never has to answer.
Fairness == WF_vars(Fire) /\ \A w \in Workers : WF_vars(Step(w))

Spec == Init /\ [][Next]_vars /\ Fairness

-----------------------------------------------------------------------------
(* Properties                                                              *)

\* A sale has ended if and only if it has its row, and it gets one row per window,
\* whatever workers are lost before or after their commit and however often beat
\* fires, unless two passes held it at the same time.
OneRowPerWindow ==
  \A s \in Sales :
    /\ status[s] = "ended" => audit[s] # <<>>
    /\ Len(audit[s]) <= windows[s] \/ s \in doubled

\* No sale is ended inside of its window, where every buyer would be turned away,
\* unless the window was given out while a pass already held the sale.
EndedIsOver ==
  \A s \in Sales : status[s] = "ended" /\ phase[s] = "open" => s \in overtaken

\* Figures in a row miss no purchase but those in flight when the window closed and
\* those whose report got lost.
RowIsComplete ==
  \A b \in Buys :
    \A i \in 1 .. Len(audit[SaleOf[b]]) :
      (buy[b] = "done" /\ b \notin unsure /\ windows[SaleOf[b]] = 1
         /\ audit[SaleOf[b]][i] # NoStats)
        => b \in audit[SaleOf[b]][i]

\* Every sale that is over is ended in the end, whether or not somebody activated it,
\* with workers and passes failing and ClickHouse away: a missed tick is harmless.
SalesGetEnded ==
  \A s \in Sales :
    phase[s] = "over" /\ status[s] # "cancelled"
      ~> status[s] = "ended" \/ phase[s] = "open"
=============================================================================
