------------------------ MODULE SaleLifecycleProofs ------------------------
(***************************************************************************)
(* What holds of a sale and its post-mortem for any number of sales,       *)
(* purchases, workers, queued messages, losses and refreshes.              *)
(***************************************************************************)
EXTENDS SaleLifecycle, SequenceTheorems, TLAPS

-----------------------------------------------------------------------------
(* The invariants.                                                         *)

Payload == (SUBSET Buys) \cup {NoStats}

Rows == UNION {[S -> Payload] : S \in SUBSET Sales}

Pass == [at : {"idle", "stats", "ack"}, picked : SUBSET Sales, rows : Rows]

SaleTypeOK ==
  /\ phase \in [Sales -> {"before", "open", "over"}]
  /\ status \in [Sales -> {"scheduled", "active", "cancelled", "ended"}]
  /\ buy \in [Buys -> {"start", "buying", "reporting", "done"}]
  /\ events \subseteq Buys
  /\ queued \in Nat
  /\ pass \in [Workers -> Pass]
  /\ audit \in [Sales -> Seq(Payload)]
  /\ windows \in [Sales -> Nat \ {0}]
  /\ unsure \subseteq Buys /\ doubled \subseteq Sales /\ overtaken \subseteq Sales

\* What a pass has picked, and what it has ended, is over or was given a new window.
OverInv ==
  \A s \in Sales :
    (Holders(s) # {} \/ status[s] = "ended") => phase[s] = "over" \/ s \in overtaken

\* The row a window is entitled to is still to come while the sale has not ended.
Entitled(s) ==
  /\ \A v, w \in Holders(s) : v = w
  /\ Len(audit[s]) <= windows[s]
  /\ (Holders(s) # {} \/ status[s] # "ended") => Len(audit[s]) < windows[s]

CountInv ==
  \A s \in Sales :
    /\ status[s] = "ended" => audit[s] # <<>>
    /\ s \in doubled \/ Entitled(s)

\* In its first window a sale has a row only when it is over, and then every
\* purchase in flight is known to be one that a row may miss.
FirstWindow(s) ==
  /\ s \notin overtaken
  /\ audit[s] # <<>> => phase[s] = "over"
  /\ phase[s] = "over" => InFlight(s) \subseteq unsure

\* Figures f of sale s miss no purchase that is done and was not in doubt.
Complete(s, f) ==
  f = NoStats
    \/ \A b \in Buys : SaleOf[b] = s /\ buy[b] = "done" /\ b \notin unsure => b \in f

FigureInv ==
  /\ \A w \in Workers : DOMAIN pass[w].rows \subseteq pass[w].picked
  /\ \A b \in Buys : buy[b] = "done" => b \in events \cup unsure
  /\ \A s \in Sales :
       windows[s] = 1 =>
         /\ FirstWindow(s)
         /\ \A w \in Workers : s \in DOMAIN pass[w].rows => Complete(s, pass[w].rows[s])
         /\ \A i \in 1 .. Len(audit[s]) : Complete(s, audit[s][i])


-----------------------------------------------------------------------------
(* Type correctness.                                                       *)

LEMMA RowsOf == ASSUME NEW S \in SUBSET Sales PROVE [S -> Payload] \subseteq Rows
  BY DEF Rows

LEMMA RowsAre ==
  ASSUME NEW f \in Rows
  PROVE  DOMAIN f \subseteq Sales /\ f \in [DOMAIN f -> Payload]
<1>1. PICK S \in SUBSET Sales : f \in [S -> Payload]
  BY Zenon DEF Rows
<1> QED
  BY <1>1

\* A pass starts without figures.
LEMMA NoRows == <<>> \in Rows /\ DOMAIN <<>> = {}
<1>1. <<>> \in Seq(Payload) /\ Len(<<>>) = 0
  BY EmptySeq
<1>2. <<>> \in [{} -> Payload]
  BY <1>1, LenProperties
<1> QED
  BY <1>2, RowsOf

LEMMA FiguresArePayloads ==
  ASSUME events \subseteq Buys, NEW s \in Sales, NEW f \in Figures(s)
  PROVE  f \in Payload
<1>1. CASE f = {b \in events : SaleOf[b] = s}
  <2>1. f \subseteq Buys
    BY <1>1
  <2> QED
    BY <2>1 DEF Payload
<1>2. CASE f = NoStats
  BY <1>2 DEF Payload
<1> QED
  BY <1>1, <1>2 DEF Figures, Unavailable

LEMMA IdleIsPass == Idle \in Pass /\ Idle.picked = {} /\ DOMAIN Idle.rows = {}
  BY NoRows DEF Idle, Pass

\* A pass that commits has figures for every sale it picked.
LEMMA RowsArePayloads ==
  ASSUME SaleTypeOK, NEW w \in Workers, DOMAIN pass[w].rows = pass[w].picked,
         NEW s \in pass[w].picked
  PROVE  s \in Sales /\ pass[w].rows[s] \in Payload
<1>1. pass[w].rows \in [DOMAIN pass[w].rows -> Payload] /\ pass[w].picked \subseteq Sales
  BY RowsAre DEF SaleTypeOK, Pass
<1> QED
  BY <1>1

LEMMA LifeTypeInit == Init => SaleTypeOK
<1>1. <<>> \in Seq(Payload)
  BY EmptySeq
<1> QED
  BY <1>1, IdleIsPass DEF Init, SaleTypeOK

LEMMA LifeTypeStep == SaleTypeOK /\ [Next]_vars => SaleTypeOK'
<1> SUFFICES ASSUME SaleTypeOK, [Next]_vars PROVE SaleTypeOK'
  OBVIOUS
<1> USE SaleAssumption DEF SaleTypeOK, saleVars, buyVars, passVars
<1>1. CASE UNCHANGED vars
  BY <1>1 DEF vars
<1>2. ASSUME NEW s \in Sales, Opens(s) \/ Closes(s) \/ Refresh(s) PROVE SaleTypeOK'
  <2>1. InFlight(s) \subseteq Buys
    BY DEF InFlight
  <2>2. CASE Opens(s)
    BY <2>2 DEF Opens
  <2>3. CASE Closes(s)
    BY <2>1, <2>3 DEF Closes
  <2>4. CASE Refresh(s)
    <3>1. overtaken' \subseteq Sales
      BY <2>4 DEF Refresh
    <3> QED
      BY <2>4, <3>1 DEF Refresh
  <2> QED
    BY <1>2, <2>2, <2>3, <2>4
<1>3. ASSUME NEW b \in Buys, Purchase(b) PROVE SaleTypeOK'
  BY <1>3 DEF Purchase, PassGate, Buy, Report, ReportLost
<1>4. CASE Fire
  BY <1>4 DEF Fire
<1>5. ASSUME NEW w \in Workers, Select(w) PROVE SaleTypeOK'
  BY <1>5, NoRows DEF Select, Due, Pass
<1>6. ASSUME NEW w \in Workers, NEW s \in Sales, Stats(w, s) PROVE SaleTypeOK'
  <2>1. pass[w] \in Pass
    OBVIOUS
  <2>2. PICK f \in Figures(s) :
          pass' = [pass EXCEPT ![w].rows =
                     [t \in {s} \cup DOMAIN @ |-> IF t = s THEN f ELSE @[t]]]
    BY <1>6 DEF Stats
  <2>3. f \in Payload
    BY <2>2, FiguresArePayloads
  <2>4. pass[w].rows \in [DOMAIN pass[w].rows -> Payload] /\ DOMAIN pass[w].rows \subseteq Sales
    BY <2>1, RowsAre DEF Pass
  <2>5. [t \in {s} \cup DOMAIN pass[w].rows |-> IF t = s THEN f ELSE pass[w].rows[t]] \in Rows
    <3>1. [t \in {s} \cup DOMAIN pass[w].rows |-> IF t = s THEN f ELSE pass[w].rows[t]]
            \in [{s} \cup DOMAIN pass[w].rows -> Payload]
      BY <2>3, <2>4
    <3> QED
      BY <2>4, <3>1, RowsOf
  <2>6. pass' \in [Workers -> Pass]
    BY <2>1, <2>2, <2>5 DEF Pass
  <2> QED
    BY <1>6, <2>6 DEF Stats
<1>7. ASSUME NEW w \in Workers, Commit(w) PROVE SaleTypeOK'
  <2>1. ASSUME NEW s \in pass[w].picked PROVE pass[w].rows[s] \in Payload
    BY <1>7, RowsArePayloads DEF Commit
  <2>2. audit' \in [Sales -> Seq(Payload)]
    BY <1>7, <2>1, AppendProperties DEF Commit
  <2>3. pass' \in [Workers -> Pass]
    BY <1>7, IdleIsPass DEF Commit, Pass
  <2> QED
    BY <1>7, <2>2, <2>3 DEF Commit
<1>8. ASSUME NEW w \in Workers, Ack(w) PROVE SaleTypeOK'
  BY <1>8, IdleIsPass DEF Ack
<1>9. ASSUME NEW w \in Workers, WorkerLost(w) \/ PassFails(w) PROVE SaleTypeOK'
  <2>1. queued' \in Nat
    BY <1>9 DEF WorkerLost, PassFails
  <2>2. Lose(w)
    BY <1>9 DEF WorkerLost, PassFails
  <2> QED
    BY <2>1, <2>2, IdleIsPass DEF Lose
<1> QED
  BY <1>1, <1>2, <1>3, <1>4, <1>5, <1>6, <1>7, <1>8, <1>9 DEF Next, Step

\* Type correctness of a sale's life.
THEOREM SaleTypeCorrect == Spec => []SaleTypeOK
  BY LifeTypeInit, LifeTypeStep, PTL DEF Spec

-----------------------------------------------------------------------------
(* What a pass holds after each step.                                      *)

\* Ack, a lost worker and a failing pass put a pass down, all else unchanged.
Drops(w) ==
  /\ pass' = [pass EXCEPT ![w] = Idle]
  /\ UNCHANGED <<saleVars, status, buyVars, doubled, audit>>

LEMMA DropsHolders ==
  ASSUME SaleTypeOK, NEW w \in Workers, Drops(w), NEW v \in Workers
  PROVE  /\ pass'[v].picked = IF v = w THEN {} ELSE pass[v].picked
         /\ v # w => pass'[v] = pass[v]
         /\ DOMAIN pass'[w].rows = {}
BY IdleIsPass DEF Drops, SaleTypeOK

LEMMA SelectHolders ==
  ASSUME SaleTypeOK, NEW w \in Workers, Select(w), NEW v \in Workers
  PROVE  /\ pass[w].picked = {}
         /\ pass'[v].picked = IF v = w THEN Due ELSE pass[v].picked
         /\ v # w => pass'[v] = pass[v]
         /\ DOMAIN pass'[w].rows = {}
BY IdleIsPass, NoRows DEF Select, SaleTypeOK

LEMMA CommitHolders ==
  ASSUME SaleTypeOK, NEW w \in Workers, Commit(w), NEW v \in Workers
  PROVE  /\ pass'[v].picked = IF v = w THEN {} ELSE pass[v].picked
         /\ v # w => pass'[v] = pass[v]
         /\ DOMAIN pass'[w].rows = {}
<1>1. [Idle EXCEPT !.at = "ack"].picked = {} /\ DOMAIN [Idle EXCEPT !.at = "ack"].rows = {}
  BY IdleIsPass DEF Idle
<1> QED
  BY <1>1 DEF Commit, SaleTypeOK

LEMMA StatsHolders ==
  ASSUME SaleTypeOK, NEW w \in Workers, NEW s \in Sales, Stats(w, s)
  PROVE  /\ \A v \in Workers : pass'[v].picked = pass[v].picked
         /\ \A v \in Workers : v # w => pass'[v] = pass[v]
         /\ s \in pass[w].picked
         /\ \E f \in Figures(s) :
              /\ DOMAIN pass'[w].rows = {s} \cup DOMAIN pass[w].rows
              /\ pass'[w].rows[s] = f
              /\ \A t \in DOMAIN pass[w].rows : t # s => pass'[w].rows[t] = pass[w].rows[t]
<1>1. pass[w] \in Pass
  BY DEF SaleTypeOK
<1>2. PICK f \in Figures(s) :
        pass' = [pass EXCEPT ![w].rows =
                   [t \in {s} \cup DOMAIN @ |-> IF t = s THEN f ELSE @[t]]]
  BY DEF Stats
<1>3. pass'[w] = [pass[w] EXCEPT !.rows =
                   [t \in {s} \cup DOMAIN @ |-> IF t = s THEN f ELSE @[t]]]
  BY <1>2 DEF SaleTypeOK
<1>4. pass'[w].rows =
        [t \in {s} \cup DOMAIN pass[w].rows |-> IF t = s THEN f ELSE pass[w].rows[t]]
  BY <1>1, <1>3 DEF Pass
<1>5. /\ \A v \in Workers : pass'[v].picked = pass[v].picked
      /\ \A v \in Workers : v # w => pass'[v] = pass[v]
  BY <1>1, <1>2, <1>3 DEF Pass, SaleTypeOK
<1>6. /\ DOMAIN pass'[w].rows = {s} \cup DOMAIN pass[w].rows
      /\ pass'[w].rows[s] = f
      /\ \A t \in DOMAIN pass[w].rows : t # s => pass'[w].rows[t] = pass[w].rows[t]
  BY <1>4
<1> QED
  BY <1>5, <1>6 DEF Stats

LEMMA AckDrops == ASSUME NEW w \in Workers, Ack(w) PROVE Drops(w)
BY DEF Ack, Drops

LEMMA LossDrops ==
  ASSUME NEW w \in Workers, WorkerLost(w) \/ PassFails(w) PROVE Drops(w)
BY DEF WorkerLost, PassFails, Lose, Drops

\* Time, purchases and beat leave every pass, and what has been committed, alone.
LEMMA Unheld ==
  ASSUME (\E b \in Buys : Purchase(b)) \/ Fire \/ UNCHANGED vars
  PROVE  UNCHANGED <<saleVars, status, pass, doubled, audit>>
BY DEF Purchase, PassGate, Buy, Report, ReportLost, Fire, vars, saleVars, passVars

-----------------------------------------------------------------------------
(* Sales end when they are over.                                           *)

LEMMA OverStep == SaleTypeOK /\ OverInv /\ [Next]_vars => OverInv'
<1> SUFFICES ASSUME SaleTypeOK, OverInv, [Next]_vars PROVE OverInv'
  OBVIOUS
<1> USE DEF OverInv, Holders, saleVars
<1>1. CASE (\E b \in Buys : Purchase(b)) \/ Fire \/ UNCHANGED vars
  BY <1>1, Unheld
<1>2. ASSUME NEW s \in Sales, Opens(s) \/ Closes(s) PROVE OverInv'
  BY <1>2 DEF Opens, Closes, SaleTypeOK, passVars
<1>3. ASSUME NEW s \in Sales, Refresh(s) PROVE OverInv'
  BY <1>3 DEF Refresh, SaleTypeOK, passVars
<1>4. ASSUME NEW w \in Workers, Select(w) PROVE OverInv'
  BY <1>4, SelectHolders DEF Select, Due
<1>5. ASSUME NEW w \in Workers, NEW s \in Sales, Stats(w, s) PROVE OverInv'
  BY <1>5, StatsHolders DEF Stats
<1>6. ASSUME NEW w \in Workers, Commit(w) PROVE OverInv'
  <2>1. \A s \in Sales : Holders(s)' \subseteq Holders(s)
    BY <1>6, CommitHolders
  <2>2. \A s \in Sales : status'[s] = "ended" => status[s] = "ended" \/ w \in Holders(s)
    BY <1>6 DEF Commit
  <2>3. UNCHANGED <<phase, overtaken>>
    BY <1>6 DEF Commit
  <2> QED
    BY <2>1, <2>2, <2>3
<1>7. ASSUME NEW w \in Workers, Drops(w) PROVE OverInv'
  <2>1. \A s \in Sales : Holders(s)' \subseteq Holders(s)
    BY <1>7, DropsHolders
  <2>2. UNCHANGED <<phase, overtaken, status>>
    BY <1>7 DEF Drops
  <2> QED
    BY <2>1, <2>2
<1> QED
  BY <1>1, <1>2, <1>3, <1>4, <1>5, <1>6, <1>7, AckDrops, LossDrops DEF Next, Step

\* No sale is ended inside of its window, with any number of workers, losses, purchases
\* and refreshes, unless the window was given out while a pass held the sale.
THEOREM EndsInTime == Spec => []EndedIsOver
<1>1. Init => OverInv
  BY IdleIsPass DEF Init, OverInv, Holders
<1>2. OverInv => EndedIsOver
  BY DEF OverInv, EndedIsOver
<1> QED
  BY <1>1, <1>2, SaleTypeCorrect, OverStep, PTL DEF Spec

-----------------------------------------------------------------------------
(* One row per window.                                                     *)

\* Who loses no holder that matters and writes no row keeps the count.
LEMMA CountKept ==
  ASSUME CountInv, UNCHANGED <<status, audit, windows, doubled>>,
         \A s \in Sales : Holders(s)' \subseteq Holders(s)
  PROVE  CountInv'
BY DEF CountInv, Entitled

LEMMA CountStep == SaleTypeOK /\ CountInv /\ [Next]_vars => CountInv'
<1> SUFFICES ASSUME SaleTypeOK, CountInv, [Next]_vars PROVE CountInv'
  OBVIOUS
<1> USE DEF saleVars
<1>1. CASE (\E b \in Buys : Purchase(b)) \/ Fire \/ UNCHANGED vars
  BY <1>1, Unheld, CountKept DEF Holders
<1>2. ASSUME NEW s \in Sales, Opens(s) \/ Closes(s) PROVE CountInv'
  BY <1>2, CountKept DEF Opens, Closes, Holders, passVars
<1>3. ASSUME NEW s \in Sales, Refresh(s) PROVE CountInv'
  <2>1. /\ UNCHANGED <<audit, doubled>>
        /\ \A t \in Sales : Holders(t)' = Holders(t)
    BY <1>3 DEF Refresh, Holders, passVars
  <2>2. \A t \in Sales :
          IF t = s THEN windows'[t] = windows[t] + 1 /\ status'[t] = "active"
          ELSE windows'[t] = windows[t] /\ status'[t] = status[t]
    BY <1>3 DEF Refresh, SaleTypeOK
  <2>3. \A t \in Sales : windows[t] \in Nat /\ Len(audit[t]) \in Nat
    BY LenProperties DEF SaleTypeOK
  <2> QED
    BY <2>1, <2>2, <2>3 DEF CountInv, Entitled
<1>4. ASSUME NEW w \in Workers, Select(w) PROVE CountInv'
  <2>1. /\ UNCHANGED <<audit, status, windows>>
        /\ doubled' = doubled \cup {s \in Due : Holders(s) # {}}
    BY <1>4 DEF Select
  <2>2. \A s \in Sales : Holders(s)' = IF s \in Due THEN Holders(s) \cup {w} ELSE Holders(s)
    BY <1>4, SelectHolders DEF Holders
  <2>3. \A s \in Due : s \in Sales /\ status[s] # "ended"
    BY DEF Due
  <2> QED
    BY <2>1, <2>2, <2>3 DEF CountInv, Entitled
<1>5. ASSUME NEW w \in Workers, NEW s \in Sales, Stats(w, s) PROVE CountInv'
  BY <1>5, StatsHolders, CountKept DEF Stats, Holders
<1>6. ASSUME NEW w \in Workers, Commit(w) PROVE CountInv'
  <2> DEFINE got == pass[w].picked
  <2>1. \A s \in Sales : Holders(s)' = Holders(s) \ {w}
    BY <1>6, CommitHolders DEF Holders
  <2>2. \A s \in Sales : s \in got <=> w \in Holders(s)
    BY DEF Holders
  <2>3. UNCHANGED <<windows, doubled>>
    BY <1>6 DEF Commit
  <2>4. ASSUME NEW s \in got
        PROVE  status'[s] = "ended" /\ audit'[s] # <<>> /\ Len(audit'[s]) = Len(audit[s]) + 1
    <3>1. s \in Sales /\ pass[w].rows[s] \in Payload
      BY <1>6, <2>4, RowsArePayloads DEF Commit
    <3>2. status'[s] = "ended" /\ audit'[s] = Append(audit[s], pass[w].rows[s])
      BY <1>6, <2>4, <3>1 DEF Commit
    <3>3. audit[s] \in Seq(Payload)
      BY <3>1 DEF SaleTypeOK
    <3> QED
      BY <3>1, <3>2, <3>3, AppendProperties
  <2>5. \A s \in Sales \ got : status'[s] = status[s] /\ audit'[s] = audit[s]
    BY <1>6 DEF Commit
  <2>6. \A s \in Sales : windows[s] \in Nat /\ Len(audit[s]) \in Nat
    BY LenProperties DEF SaleTypeOK
  <2> HIDE DEF got
  <2> QED
    BY <2>1, <2>2, <2>3, <2>4, <2>5, <2>6 DEF CountInv, Entitled
<1>7. ASSUME NEW w \in Workers, Drops(w) PROVE CountInv'
  <2>1. \A s \in Sales : Holders(s)' \subseteq Holders(s)
    BY <1>7, DropsHolders DEF Holders
  <2> QED
    BY <1>7, <2>1, CountKept DEF Drops
<1> QED
  BY <1>1, <1>2, <1>3, <1>4, <1>5, <1>6, <1>7, AckDrops, LossDrops DEF Next, Step

\* An ended sale has its row, and one per window at most, whatever is lost, repeated
\* and refreshed, unless two passes held the sale at a time.
THEOREM OneRowEach == Spec => []OneRowPerWindow
<1>1. Init => CountInv
  <2> SUFFICES ASSUME Init PROVE CountInv
    OBVIOUS
  <2>1. \A s \in Sales : Holders(s) = {} /\ Len(audit[s]) = 0 /\ windows[s] = 1 /\ status[s] # "ended"
    BY IdleIsPass, EmptySeq DEF Init, Holders
  <2> QED
    BY <2>1 DEF CountInv, Entitled
<1>2. CountInv => OneRowPerWindow
  BY DEF CountInv, Entitled, OneRowPerWindow
<1> QED
  BY <1>1, <1>2, SaleTypeCorrect, CountStep, PTL DEF Spec

-----------------------------------------------------------------------------
(* Rows are complete.                                                      *)

\* In its first window a sale that some pass has figures of is over.
LEMMA HeldIsOver ==
  ASSUME OverInv, FigureInv, NEW s \in Sales, windows[s] = 1, NEW w \in Workers,
         s \in pass[w].picked
  PROVE  phase[s] = "over"
BY DEF OverInv, FigureInv, FirstWindow, Holders

LEMMA FigureStep == SaleTypeOK /\ OverInv /\ FigureInv /\ [Next]_vars => FigureInv'
<1> SUFFICES ASSUME SaleTypeOK, OverInv, FigureInv, [Next]_vars PROVE FigureInv'
  OBVIOUS
<1> USE DEF saleVars
<1>1. CASE Fire \/ UNCHANGED vars
  BY <1>1 DEF Fire, vars, buyVars, FigureInv, FirstWindow, InFlight, Complete
<1>2. ASSUME NEW s \in Sales, Opens(s) PROVE FigureInv'
  BY <1>2 DEF Opens, passVars, buyVars, FigureInv, FirstWindow, InFlight, Complete, SaleTypeOK
<1>3. ASSUME NEW s \in Sales, Closes(s) PROVE FigureInv'
  <2>1. /\ phase' = [phase EXCEPT ![s] = "over"] /\ unsure' = unsure \cup InFlight(s)
        /\ UNCHANGED <<buy, events, pass, audit, windows, overtaken>>
    BY <1>3 DEF Closes, passVars
  <2>2. \A t \in Sales : InFlight(t)' = InFlight(t)
    BY <2>1 DEF InFlight
  <2>3. \A t \in Sales : FirstWindow(t) => FirstWindow(t)'
    BY <2>1, <2>2 DEF FirstWindow, SaleTypeOK
  <2>4. \A t \in Sales : \A f : Complete(t, f) => Complete(t, f)'
    BY <2>1 DEF Complete
  <2> QED
    BY <2>1, <2>3, <2>4 DEF FigureInv
<1>4. ASSUME NEW s \in Sales, Refresh(s) PROVE FigureInv'
  <2>1. /\ UNCHANGED <<buy, events, unsure, pass, audit>>
        /\ \A t \in Sales : windows'[t] = 1 => t # s /\ windows[t] = 1
    BY <1>4 DEF Refresh, passVars, buyVars, SaleTypeOK
  <2>2. \A t \in Sales \ {s} : phase'[t] = phase[t] /\ (t \in overtaken' <=> t \in overtaken)
    BY <1>4 DEF Refresh
  <2>3. \A t \in Sales \ {s} : FirstWindow(t) => FirstWindow(t)'
    BY <2>1, <2>2 DEF FirstWindow, InFlight
  <2>4. \A t \in Sales : \A f : Complete(t, f) => Complete(t, f)'
    BY <2>1 DEF Complete
  <2> QED
    BY <2>1, <2>3, <2>4 DEF FigureInv
<1>5. ASSUME NEW b \in Buys, PassGate(b) \/ Buy(b) PROVE FigureInv'
  <2>1. /\ UNCHANGED <<phase, windows, overtaken, events, unsure, pass, audit>>
        /\ \A c \in Buys : buy'[c] = "done" <=> buy[c] = "done"
    BY <1>5 DEF PassGate, Buy, passVars, SaleTypeOK
  <2>2. \A s \in Sales : phase[s] = "over" => InFlight(s)' = InFlight(s)
    BY <1>5 DEF PassGate, Buy, InFlight, IsBuyable, SaleTypeOK
  <2>3. \A s \in Sales : FirstWindow(s) => FirstWindow(s)'
    BY <2>1, <2>2 DEF FirstWindow
  <2>4. \A s \in Sales : \A f : Complete(s, f) => Complete(s, f)'
    BY <2>1 DEF Complete
  <2> QED
    BY <2>1, <2>3, <2>4 DEF FigureInv
<1>6. ASSUME NEW b \in Buys, Report(b) \/ ReportLost(b) PROVE FigureInv'
  <2>1. /\ UNCHANGED <<phase, windows, overtaken, pass, audit>>
        /\ buy[b] = "reporting" /\ buy' = [buy EXCEPT ![b] = "done"]
        /\ unsure \subseteq unsure' /\ events \subseteq events'
        /\ b \in events' \cup unsure'
    BY <1>6 DEF Report, ReportLost, passVars
  <2>2. \A s \in Sales : InFlight(s)' \subseteq InFlight(s)
    BY <2>1 DEF InFlight, SaleTypeOK
  <2>3. \A s \in Sales : FirstWindow(s) => FirstWindow(s)'
    BY <2>1, <2>2 DEF FirstWindow
  <2>4. ASSUME NEW s \in Sales, FirstWindow(s), phase[s] = "over", NEW f, Complete(s, f)
        PROVE  Complete(s, f)'
    <3>1. SaleOf[b] = s => b \in unsure
      BY <2>1, <2>4 DEF FirstWindow, InFlight
    <3> QED
      BY <2>1, <2>4, <3>1 DEF Complete, SaleTypeOK
  <2>5. \A c \in Buys : buy'[c] = "done" => c \in events' \cup unsure'
    BY <2>1 DEF FigureInv, SaleTypeOK
  <2>6. ASSUME NEW s \in Sales, windows[s] = 1, NEW w \in Workers, s \in DOMAIN pass[w].rows
        PROVE  Complete(s, pass[w].rows[s])'
    BY <2>1, <2>4, <2>6, HeldIsOver DEF FigureInv
  <2>7. ASSUME NEW s \in Sales, windows[s] = 1, NEW i \in 1 .. Len(audit[s])
        PROVE  Complete(s, audit[s][i])'
    <3>1. audit[s] # <<>>
      BY <2>7, EmptySeq
    <3> QED
      BY <2>1, <2>4, <2>7, <3>1 DEF FigureInv, FirstWindow
  <2> QED
    BY <2>1, <2>3, <2>5, <2>6, <2>7 DEF FigureInv
<1>7. ASSUME NEW w \in Workers, Select(w) PROVE FigureInv'
  <2>1. UNCHANGED <<phase, windows, overtaken, buy, events, unsure, audit>>
    BY <1>7 DEF Select, buyVars
  <2> QED
    BY <1>7, <2>1, SelectHolders DEF FigureInv, FirstWindow, InFlight, Complete
<1>8. ASSUME NEW w \in Workers, NEW s \in Sales, Stats(w, s) PROVE FigureInv'
  <2>1. UNCHANGED <<phase, windows, overtaken, buy, events, unsure, audit>>
    BY <1>8 DEF Stats, buyVars
  <2>2. \A f \in Figures(s) : Complete(s, f)
    BY DEF Figures, Unavailable, Complete, FigureInv
  <2>3. \A t \in Sales : \A f : Complete(t, f)' <=> Complete(t, f)
    BY <2>1 DEF Complete
  <2>4. \A t \in Sales : FirstWindow(t)' <=> FirstWindow(t)
    BY <2>1 DEF FirstWindow, InFlight
  <2> QED
    BY <1>8, <2>1, <2>2, <2>3, <2>4, StatsHolders DEF FigureInv
<1>9. ASSUME NEW w \in Workers, Commit(w) PROVE FigureInv'
  <2>1. UNCHANGED <<phase, windows, overtaken, buy, events, unsure>>
    BY <1>9 DEF Commit, buyVars
  <2>2. \A t \in Sales : \A f : Complete(t, f)' <=> Complete(t, f)
    BY <2>1 DEF Complete
  <2>3. \A v \in Workers :
          /\ DOMAIN pass'[v].rows \subseteq pass'[v].picked
          /\ \A s \in DOMAIN pass'[v].rows :
               s \in DOMAIN pass[v].rows /\ pass'[v].rows[s] = pass[v].rows[s]
    BY <1>9, CommitHolders DEF FigureInv
  <2>4. ASSUME NEW s \in Sales, windows[s] = 1, s \in pass[w].picked
        PROVE  FirstWindow(s)' /\ \A i \in 1 .. Len(audit'[s]) : Complete(s, audit'[s][i])
    <3>1. pass[w].rows[s] \in Payload
      BY <1>9, <2>4, RowsArePayloads DEF Commit
    <3>2. audit'[s] = Append(audit[s], pass[w].rows[s])
      BY <1>9, <2>4 DEF Commit
    <3>3. audit[s] \in Seq(Payload)
      BY DEF SaleTypeOK
    <3>4. Complete(s, pass[w].rows[s])
      BY <1>9, <2>4 DEF Commit, FigureInv
    <3>5. \A i \in 1 .. Len(audit[s]) : Complete(s, audit[s][i])
      BY <2>4 DEF FigureInv
    <3>6. \A i \in 1 .. Len(audit'[s]) : Complete(s, audit'[s][i])
      BY <3>1, <3>2, <3>3, <3>4, <3>5, AppendProperties, LenProperties
    <3>7. phase[s] = "over" /\ FirstWindow(s)
      BY <2>4, HeldIsOver DEF FigureInv
    <3> QED
      BY <2>1, <3>6, <3>7 DEF FirstWindow, InFlight
  <2>5. ASSUME NEW s \in Sales, windows[s] = 1, s \notin pass[w].picked
        PROVE  FirstWindow(s)' /\ \A i \in 1 .. Len(audit'[s]) : Complete(s, audit'[s][i])
    <3>1. audit'[s] = audit[s]
      BY <1>9, <2>5 DEF Commit
    <3> QED
      BY <2>1, <2>5, <3>1 DEF FigureInv, FirstWindow, InFlight
  <2> QED
    BY <2>1, <2>2, <2>3, <2>4, <2>5 DEF FigureInv
<1>10. ASSUME NEW w \in Workers, Drops(w) PROVE FigureInv'
  <2>1. UNCHANGED <<phase, windows, overtaken, buy, events, unsure, audit>>
    BY <1>10 DEF Drops, buyVars
  <2> QED
    BY <1>10, <2>1, DropsHolders DEF FigureInv, FirstWindow, InFlight, Complete
<1> QED
  BY <1>1, <1>2, <1>3, <1>4, <1>5, <1>6, <1>7, <1>8, <1>9, <1>10, AckDrops, LossDrops
  DEF Next, Step, Purchase

\* The figures of a row miss no purchase of the window but those in flight when it
\* closed and those whose report got lost, however purchases, reports and passes
\* interleave.
THEOREM RowsAreComplete == Spec => []RowIsComplete
<1>1. Init => FigureInv
  <2> SUFFICES ASSUME Init PROVE FigureInv
    OBVIOUS
  <2>1. \A s \in Sales : phase[s] = "before" /\ audit[s] = <<>> /\ Len(audit[s]) = 0
    BY EmptySeq DEF Init
  <2>2. \A w \in Workers : DOMAIN pass[w].rows = {}
    BY IdleIsPass DEF Init
  <2>3. \A b \in Buys : buy[b] # "done"
    BY DEF Init
  <2>4. overtaken = {}
    BY DEF Init
  <2> QED
    BY <2>1, <2>2, <2>3, <2>4 DEF FigureInv, FirstWindow
<1>2. Init => OverInv
  BY IdleIsPass DEF Init, OverInv, Holders
<1>3. FigureInv => RowIsComplete
  BY SaleAssumption DEF FigureInv, Complete, RowIsComplete
<1> QED
  BY <1>1, <1>2, <1>3, SaleTypeCorrect, OverStep, FigureStep, PTL DEF Spec
=============================================================================
