----------- MODULE SchedulerProofs -----------
(* What the scheduler guarantees for any number of schedules and tickers. *)
EXTENDS Scheduler, TLAPS

\* The next run is later than the instant it is computed for (CalculateNextRun
\* and the fallback of processDueCron).
LEMMA NextIsLater ==
    ASSUME NEW e \in CronExprs, NEW z \in Zones \cup {BadZone}, NEW t \in Times
    PROVE  CalculateNextRun(e, z, t) \in Nat /\ CalculateNextRun(e, z, t) > t
  BY NextRunAssumption, ConstantsAssumption DEF CalculateNextRun, Times

\* A schedule is in one table only (ConstantsAssumption).
LEMMA Tables ==
    /\ Table("cron") = Crons /\ Table("shot") = Shots /\ Table("beat") = Beats
    /\ Crons \subseteq Ids /\ Shots \subseteq Ids /\ Beats \subseteq Ids
    /\ Recurring \subseteq Ids
    /\ \A id \in Shots : id \notin Recurring
  BY ConstantsAssumption DEF Table, Ids, Recurring

--------------------
(* Types.  A step of a tool changes the rows, a step of a ticker its own *)
(* record and one table: the part of the type invariant each touches. *)

Charges == [{"budget", "fault", "crash", "cron", "beat"} -> Nat]

\* A charge keeps the account typed (Spend).
LEMMA ChargeTyped ==
    ASSUME spent \in Charges,
           spent' = spent \/ \E w \in {"fault", "crash", "cron", "beat"} : Spend(w)
    PROVE  spent' \in Charges
  BY DEF Spend, Charges

\* A row with new columns of the right types is a row.
LEMMA Columns ==
    ASSUME NEW r \in Row
    PROVE  /\ \A s \in {"live", "fired", "cancelled"} : [r EXCEPT !.st = s] \in Row
           /\ \A d \in Nat : [r EXCEPT !.due = d] \in Row
           /\ \A z \in Zones \cup {BadZone} : [r EXCEPT !.zone = z] \in Row
           /\ \A d \in Nat : [r EXCEPT !.st = "live", !.due = d] \in Row
           /\ \A e \in CronExprs, z \in Zones \cup {BadZone}, d \in Nat :
                 [r EXCEPT !.expr = e, !.zone = z, !.due = d] \in Row
  BY DEF Row

\* The tools keep the rows typed and leave the tickers alone.
LEMMA ToolsTyped ==
    ASSUME TypeOK, NEW id \in Ids, Tools(id)
    PROVE  TypeOK'
<1> USE DEF TypeOK, Charges
<1>0. ServerZone \in Zones \cup {BadZone} /\ now \in Times
  BY ConstantsAssumption
<1>1. CASE ScheduleRecurring(id)
  <2>1. PICK e \in CronExprs, z \in Zones :
           row' = [row EXCEPT ![id] = [st |-> "live", on |-> TRUE, expr |-> e, zone |-> z,
                                       due |-> CalculateNextRun(e, z, now)]]
    BY <1>1 DEF ScheduleRecurring
  <2>2. CalculateNextRun(e, z, now) \in Nat
    BY <1>0, NextIsLater
  <2>3. row' \in [Ids -> Row]
    BY <2>1, <2>2 DEF Row
  <2> QED
    BY <1>1, <2>3 DEF ScheduleRecurring, InHand
<1>2. CASE ScheduleOnce(id)
  <2>0. PICK t \in Times : row' = [row EXCEPT ![id].st = "live", ![id].due = t]
    BY <1>2 DEF ScheduleOnce
  <2>1. row' \in [Ids -> Row]
    <3>1. row[id] \in Row /\ t \in Nat
      BY DEF Times
    <3>2. [row[id] EXCEPT !.st = "live", !.due = t] \in Row
      BY <3>1, Columns
    <3> QED
      BY <2>0, <3>2
  <2> QED
    BY <1>2, <2>1 DEF ScheduleOnce, InHand
<1>3. CASE CancelSchedule(id)
  BY Columns, <1>3 DEF CancelSchedule, InHand
<1>4. CASE UpdateCronExpr(id)
  <2>1. PICK e \in CronExprs, z \in Zones \cup {NoSlot} :
           row' = [row EXCEPT ![id].expr = e,
                              ![id].zone = IF z = NoSlot THEN @ ELSE z,
                              ![id].due = CalculateNextRun(e, IF z = NoSlot THEN ServerZone ELSE z, now)]
    BY <1>4 DEF UpdateCronExpr
  <2>2. CalculateNextRun(e, IF z = NoSlot THEN ServerZone ELSE z, now) \in Nat
    BY <1>0, NextIsLater
  <2>3. row' \in [Ids -> Row]
    <3> DEFINE zone == IF z = NoSlot THEN row[id].zone ELSE z
               due == CalculateNextRun(e, IF z = NoSlot THEN ServerZone ELSE z, now)
    <3>1. row[id] \in Row /\ row[id].zone \in Zones \cup {BadZone}
      BY DEF Row
    <3>2. [row[id] EXCEPT !.expr = e, !.zone = zone, !.due = due] \in Row
      BY <2>2, <3>1, Columns
    <3> QED
      BY <2>1, <3>2
  <2>4. spent' \in Charges
    BY <1>4 DEF UpdateCronExpr, Spend, Charges
  <2> QED
    BY <1>4, <2>3, <2>4 DEF UpdateCronExpr, InHand
<1>5. CASE UpdateCronZone(id)
  <2>1. row' \in [Ids -> Row]
    <3>1. PICK z \in Zones \cup {BadZone} : row' = [row EXCEPT ![id].zone = z]
      BY <1>5 DEF UpdateCronZone
    <3>2. [row[id] EXCEPT !.zone = z] \in Row
      BY Columns
    <3> QED
      BY <3>1, <3>2
  <2>2. spent' \in Charges
    BY <1>5 DEF UpdateCronZone, Spend, Charges
  <2> QED
    BY <1>5, <2>1, <2>2 DEF UpdateCronZone, InHand
<1>6. CASE UpdateBeatRead(id)
  <2>1. upd' \in [Beats -> {Unread} \cup [read : {TRUE}, row : Row]]
    BY <1>6 DEF UpdateBeatRead
  <2>2. spent' \in Charges
    BY <1>6 DEF UpdateBeatRead, Spend, Charges
  <2> QED
    BY <1>6, <2>1, <2>2 DEF UpdateBeatRead, InHand
<1>7. CASE UpdateBeatWrite(id)
  <2>1. upd[id] \in [read : {TRUE}, row : Row]
    <3>1. id \in Beats /\ upd[id].read /\ Unread.read = FALSE
      BY <1>7 DEF UpdateBeatWrite, Unread
    <3>2. upd[id] \in {Unread} \cup [read : {TRUE}, row : Row]
      BY <3>1
    <3>3. upd[id] # Unread
      BY <3>1, Zenon
    <3> QED
      BY <3>2, <3>3
  <2>2. PICK e \in CronExprs, z \in Zones, on, timing \in BOOLEAN :
          LET old == upd[id].row
              recompute == timing \/ on # old.on
              new == [old EXCEPT !.expr = e, !.zone = z, !.on = on,
                                 !.due = IF recompute /\ on
                                         THEN CalculateNextRun(e, z, now) ELSE @]
          IN  /\ timing \/ <<e, z>> = <<old.expr, old.zone>>
              /\ row' = IF row[id].st = "live" THEN [row EXCEPT ![id] = new] ELSE row
    BY <1>7 DEF UpdateBeatWrite
  <2>3. CalculateNextRun(e, z, now) \in Nat
    BY <1>0, NextIsLater
  <2>4. row' \in [Ids -> Row]
    BY <2>1, <2>2, <2>3 DEF Row
  <2>5. upd' \in [Beats -> {Unread} \cup [read : {TRUE}, row : Row]]
    BY <1>7 DEF UpdateBeatWrite
  <2> QED
    BY <1>7, <2>4, <2>5 DEF UpdateBeatWrite, InHand
<1> QED
  BY <1>1, <1>2, <1>3, <1>4, <1>5, <1>6, <1>7 DEF Tools

\* A ticker's step replaces its own record (tk).
LEMMA OneTicker ==
    ASSUME TypeOK, NEW k \in Tickers, NEW r \in Ticker, Held(r), tk' = [tk EXCEPT ![k] = r]
    PROVE  tk' \in [Tickers -> Ticker] /\ InHand'
BY DEF TypeOK, InHand

\* The records the steps of a ticker make of the one it has.
LEMMA Records ==
    ASSUME NEW r \in Ticker
    PROVE  /\ \A t \in Times : [r EXCEPT !.tick = t] \in Ticker
           /\ \A p \in {"query", "loop", "idle", "send", "save"} : [r EXCEPT !.pc = p] \in Ticker
           /\ \A t \in Times : [r EXCEPT !.pc = "query", !.stage = "cron", !.at = t,
                                         !.tick = NoSlot] \in Ticker
           /\ \A S \in SUBSET Slot : [r EXCEPT !.pc = "loop", !.todo = S] \in Ticker
           /\ \A S \in SUBSET Slot, p \in {"loop", "send", "save"}, c \in Slot \cup {NoSlot},
                 s \in {"none", "stale", "failed", "completed"} :
                 [r EXCEPT !.pc = p, !.todo = S, !.cur = c, !.status = s] \in Ticker
           /\ \A s \in {"none", "stale", "failed", "completed"} :
                 [r EXCEPT !.pc = "save", !.status = s] \in Ticker
           /\ [r EXCEPT !.pc = "loop", !.cur = NoSlot, !.status = "none"] \in Ticker
           /\ \A g \in {"shot", "beat"} : [r EXCEPT !.pc = "query", !.stage = g] \in Ticker
           /\ \A t \in Times : [r EXCEPT !.pc = "idle", !.lastPrune = t] \in Ticker
  BY ZenonT(60) DEF Ticker

\* A process that is down, and one that has just started.
LEMMA DownRecord ==
    /\ Down \in Ticker
    /\ \A t \in Times : [Down EXCEPT !.pc = "query", !.at = t] \in Ticker
    /\ Held(Down)
    /\ \A t \in Times : Held([Down EXCEPT !.pc = "query", !.at = t])
<1>1. Down \in Ticker /\ \A t \in Times : [Down EXCEPT !.pc = "query", !.at = t] \in Ticker
  <2>1. 0 \in Times /\ {} \in SUBSET Slot
    BY ConstantsAssumption DEF Times
  <2>2. Down \in Ticker
    BY <2>1, Zenon DEF Down, Ticker
  <2>3. ASSUME NEW t \in Times PROVE [Down EXCEPT !.pc = "query", !.at = t] \in Ticker
    BY <2>2 DEF Ticker
  <2> QED
    BY <2>2, <2>3
<1>2. Held(Down)
  BY DEF Down, Held
<1>3. \A t \in Times : Held([Down EXCEPT !.pc = "query", !.at = t])
  BY DEF Down, Held
<1> QED
  BY <1>1, <1>2, <1>3

\* The steps of the ticker that read, claim, send and log keep every type.
LEMMA TickersTyped ==
    ASSUME TypeOK, NEW k \in Tickers, Start(k) \/ Crash(k) \/ Tick(k) \/ EvaluateDueSchedules(k)
    PROVE  TypeOK'
<1> DEFINE r == tk[k]
<1>0. /\ r \in Ticker /\ Held(r) /\ now \in Times
      /\ r.at \in Times /\ r.todo \in SUBSET Slot
      /\ r.status \in {"none", "stale", "failed", "completed"}
      /\ r.cur \in Slot \cup {NoSlot}
  BY DEF TypeOK, InHand, Ticker
<1>1. CASE Start(k)
  BY <1>0, <1>1, DownRecord, OneTicker DEF Start, TypeOK
<1>2. CASE Crash(k)
  <2>1. tk' \in [Tickers -> Ticker] /\ InHand'
    BY <1>0, <1>2, DownRecord, OneTicker DEF Crash
  <2>2. spent' \in Charges
    BY <1>2 DEF Crash, TypeOK, Spend, Charges
  <2> QED
    BY <1>2, <2>1, <2>2 DEF Crash, TypeOK, Charges
<1>3. CASE Tick(k)
  <2> DEFINE q == [r EXCEPT !.pc = "query", !.stage = "cron", !.at = r.tick, !.tick = NoSlot]
  <2>1. r.pc = "idle" /\ r.tick \in Times
    BY <1>0, <1>3 DEF Tick, Ticker
  <2>2. q \in Ticker
    BY <1>0, <2>1, Records
  <2>3. q.pc = "query" /\ q.todo = r.todo /\ q.cur = r.cur
    BY <1>0 DEF Ticker
  <2>4. Held(q)
    BY <1>0, <2>1, <2>3 DEF Held
  <2>5. tk' = [tk EXCEPT ![k] = q]
    BY <1>3 DEF Tick
  <2>6. tk' \in [Tickers -> Ticker] /\ InHand'
    BY <2>2, <2>4, <2>5, OneTicker
  <2> QED
    BY <1>3, <2>6 DEF Tick, TypeOK
<1>4. CASE Query(k)
  <2>0. spent' = spent \/ Spend("fault")
    BY <1>4 DEF Query, MayFault
  <2>1. spent' \in Charges
    BY <2>0, ChargeTyped DEF Charges, TypeOK
  <2>2. DueRows(r.stage, r.at) \in SUBSET Slot
    BY Tables, <1>0 DEF DueRows, Slot, TypeOK, Row, Ticker, Table
  <2>3. \A x \in DueRows(r.stage, r.at) : x.id \in Table(r.stage)
    BY DEF DueRows
  <2>4. r.pc = "query" /\ r.todo = {} /\ r.cur = NoSlot
    BY <1>0, <1>4 DEF Query, Held
  <2>5. ASSUME NEW S \in SUBSET Slot, \A x \in S : x.id \in Table(r.stage)
        PROVE  /\ [r EXCEPT !.pc = "loop", !.todo = S] \in Ticker
               /\ Held([r EXCEPT !.pc = "loop", !.todo = S])
    <3>1. [r EXCEPT !.pc = "loop", !.todo = S] \in Ticker
      BY <1>0, Records
    <3>2. Held([r EXCEPT !.pc = "loop", !.todo = S])
      BY <1>0, <2>4, <2>5 DEF Held, Ticker
    <3> QED
      BY <3>1, <3>2
  <2>6. [r EXCEPT !.pc = "loop"] \in Ticker /\ Held([r EXCEPT !.pc = "loop"])
    <3>1. [r EXCEPT !.pc = "loop"] \in Ticker
      BY <1>0, Records
    <3>2. Held([r EXCEPT !.pc = "loop"])
      BY <1>0, <2>4 DEF Held, Ticker
    <3> QED
      BY <3>1, <3>2
  <2>7. \/ tk' = [tk EXCEPT ![k] = [r EXCEPT !.pc = "loop", !.todo = DueRows(r.stage, r.at)]]
        \/ tk' = [tk EXCEPT ![k] = [r EXCEPT !.pc = "loop"]]
    BY <1>4 DEF Query
  <2>8. tk' \in [Tickers -> Ticker] /\ InHand'
    BY <2>2, <2>3, <2>5, <2>6, <2>7, OneTicker
  <2> QED
    BY <1>4, <2>1, <2>8 DEF Query, TypeOK, Charges
<1>5. CASE Process(k)
  <2>1. PICK x \in Picks(k) : ProcessDueRecurring(k, x) \/ ProcessDueOneShot(k, x)
    BY <1>5 DEF Process
  <2>2. r.pc = "loop" /\ x \in r.todo /\ x \in Slot /\ x.id \in Table(r.stage)
    BY <1>0, <1>5, <2>1 DEF Process, Picks, Held
  <2>3. /\ x.id \in Ids /\ row[x.id] \in Row
        /\ CalculateNextRun(x.expr, x.zone, r.at) \in Nat
    BY <1>0, <2>2, NextIsLater DEF Slot, TypeOK
  <2>4. row' \in [Ids -> Row]
    <3>1. [row[x.id] EXCEPT !.due = CalculateNextRun(x.expr, x.zone, r.at)] \in Row
      BY <2>3, Columns
    <3>2. [row[x.id] EXCEPT !.st = "fired"] \in Row
      BY <2>3, Columns
    <3>3. \/ row' = [row EXCEPT ![x.id].due = CalculateNextRun(x.expr, x.zone, r.at)]
          \/ row' = [row EXCEPT ![x.id].st = "fired"]
          \/ row' = row
      BY <2>1 DEF ProcessDueRecurring, ProcessDueOneShot, AdvanceScheduleNextRun
    <3> QED
      BY <3>1, <3>2, <3>3 DEF TypeOK
  <2>5. spent' \in Charges
    BY <2>1, ChargeTyped DEF ProcessDueRecurring, ProcessDueOneShot, Charges, TypeOK
  <2>6. ASSUME NEW p \in {"loop", "send", "save"}, NEW s \in {"none", "stale"}, Take(k, x, p, s)
        PROVE  tk' \in [Tickers -> Ticker] /\ InHand'
    <3> DEFINE c == IF p = "loop" THEN NoSlot ELSE x
               q == [r EXCEPT !.pc = p, !.todo = r.todo \ {x}, !.cur = c, !.status = s]
    <3>1. c \in Slot \cup {NoSlot} /\ r.todo \ {x} \in SUBSET Slot
      BY <1>0, <2>2
    <3>2. q \in Ticker
      <4>1. s \in {"none", "stale", "failed", "completed"}
        OBVIOUS
      <4> HIDE DEF c
      <4> QED
        BY <1>0, <3>1, <4>1, Records, ZenonT(60)
    <3>3. q.pc = p /\ q.todo = r.todo \ {x} /\ q.cur = c /\ q.stage = r.stage
      BY <1>0 DEF Ticker
    <3>4. Held(q)
      BY <1>0, <2>2, <3>3, ConstantsAssumption DEF Held
    <3>5. tk' = [tk EXCEPT ![k] = q]
      BY <2>6 DEF Take
    <3> QED
      BY <3>2, <3>4, <3>5, OneTicker
  <2>7. \E p \in {"loop", "send", "save"}, s \in {"none", "stale"} : Take(k, x, p, s)
    BY <2>1 DEF ProcessDueRecurring, ProcessDueOneShot, Claimed, Skipped
  <2>8. tk' \in [Tickers -> Ticker] /\ InHand'
    BY <2>6, <2>7
  <2> QED
    BY <1>5, <2>4, <2>5, <2>8 DEF Process, TypeOK, Charges
<1>6. CASE Send(k)
  <2>1. r.pc = "send" /\ r.cur \in Slot
    BY <1>0, <1>6 DEF Send, Held
  <2>2. sent' \in [Ids -> Seq(Nat)]
    <3>1. CASE Accepted(k)
      BY <2>1, <3>1 DEF Slot, TypeOK, Accepted
    <3> QED
      BY <1>6, <3>1 DEF Send, TypeOK
  <2>3. ASSUME NEW s \in {"failed", "completed"}
        PROVE  /\ [r EXCEPT !.pc = "save", !.status = s] \in Ticker
               /\ Held([r EXCEPT !.pc = "save", !.status = s])
    <3>1. [r EXCEPT !.pc = "save", !.status = s] \in Ticker
      BY <1>0, Records
    <3>2. Held([r EXCEPT !.pc = "save", !.status = s])
      BY <1>0, <2>1 DEF Held, Ticker
    <3> QED
      BY <3>1, <3>2
  <2>4. ASSUME LetsGo(k)
        PROVE  tk' \in [Tickers -> Ticker] /\ InHand'
    <3> DEFINE q == [r EXCEPT !.pc = "loop", !.cur = NoSlot, !.status = "none"]
    <3>1. q \in Ticker
      BY <1>0, Records
    <3>2. Held(q)
      BY <1>0 DEF Held, Ticker
    <3> QED
      BY <2>4, <3>1, <3>2, OneTicker DEF LetsGo
  <2>5. tk' \in [Tickers -> Ticker] /\ InHand'
    <3>1. LetsGo(k) \/ \E s \in {"failed", "completed"} : Logs(k, s)
      BY <1>6 DEF Send
    <3>2. ASSUME NEW s \in {"failed", "completed"}, Logs(k, s)
          PROVE  tk' \in [Tickers -> Ticker] /\ InHand'
      BY <2>3, <3>2, OneTicker DEF Logs
    <3> QED
      BY <2>4, <3>1, <3>2
  <2> QED
    BY <1>6, <2>2, <2>5 DEF Send, TypeOK
<1>7. CASE Save(k)
  <2>1. r.pc = "save" /\ r.cur \in Slot
    BY <1>0, <1>7 DEF Save, Held
  <2>2. [id |-> r.cur.id, slot |-> r.cur.slot, status |-> r.status, at |-> r.at]
           \in [id : Ids, slot : Nat, status : {"none", "stale", "failed", "completed"},
                at : Times]
    BY <1>0, <2>1 DEF Slot
  <2>3. runs' \subseteq [id : Ids, slot : Nat,
                         status : {"none", "stale", "failed", "completed"}, at : Times]
    BY <1>7, <2>2 DEF Save, TypeOK
  <2>4. spent' \in Charges
    BY <1>7, ChargeTyped DEF Save, Charges, TypeOK
  <2>5. tk' \in [Tickers -> Ticker] /\ InHand'
    <3> DEFINE q == [r EXCEPT !.pc = "loop", !.cur = NoSlot, !.status = "none"]
    <3>1. q \in Ticker
      BY <1>0, Records
    <3>2. Held(q)
      BY <1>0 DEF Held, Ticker
    <3> QED
      BY <1>7, <3>1, <3>2, OneTicker DEF Save, LetsGo
  <2> QED
    BY <1>7, <2>3, <2>4, <2>5 DEF Save, TypeOK, Charges
<1>8. CASE NextStage(k)
  <2>1. r.pc = "loop" /\ r.todo = {} /\ r.cur = NoSlot
    BY <1>0, <1>8 DEF NextStage, Held
  <2>2. ASSUME NEW g \in {"shot", "beat"}
        PROVE  /\ [r EXCEPT !.pc = "query", !.stage = g] \in Ticker
               /\ Held([r EXCEPT !.pc = "query", !.stage = g])
    <3>1. [r EXCEPT !.pc = "query", !.stage = g] \in Ticker
      BY <1>0, Records
    <3>2. Held([r EXCEPT !.pc = "query", !.stage = g])
      BY <1>0, <2>1 DEF Held, Ticker
    <3> QED
      BY <3>1, <3>2
  <2>3. PICK g \in {"shot", "beat"} : tk' = [tk EXCEPT ![k] = [r EXCEPT !.pc = "query", !.stage = g]]
    BY <1>8 DEF NextStage
  <2>4. tk' \in [Tickers -> Ticker] /\ InHand'
    BY <2>2, <2>3, OneTicker
  <2> QED
    BY <1>8, <2>4 DEF NextStage, TypeOK
<1>9. CASE EndTick(k)
  <2>1. r.pc = "loop" /\ r.todo = {} /\ r.cur = NoSlot
    BY <1>0, <1>9 DEF EndTick, Held
  <2>2. /\ [r EXCEPT !.pc = "idle", !.lastPrune = r.at] \in Ticker
        /\ [r EXCEPT !.pc = "idle"] \in Ticker
    BY <1>0, Records
  <2>3. /\ Held([r EXCEPT !.pc = "idle", !.lastPrune = r.at])
        /\ Held([r EXCEPT !.pc = "idle"])
    BY <1>0, <2>1 DEF Held, Ticker
  <2>4. \/ tk' = [tk EXCEPT ![k] = [r EXCEPT !.pc = "idle", !.lastPrune = r.at]]
        \/ tk' = [tk EXCEPT ![k] = [r EXCEPT !.pc = "idle"]]
    BY <1>9 DEF EndTick
  <2>5. tk' \in [Tickers -> Ticker] /\ InHand'
    BY <2>2, <2>3, <2>4, OneTicker
  <2>6. runs' \subseteq runs
    BY <1>9 DEF EndTick, Kept
  <2>0. spent' = spent \/ Spend("fault")
    BY <1>9 DEF EndTick
  <2>7. spent' \in Charges
    BY <2>0, ChargeTyped DEF Charges, TypeOK
  <2> QED
    BY <1>9, <2>5, <2>6, <2>7 DEF EndTick, TypeOK, Charges
<1> QED
  BY <1>1, <1>2, <1>3, <1>4, <1>5, <1>6, <1>7, <1>8, <1>9 DEF EvaluateDueSchedules

\* Every row, goroutine and log entry keeps its type and a ticker never mixes
\* the tables (EvaluateDueSchedules), for any number of schedules and tickers.
THEOREM TypeCorrect == Spec => []TypeOK
<1>1. Init => TypeOK
  <2> SUFFICES ASSUME Init PROVE TypeOK
    OBVIOUS
  <2>1. now \in Times /\ runs = {}
    BY ConstantsAssumption DEF Init, Times
  <2>2. row \in [Ids -> Row]
    BY ConstantsAssumption DEF AnyExpr, NewRow, Row, Init
  <2>3. tk \in [Tickers -> Ticker] /\ InHand
    BY DownRecord DEF Init, InHand
  <2>4. upd \in [Beats -> {Unread} \cup [read : {TRUE}, row : Row]]
    BY DEF Init
  <2>5. sent \in [Ids -> Seq(Nat)]
    BY DEF Init
  <2>6. spent \in [{"budget", "fault", "crash", "cron", "beat"} -> Nat]
    BY BudgetsAssumption DEF Init
  <2> QED
    BY <2>1, <2>2, <2>3, <2>4, <2>5, <2>6 DEF TypeOK
<1>2. TypeOK /\ [Next]_vars => TypeOK'
  <2> SUFFICES ASSUME TypeOK, [Next]_vars PROVE TypeOK'
    OBVIOUS
  <2>1. CASE Clock
    <3>1. now' \in Times
      BY <2>1, ConstantsAssumption DEF Clock, TypeOK, Times
    <3>2. ASSUME NEW k \in Tickers PROVE tk'[k] \in Ticker /\ Held(tk'[k])
      <4> DEFINE q == [tk[k] EXCEPT !.tick = now']
      <4>1. tk[k] \in Ticker /\ Held(tk[k])
        BY DEF TypeOK, InHand
      <4>2. q \in Ticker
        BY <3>1, <4>1, Records
      <4>3. Held(q)
        BY <4>1 DEF Held, Ticker
      <4>4. tk'[k] = q \/ tk'[k] = tk[k]
        BY <2>1 DEF Clock
      <4> QED
        BY <4>1, <4>2, <4>3, <4>4
    <3>3. tk' \in [Tickers -> Ticker] /\ InHand'
      BY <2>1, <3>2 DEF Clock, InHand
    <3> QED
      BY <2>1, <3>1, <3>3 DEF Clock, TypeOK
  <2>2. ASSUME NEW id \in Ids, Tools(id) PROVE TypeOK'
    BY <2>2, ToolsTyped
  <2>3. ASSUME NEW k \in Tickers, Start(k) \/ Crash(k) \/ Tick(k) \/ EvaluateDueSchedules(k)
        PROVE  TypeOK'
    BY <2>3, TickersTyped
  <2>4. CASE UNCHANGED vars
    BY <2>4 DEF vars, TypeOK, InHand
  <2> QED
    BY <2>1, <2>2, <2>3, <2>4 DEF Next
<1> QED
  BY <1>1, <1>2, PTL DEF Spec

--------------------
(* How a row comes to be dispatched: a ticker commits to it only with a *)
(* statement that has found the row, and only a committed ticker sends. *)

\* A commitment is made by one ticker whose UPDATE or DELETE has found the row;
\* a one-shot row is deleted by it (processDueOneShot, execScheduleUpdate).
LEMMA Commitments ==
    ASSUME TypeOK, [Next]_vars, NEW k \in Tickers, NEW id \in Ids,
           ~Committed(k, id), Committed(k, id)'
    PROVE  /\ row[id].st = "live"
           /\ id \in Shots => row'[id].st = "fired"
           /\ sent' = sent
           /\ \A j \in Tickers : j # k => tk'[j] = tk[j]
<1>0. tk[k] \in Ticker /\ tk \in [Tickers -> Ticker] /\ row \in [Ids -> Row]
  BY DEF TypeOK
<1>1. PICK j \in Tickers : Process(j)
  <2>1. ~Clock
    BY <1>0 DEF Clock, Committed, Ticker
  <2>2. tk' # tk
    BY DEF Committed
  <2>3. \A i \in Ids : ~Tools(i)
    BY <2>2 DEF Tools, ScheduleRecurring, ScheduleOnce, CancelSchedule, UpdateCronExpr,
                UpdateCronZone, UpdateBeatRead, UpdateBeatWrite
  <2>4. ASSUME NEW j \in Tickers,
               Start(j) \/ Crash(j) \/ Tick(j) \/ Query(j) \/ Send(j) \/ Save(j)
                 \/ NextStage(j) \/ EndTick(j)
        PROVE  FALSE
    <3>1. tk'[k] = tk[k] \/ tk'[k].pc # "send"
      <4>1. CASE j # k
        BY <1>0, <2>4, <4>1 DEF Start, Crash, Tick, Query, Send, Save, NextStage, EndTick, Logs,
                                LetsGo
      <4>2. CASE j = k /\ Start(j)
        BY <1>0, <4>2 DEF Start, Down, Ticker
      <4>3. CASE j = k /\ Crash(j)
        BY <1>0, <4>3 DEF Crash, Down, Ticker
      <4>4. CASE j = k /\ Tick(j)
        BY <1>0, <4>4 DEF Tick, Ticker
      <4>5. CASE j = k /\ Query(j)
        BY <1>0, <4>5 DEF Query, Ticker
      <4>6. CASE j = k /\ Send(j)
        BY <1>0, <4>6 DEF Send, Logs, LetsGo, Ticker
      <4>7. CASE j = k /\ Save(j)
        BY <1>0, <4>7 DEF Save, LetsGo, Ticker
      <4>8. CASE j = k /\ NextStage(j)
        BY <1>0, <4>8 DEF NextStage, Ticker
      <4>9. CASE j = k /\ EndTick(j)
        BY <1>0, <4>9 DEF EndTick, Ticker
      <4> QED
        BY <2>4, <4>1, <4>2, <4>3, <4>4, <4>5, <4>6, <4>7, <4>8, <4>9
    <3> QED
      BY <3>1 DEF Committed
  <2> QED
    BY <2>1, <2>2, <2>3, <2>4 DEF Next, EvaluateDueSchedules, vars
<1>2. PICK x \in Picks(j) : ProcessDueRecurring(j, x) \/ ProcessDueOneShot(j, x)
  BY <1>1 DEF Process
<1>3. \A i \in Tickers : i # j => tk'[i] = tk[i]
  BY <1>0, <1>2 DEF ProcessDueRecurring, ProcessDueOneShot, Claimed, Skipped, Take
<1>4. j = k
  BY <1>3 DEF Committed
<1>5. tk'[k].pc = "send" /\ tk'[k].cur.id = id
  BY DEF Committed
<1>6. /\ Claimed(k, x) => tk'[k].cur = x
      /\ ~Skipped(k, x)
      /\ Stale(k, x) => ~Claimed(k, x)
  BY <1>0, <1>5 DEF Claimed, Skipped, Take, Ticker
<1>7. row[x.id].st = "live" /\ Claimed(k, x)
  BY <1>2, <1>4, <1>6 DEF ProcessDueRecurring, ProcessDueOneShot
<1>8. x.id = id
  BY <1>5, <1>6, <1>7
<1>9. id \in Shots => row'[id].st = "fired"
  BY <1>2, <1>4, <1>6, <1>8, Tables, <1>0 DEF ProcessDueRecurring, ProcessDueOneShot, Row
<1> QED
  BY <1>1, <1>3, <1>4, <1>7, <1>8, <1>9 DEF Process

\* Only a committed ticker sends, once, and is then committed no more (Send).
LEMMA Dispatches ==
    ASSUME TypeOK, [Next]_vars, sent' # sent
    PROVE  \E k \in Tickers :
              /\ tk[k].pc = "send" /\ tk[k].cur \in Slot
              /\ tk'[k].pc = "save" /\ tk'[k].todo = tk[k].todo /\ tk'[k].at = tk[k].at
              /\ tk'[k].tick = tk[k].tick
              /\ sent' = [sent EXCEPT ![tk[k].cur.id] = Append(@, tk[k].cur.slot)]
              /\ \A j \in Tickers : j # k => tk'[j] = tk[j]
              /\ UNCHANGED <<now, row, upd>>
<1>0. tk \in [Tickers -> Ticker] /\ \A k \in Tickers : Held(tk[k])
  BY DEF TypeOK, InHand
<1>1. PICK k \in Tickers : Send(k)
  <2>1. ~Clock /\ \A id \in Ids : ~Tools(id)
    BY DEF Clock, Tools, ScheduleRecurring, ScheduleOnce, CancelSchedule, UpdateCronExpr,
           UpdateCronZone, UpdateBeatRead, UpdateBeatWrite
  <2>2. \A k \in Tickers : ~(Start(k) \/ Crash(k) \/ Tick(k) \/ Query(k) \/ Process(k)
                             \/ Save(k) \/ NextStage(k) \/ EndTick(k))
    BY DEF Start, Crash, Tick, Query, Process, Save, NextStage, EndTick
  <2> QED
    BY <2>1, <2>2 DEF Next, EvaluateDueSchedules, vars
<1>2. Accepted(k) /\ (Logs(k, "completed") \/ Logs(k, "failed"))
  BY <1>1 DEF Send
<1>3. tk[k] \in Ticker /\ tk[k].pc = "send" /\ tk[k].cur \in Slot
  BY <1>0, <1>1 DEF Send, Held, Ticker
<1>4. /\ tk'[k].pc = "save" /\ tk'[k].todo = tk[k].todo /\ tk'[k].at = tk[k].at
      /\ tk'[k].tick = tk[k].tick
      /\ \A j \in Tickers : j # k => tk'[j] = tk[j]
  BY <1>0, <1>2, <1>3 DEF Logs, Ticker
<1> QED
  BY <1>1, <1>2, <1>3, <1>4 DEF Send, Accepted

\* No statement brings a deleted one-shot back (InsertOneShotSchedule has a
\* fresh id).
LEMMA ShotRows ==
    ASSUME TypeOK, [Next]_vars, NEW s \in Shots, row'[s].st \in {"new", "live"}
    PROVE  row[s].st \in {"new", "live"}
<1>0. row \in [Ids -> Row] /\ s \in Ids /\ s \notin Beats /\ s \notin Recurring
  BY Tables DEF TypeOK, Recurring
<1>1. CASE row' = row
  BY <1>1
<1>2. ASSUME NEW id \in Ids, Tools(id) PROVE row[s].st \in {"new", "live"}
  BY <1>0, <1>2, Zenon DEF Tools, ScheduleRecurring, ScheduleOnce, CancelSchedule,
     UpdateCronExpr, UpdateCronZone, UpdateBeatRead, UpdateBeatWrite, Row
<1>3. ASSUME NEW k \in Tickers, Process(k) PROVE row[s].st \in {"new", "live"}
  BY <1>0, <1>3 DEF Process, ProcessDueRecurring, ProcessDueOneShot, AdvanceScheduleNextRun, Row
<1> QED
  BY <1>1, <1>2, <1>3 DEF Next, EvaluateDueSchedules, vars, Clock, Start, Crash, Tick, Query,
     Send, Save, NextStage, EndTick

--------------------
(* One-shot reminders. *)

\* While the row is there nobody has committed to it and nothing was sent; a
\* commitment is the only one and comes before anything is sent.
OneShotInv ==
    \A s \in Shots :
        /\ row[s].st \in {"new", "live"} =>
              Len(sent[s]) = 0 /\ \A k \in Tickers : ~Committed(k, s)
        /\ \A k \in Tickers : Committed(k, s) => Len(sent[s]) = 0
        /\ \A j, k \in Tickers : Committed(j, s) /\ Committed(k, s) => j = k
        /\ Len(sent[s]) <= 1

\* It holds in every reachable state (processDueOneShot).
LEMMA AlwaysClaimedOnce == Spec => []OneShotInv
<1>1. Init => OneShotInv
  BY Tables DEF OneShotInv, Init, Down, Committed
<1>2. TypeOK /\ OneShotInv /\ [Next]_vars => OneShotInv'
  <2> SUFFICES ASSUME TypeOK, OneShotInv, [Next]_vars, NEW s \in Shots
               PROVE  /\ row'[s].st \in {"new", "live"} =>
                            Len(sent'[s]) = 0 /\ \A k \in Tickers : ~Committed(k, s)'
                      /\ \A k \in Tickers : Committed(k, s)' => Len(sent'[s]) = 0
                      /\ \A j, k \in Tickers : Committed(j, s)' /\ Committed(k, s)' => j = k
                      /\ Len(sent'[s]) <= 1
    BY DEF OneShotInv
  <2>0. s \in Ids /\ sent \in [Ids -> Seq(Nat)] /\ Len(sent[s]) \in Nat
    BY Tables DEF TypeOK
  <2>1. CASE sent' # sent
    <3>1. PICK k \in Tickers :
              /\ tk[k].pc = "send" /\ tk[k].cur \in Slot
              /\ tk'[k].pc = "save" /\ tk'[k].todo = tk[k].todo /\ tk'[k].at = tk[k].at
              /\ tk'[k].tick = tk[k].tick
              /\ sent' = [sent EXCEPT ![tk[k].cur.id] = Append(@, tk[k].cur.slot)]
              /\ \A j \in Tickers : j # k => tk'[j] = tk[j]
              /\ UNCHANGED <<now, row, upd>>
      BY <2>1, Dispatches
    <3>2. /\ ~Committed(k, s)'
          /\ \A j \in Tickers : Committed(j, s)' => Committed(j, s) /\ j # k
      BY <3>1 DEF Committed
    <3>3. CASE tk[k].cur.id = s
      <4>1. Committed(k, s)
        BY <3>1, <3>3 DEF Committed
      <4>2. Len(sent[s]) = 0 /\ row[s].st \notin {"new", "live"}
        BY <4>1 DEF OneShotInv
      <4>3. Len(sent'[s]) = 1
        BY <2>0, <3>1, <3>3, <4>2 DEF Slot
      <4>4. \A j \in Tickers : ~Committed(j, s)'
        BY <3>2, <4>1 DEF OneShotInv
      <4> QED
        BY <3>1, <4>2, <4>3, <4>4
    <3>4. CASE tk[k].cur.id # s
      BY <2>0, <3>1, <3>4, <3>2 DEF OneShotInv
    <3> QED
      BY <3>3, <3>4
  <2>2. CASE sent' = sent /\ \A k \in Tickers : Committed(k, s)' => Committed(k, s)
    BY <2>2, ShotRows DEF OneShotInv
  <2>3. CASE \E k \in Tickers : Committed(k, s)' /\ ~Committed(k, s)
    BY <2>3, <2>0, Commitments DEF OneShotInv, Committed
  <2> QED
    BY <2>1, <2>2, <2>3
<1> QED
  BY <1>1, <1>2, TypeCorrect, PTL DEF Spec

\* A one-shot reminder is dispatched at most once, however many tickers see it
\* due, whatever crashes and fails (processDueOneShot).
THEOREM OneShotFiresOnce == Spec => []OneShotOnce
<1>1. OneShotInv => OneShotOnce
  BY DEF OneShotInv, OneShotOnce
<1> QED
  BY <1>1, AlwaysClaimedOnce, PTL

\* A schedule that is cancelled, or fired by another ticker, while a ticker has
\* it in its result set is not dispatched by it (the row count, ticker.go).
THEOREM NoFiringAfterCancel == Spec => CancelledStaysSilent
<1>1. TypeOK /\ [Next]_vars =>
        [\A k \in Tickers, id \in Ids :
            row[id].st \in {"fired", "cancelled"} /\ ~Committed(k, id) => ~Committed(k, id)']_vars
  BY Commitments
<1> QED
  BY <1>1, TypeCorrect, PTL DEF Spec, CancelledStaysSilent

--------------------
(* Recurring schedules under one ticker, without update_heartbeat: every *)
(* occurrence eri has accepted is before the one the row or the ticker *)
(* holds next.  A second ticker that read the row before it was advanced, *)
(* or a whole-row write of update_heartbeat, falsifies this. *)

Below(id, n) == \A i \in 1 .. Len(sent[id]) : sent[id][i] < n

NotAhead(r) == r.at <= now /\ (r.tick # NoSlot => r.tick <= now)

ReadAhead(r) ==
    /\ \A x \in r.todo : x.id \in Recurring => Below(x.id, x.slot) /\ x.slot <= r.at
    /\ \A x, y \in r.todo : x.id = y.id => x = y

ClaimAhead(r) ==
    r.pc = "send" /\ r.cur.id \in Recurring =>
        /\ Below(r.cur.id, r.cur.slot) /\ r.cur.slot <= r.at
        /\ row[r.cur.id].st = "live" => r.cur.slot < row[r.cur.id].due
        /\ \A y \in r.todo : y.id # r.cur.id

OccurrenceInv ==
    /\ \A k \in Tickers : NotAhead(tk[k]) /\ ReadAhead(tk[k]) /\ ClaimAhead(tk[k])
    /\ \A id \in Recurring : \A i \in 1 .. Len(sent[id]) : sent[id][i] <= now
    /\ \A id \in Recurring : row[id].st = "live" => Below(id, row[id].due)
    /\ \A id \in Beats : upd[id] = Unread
    /\ InOrder

\* A step that only moves rows later, or out, or lets time pass keeps it.
LEMMA RowsMove ==
    ASSUME TypeOK, TypeOK', OccurrenceInv, sent' = sent, upd' = upd, now' >= now,
           \A k \in Tickers : /\ tk'[k].pc = tk[k].pc /\ tk'[k].at = tk[k].at
                              /\ tk'[k].todo = tk[k].todo /\ tk'[k].cur = tk[k].cur
                              /\ tk'[k].tick \in {tk[k].tick, now'},
           \A id \in Recurring : row'[id].st = "live" =>
              row'[id].due > now \/ (row[id].st = "live" /\ row'[id].due = row[id].due)
    PROVE  OccurrenceInv'
<1>0. now \in Nat /\ now' \in Nat /\ Recurring \subseteq Ids
  BY ConstantsAssumption, Tables DEF TypeOK, Times
<1>1. \A k \in Tickers : tk[k].at \in Nat /\ (tk[k].tick # NoSlot => tk[k].tick \in Nat)
  BY ConstantsAssumption DEF TypeOK, Ticker, Times
<1>2. \A id \in Recurring : row[id].due \in Nat /\ row'[id].due \in Nat
  BY <1>0 DEF TypeOK, Row
<1>3. \A id \in Recurring : \A i \in 1 .. Len(sent[id]) : sent[id][i] \in Nat
  <2>1. \A id \in Recurring : sent[id] \in Seq(Nat)
    BY <1>0 DEF TypeOK
  <2> QED
    BY <2>1
<1>4. ASSUME NEW k \in Tickers PROVE NotAhead(tk[k])'
  BY <1>0, <1>1 DEF OccurrenceInv, NotAhead
<1>5. ASSUME NEW k \in Tickers PROVE ReadAhead(tk[k])'
  BY DEF OccurrenceInv, ReadAhead, Below
<1>6. ASSUME NEW k \in Tickers PROVE ClaimAhead(tk[k])'
  <2> SUFFICES ASSUME tk[k].pc = "send", tk[k].cur.id \in Recurring
               PROVE  /\ Below(tk[k].cur.id, tk[k].cur.slot) /\ tk[k].cur.slot <= tk[k].at
                      /\ row'[tk[k].cur.id].st = "live" => tk[k].cur.slot < row'[tk[k].cur.id].due
                      /\ \A y \in tk[k].todo : y.id # tk[k].cur.id
    BY DEF ClaimAhead, Below
  <2>1. ClaimAhead(tk[k]) /\ tk[k].at <= now
    BY DEF OccurrenceInv, NotAhead
  <2>2. tk[k].cur.slot \in Nat
    BY DEF TypeOK, InHand, Held, Ticker, Slot
  <2>3. /\ Below(tk[k].cur.id, tk[k].cur.slot) /\ tk[k].cur.slot <= tk[k].at
        /\ row[tk[k].cur.id].st = "live" => tk[k].cur.slot < row[tk[k].cur.id].due
        /\ \A y \in tk[k].todo : y.id # tk[k].cur.id
    BY <2>1 DEF ClaimAhead
  <2> QED
    BY <1>0, <1>1, <1>2, <2>1, <2>2, <2>3
<1>7. \A id \in Recurring : \A i \in 1 .. Len(sent'[id]) : sent'[id][i] <= now'
  BY <1>0, <1>3 DEF OccurrenceInv
<1>8. ASSUME NEW id \in Recurring, row'[id].st = "live" PROVE Below(id, row[id].due)'
  BY <1>0, <1>2, <1>3, <1>8 DEF OccurrenceInv, Below
<1> QED
  BY <1>4, <1>5, <1>6, <1>7, <1>8 DEF OccurrenceInv, InOrder

\* So does a step of the ticker that neither commits nor sends.
LEMMA TickerMoves ==
    ASSUME OccurrenceInv, sent' = sent, upd' = upd, now' = now, row' = row,
           NEW k \in Tickers, \A j \in Tickers : j # k => tk'[j] = tk[j],
           tk'[k].pc # "send", NotAhead(tk'[k]), ReadAhead(tk'[k])
    PROVE  OccurrenceInv'
  BY DEF OccurrenceInv, InOrder, NotAhead, ReadAhead, ClaimAhead, Below

\* The tools keep it: a new or changed expression is due after now, the other
\* edits do not touch next_run_at (ScheduleRecurring, UpdateCronSchedule).
LEMMA ToolsKeepOccurrences ==
    ASSUME TypeOK, TypeOK', OccurrenceInv, spent'["beat"] = 0, NEW id \in Ids, Tools(id)
    PROVE  OccurrenceInv'
<1>0. /\ now \in Times /\ row \in [Ids -> Row] /\ Recurring \subseteq Ids
      /\ ServerZone \in Zones
      /\ \A r \in Recurring : r \notin Shots
  BY ConstantsAssumption, Tables DEF TypeOK
<1>1. ~UpdateBeatRead(id)
  BY DEF UpdateBeatRead, Spend, TypeOK
<1>2. ~UpdateBeatWrite(id)
  <2>1. Unread.read = FALSE
    BY DEF Unread
  <2> QED
    BY <2>1, Zenon DEF UpdateBeatWrite, OccurrenceInv
<1>3. sent' = sent /\ upd' = upd /\ now' = now /\ tk' = tk
  BY <1>1, <1>2 DEF Tools, ScheduleRecurring, ScheduleOnce, CancelSchedule, UpdateCronExpr,
                    UpdateCronZone
<1>4. ASSUME NEW r \in Recurring, row'[r].st = "live"
      PROVE  row'[r].due > now \/ (row[r].st = "live" /\ row'[r].due = row[r].due)
  <2>1. CASE ScheduleRecurring(id)
    BY <2>1, <1>0, NextIsLater, <1>4 DEF ScheduleRecurring
  <2>2. CASE ScheduleOnce(id)
    BY <1>0, <1>4, <2>2 DEF ScheduleOnce
  <2>3. CASE CancelSchedule(id)
    BY <1>0, <1>4, <2>3 DEF CancelSchedule, Row
  <2>4. CASE UpdateCronExpr(id)
    BY <2>4, <1>0, NextIsLater, <1>4 DEF UpdateCronExpr, Row
  <2>5. CASE UpdateCronZone(id)
    BY <1>0, <1>4, <2>5 DEF UpdateCronZone, Row
  <2> QED
    BY <1>1, <1>2, <2>1, <2>2, <2>3, <2>4, <2>5 DEF Tools
<1>5. now' >= now
  BY <1>0, <1>3, ConstantsAssumption DEF Times
<1>6. \A k \in Tickers : /\ tk'[k].pc = tk[k].pc /\ tk'[k].at = tk[k].at
                         /\ tk'[k].todo = tk[k].todo /\ tk'[k].cur = tk[k].cur
                         /\ tk'[k].tick \in {tk[k].tick, now'}
  BY <1>3
<1> QED
  BY <1>3, <1>4, <1>5, <1>6, RowsMove

\* A claim by the only ticker keeps it: the row moves past the tick, which is
\* not before the occurrence (processDueCron, processDueHeartbeat).
LEMMA ClaimKeepsOccurrences ==
    ASSUME TypeOK, TypeOK', OccurrenceInv, \A i, j \in Tickers : i = j,
           NEW k \in Tickers, Process(k)
    PROVE  OccurrenceInv'
<1> DEFINE r == tk[k]
<1>0. /\ r \in Ticker /\ Held(r) /\ r.at \in Times /\ Recurring \subseteq Ids
      /\ tk \in [Tickers -> Ticker] /\ row \in [Ids -> Row]
      /\ NotAhead(r) /\ ReadAhead(r)
      /\ \A id \in Recurring : id \notin Shots
  BY Tables DEF TypeOK, InHand, Ticker, OccurrenceInv
<1>1. PICK x \in Picks(k) : ProcessDueRecurring(k, x) \/ ProcessDueOneShot(k, x)
  BY DEF Process
<1>2. x \in r.todo /\ x \in Slot /\ x.id \in Ids /\ x.slot \in Nat
  BY <1>0, <1>1 DEF Picks, Ticker, Slot
<1>3. sent' = sent /\ upd' = upd /\ now' = now
  BY DEF Process
<1>4. PICK p \in {"loop", "send", "save"}, s \in {"none", "stale"} : Take(k, x, p, s)
  BY <1>1 DEF ProcessDueRecurring, ProcessDueOneShot, Claimed, Skipped
<1>5. /\ tk'[k].pc = p /\ tk'[k].todo = r.todo \ {x} /\ tk'[k].at = r.at
      /\ tk'[k].tick = r.tick /\ (p # "loop" => tk'[k].cur = x)
  BY <1>0, <1>4 DEF Take, Ticker
<1>6. NotAhead(tk[k])'
  BY <1>0, <1>3, <1>5 DEF NotAhead
<1>7. ReadAhead(tk[k])'
  BY <1>0, <1>3, <1>5 DEF ReadAhead, Below
<1> DEFINE next == CalculateNextRun(x.expr, x.zone, r.at)
<1>8. next \in Nat /\ next > r.at /\ r.at \in Nat
  BY <1>0, <1>2, NextIsLater, ConstantsAssumption DEF Slot, Times
<1>9. ASSUME NEW id \in Recurring
      PROVE  /\ row'[id] = row[id] \/ (id = x.id /\ row'[id].due = next)
             /\ id = x.id /\ p = "send" => row'[id].due = next
  BY <1>0, <1>1, <1>2, <1>5 DEF ProcessDueOneShot, ProcessDueRecurring, AdvanceScheduleNextRun,
     Row, Claimed, Skipped, Take, Ticker
<1>10. x.id \in Recurring => Below(x.id, x.slot) /\ x.slot <= r.at
  BY <1>0, <1>2 DEF ReadAhead
<1>11. \A id \in Recurring : \A i \in 1 .. Len(sent[id]) : sent[id][i] \in Nat
  BY <1>0, SMTT(40) DEF TypeOK
<1>12. ClaimAhead(tk[k])'
  BY <1>3, <1>5, <1>9, <1>0, <1>2, <1>8, <1>10 DEF ClaimAhead, Below, ReadAhead
<1>13. ASSUME NEW id \in Recurring, row'[id].st = "live" PROVE Below(id, row[id].due)'
  BY <1>3, <1>13, <1>2, <1>8, <1>10, <1>11, <1>9 DEF OccurrenceInv, Below
<1>14. \A j \in Tickers : j = k
  OBVIOUS
<1> QED
  BY <1>3, <1>6, <1>7, <1>12, <1>13, <1>14 DEF OccurrenceInv, InOrder

\* The dispatch of the only ticker keeps it: what it sends is after everything
\* sent and before the row's next run (Send).
LEMMA SendKeepsOccurrences ==
    ASSUME TypeOK, TypeOK', [Next]_vars, OccurrenceInv, \A i, j \in Tickers : i = j, sent' # sent
    PROVE  OccurrenceInv'
<1>1. PICK k \in Tickers :
          /\ tk[k].pc = "send" /\ tk[k].cur \in Slot
          /\ tk'[k].pc = "save" /\ tk'[k].todo = tk[k].todo /\ tk'[k].at = tk[k].at
          /\ tk'[k].tick = tk[k].tick
          /\ sent' = [sent EXCEPT ![tk[k].cur.id] = Append(@, tk[k].cur.slot)]
          /\ \A j \in Tickers : j # k => tk'[j] = tk[j]
          /\ UNCHANGED <<now, row, upd>>
  BY Dispatches
<1> DEFINE x == tk[k].cur
<1>0. /\ x.id \in Ids /\ x.slot \in Nat /\ now \in Nat /\ tk[k].at \in Nat
      /\ sent \in [Ids -> Seq(Nat)] /\ Recurring \subseteq Ids
      /\ \A id \in Recurring : row[id].due \in Nat
      /\ NotAhead(tk[k]) /\ ReadAhead(tk[k]) /\ ClaimAhead(tk[k])
  <2>1. x.id \in Ids /\ x.slot \in Nat
    BY <1>1 DEF Slot
  <2>2. now \in Nat /\ tk[k].at \in Nat
    BY ConstantsAssumption DEF TypeOK, Times, Ticker
  <2>3. sent \in [Ids -> Seq(Nat)] /\ Recurring \subseteq Ids
    BY Tables DEF TypeOK
  <2>4. \A id \in Recurring : row[id].due \in Nat
    BY <2>3 DEF TypeOK, Row
  <2>5. NotAhead(tk[k]) /\ ReadAhead(tk[k]) /\ ClaimAhead(tk[k])
    BY DEF OccurrenceInv
  <2> QED
    BY <2>1, <2>2, <2>3, <2>4, <2>5
<1>2. /\ \A id \in Ids : id # x.id => sent'[id] = sent[id]
      /\ Len(sent'[x.id]) = Len(sent[x.id]) + 1
      /\ Len(sent[x.id]) \in Nat
      /\ \A i \in 1 .. Len(sent[x.id]) : sent'[x.id][i] = sent[x.id][i] /\ sent[x.id][i] \in Nat
      /\ sent'[x.id][Len(sent[x.id]) + 1] = x.slot
  <2>1. sent' = [sent EXCEPT ![x.id] = Append(sent[x.id], x.slot)]
    BY <1>1
  <2>2. /\ \A id \in Ids : id # x.id => sent'[id] = sent[id]
        /\ sent'[x.id] = Append(sent[x.id], x.slot) /\ sent[x.id] \in Seq(Nat)
    <3> HIDE DEF x
    <3> QED  BY <1>0, <2>1
  <2> HIDE DEF x
  <2> QED
    BY <1>0, <2>2
<1>3. x.id \in Recurring => /\ Below(x.id, x.slot) /\ x.slot <= tk[k].at
                            /\ row[x.id].st = "live" => x.slot < row[x.id].due
                            /\ \A y \in tk[k].todo : y.id # x.id
  BY <1>0, <1>1 DEF ClaimAhead
<1>4. NotAhead(tk[k])' /\ ClaimAhead(tk[k])'
  BY <1>0, <1>1 DEF NotAhead, ClaimAhead
<1>5. ReadAhead(tk[k])'
  BY <1>0, <1>2, <1>3, <1>1 DEF ReadAhead, Below
<1>6. ASSUME NEW id \in Recurring, NEW i \in 1 .. Len(sent'[id]) PROVE sent'[id][i] <= now'
  <2>1. CASE id # x.id
    BY <1>0, <1>1, <1>2, <2>1 DEF OccurrenceInv
  <2>2. CASE id = x.id /\ i = Len(sent[id]) + 1
    <3>1. sent'[id][i] = x.slot
      BY <1>2, <2>2
    <3>2. x.slot <= tk[k].at /\ tk[k].at <= now /\ now' = now
      BY <1>0, <1>1, <1>3, <2>2 DEF NotAhead
    <3> QED
      BY <1>0, <3>1, <3>2
  <2>3. CASE id = x.id /\ i # Len(sent[id]) + 1
    <3>1. i \in 1 .. Len(sent[id])
      BY <1>2, <2>3
    <3>2. sent'[id][i] = sent[id][i] /\ now' = now
      BY <1>1, <1>2, <2>3, <3>1
    <3>3. sent[id][i] <= now
      BY <3>1 DEF OccurrenceInv
    <3> QED
      BY <3>2, <3>3
  <2> QED
    BY <2>1, <2>2, <2>3
<1>7. ASSUME NEW id \in Recurring, row'[id].st = "live", NEW i \in 1 .. Len(sent'[id])
      PROVE  sent'[id][i] < row'[id].due
  <2>0. row'[id] = row[id] /\ Below(id, row[id].due)
    BY <1>1, <1>7 DEF OccurrenceInv
  <2>1. CASE id # x.id
    BY <1>0, <1>2, <2>0, <2>1 DEF Below
  <2>2. CASE id = x.id /\ i = Len(sent[id]) + 1
    BY <1>2, <1>3, <1>7, <2>0, <2>2
  <2>3. CASE id = x.id /\ i # Len(sent[id]) + 1
    <3>1. i \in 1 .. Len(sent[id])
      BY <1>2, <2>3
    <3> QED
      BY <1>2, <2>0, <2>3, <3>1 DEF Below
  <2> QED
    BY <2>1, <2>2, <2>3
<1>8. ASSUME NEW id \in Recurring, NEW i \in 1 .. Len(sent'[id]), NEW j \in 1 .. Len(sent'[id]),
             i < j
      PROVE  sent'[id][i] < sent'[id][j]
  <2>0. \A a, b \in 1 .. Len(sent[id]) : a < b => sent[id][a] < sent[id][b]
    BY DEF OccurrenceInv, InOrder
  <2>1. CASE id # x.id
    BY <1>0, <1>2, <1>8, <2>0, <2>1
  <2>2. CASE id = x.id /\ j = Len(sent[id]) + 1
    <3>1. i \in 1 .. Len(sent[id])
      BY <1>2, <1>8, <2>2
    <3> QED
      BY <1>2, <1>3, <2>2, <3>1 DEF Below
  <2>3. CASE id = x.id /\ j # Len(sent[id]) + 1
    <3>1. i \in 1 .. Len(sent[id]) /\ j \in 1 .. Len(sent[id])
      BY <1>2, <1>8, <2>3
    <3> QED
      BY <1>2, <1>8, <2>0, <2>3, <3>1
  <2> QED
    BY <2>1, <2>2, <2>3
<1>9. \A j \in Tickers : j = k
  OBVIOUS
<1>10. InOrder'
  BY <1>8 DEF InOrder
<1>11. \A id \in Recurring : row'[id].st = "live" => Below(id, row[id].due)'
  BY <1>7 DEF Below
<1> QED
  BY <1>1, <1>4, <1>5, <1>6, <1>9, <1>10, <1>11 DEF OccurrenceInv

\* What is spent is never given back (every action).
LEMMA SpentGrows ==
    ASSUME TypeOK, [Next]_vars, spent'["beat"] = 0
    PROVE  spent["beat"] = 0
<1>1. spent["beat"] \in Nat /\ spent \in Charges
  BY DEF TypeOK, Charges
<1>2. spent' = spent \/ \E w \in {"fault", "crash", "cron", "beat"} : Spend(w)
  <2>1. ASSUME NEW id \in Ids, Tools(id) PROVE <1>2!1 \/ <1>2!2
    BY <2>1 DEF Tools, ScheduleRecurring, ScheduleOnce, CancelSchedule, UpdateCronExpr,
                UpdateCronZone, UpdateBeatRead, UpdateBeatWrite
  <2>2. ASSUME NEW k \in Tickers, EvaluateDueSchedules(k) PROVE <1>2!1 \/ <1>2!2
    BY <2>2 DEF EvaluateDueSchedules, Query, Process, ProcessDueRecurring, ProcessDueOneShot,
                Send, Save, NextStage, EndTick
  <2>3. ASSUME NEW k \in Tickers, Start(k) \/ Crash(k) \/ Tick(k) PROVE <1>2!1 \/ <1>2!2
    BY <2>3 DEF Start, Crash, Tick
  <2> QED
    BY <2>1, <2>2, <2>3 DEF Next, Clock, vars
<1> QED
  BY <1>1, <1>2 DEF Spend, Charges

UntilEdited == spent["beat"] = 0 => OccurrenceInv

\* With a single ticker it holds until update_heartbeat is called (processDueCron,
\* processDueHeartbeat).
LEMMA AlwaysAhead ==
    ASSUME \A i, j \in Tickers : i = j
    PROVE  Spec => []UntilEdited
<1>1. Init => UntilEdited
  <2> SUFFICES ASSUME Init PROVE OccurrenceInv
    BY DEF UntilEdited
  <2>1. \A id \in Recurring : Len(sent[id]) = 0
    BY Tables DEF Init
  <2>2. \A k \in Tickers : tk[k] = Down
    BY DEF Init
  <2>3. NotAhead(Down) /\ ReadAhead(Down) /\ ClaimAhead(Down)
    BY ConstantsAssumption DEF NotAhead, ReadAhead, ClaimAhead, Down, Init
  <2>4. \A id \in Beats : upd[id] = Unread
    BY DEF Init
  <2> QED
    BY <2>1, <2>2, <2>3, <2>4 DEF OccurrenceInv, InOrder, Below
<1>2. TypeOK /\ TypeOK' /\ UntilEdited /\ [Next]_vars => UntilEdited'
  <2> SUFFICES ASSUME TypeOK, TypeOK', OccurrenceInv, [Next]_vars, spent'["beat"] = 0
               PROVE  OccurrenceInv'
    BY SpentGrows DEF UntilEdited
  <2>0. /\ tk \in [Tickers -> Ticker] /\ now \in Times /\ Times \subseteq Nat
        /\ now' \in Times
        /\ \A k \in Tickers : Held(tk[k]) /\ NotAhead(tk[k]) /\ ReadAhead(tk[k])
    BY ConstantsAssumption DEF TypeOK, InHand, OccurrenceInv, Times
  <2>1. CASE sent' # sent
    BY <2>1, SendKeepsOccurrences
  <2>2. CASE Clock
    BY <2>0, <2>2, RowsMove DEF Clock, Times, Ticker
  <2>3. ASSUME NEW id \in Ids, Tools(id) PROVE OccurrenceInv'
    BY <2>3, ToolsKeepOccurrences
  <2>4. ASSUME NEW k \in Tickers, Process(k) PROVE OccurrenceInv'
    BY <2>4, ClaimKeepsOccurrences
  <2>5. ASSUME NEW k \in Tickers, sent' = sent,
               Start(k) \/ Crash(k) \/ Tick(k) \/ Query(k) \/ Send(k) \/ Save(k)
                 \/ NextStage(k) \/ EndTick(k)
        PROVE  OccurrenceInv'
    <3>0. tk[k] \in Ticker /\ Held(tk[k]) /\ NotAhead(tk[k]) /\ ReadAhead(tk[k])
      BY <2>0
    <3>1. /\ upd' = upd /\ now' = now /\ row' = row
          /\ \A j \in Tickers : j # k => tk'[j] = tk[j]
      BY <2>0, <2>5 DEF Start, Crash, Tick, Query, Send, Save, NextStage, EndTick, Logs, LetsGo
    <3>2. CASE Start(k) \/ Crash(k)
      <4>1. /\ tk'[k].pc # "send" /\ tk'[k].todo = {} /\ tk'[k].tick = NoSlot
            /\ tk'[k].at \in {0, now}
        <5>1. CASE Start(k)
          BY <2>0, <5>1 DEF Start, Down
        <5>2. CASE Crash(k)
          BY <2>0, <5>2 DEF Crash, Down
        <5> QED
          BY <3>2, <5>1, <5>2
      <4>2. NotAhead(tk'[k]) /\ ReadAhead(tk'[k])
        BY <2>0, <4>1 DEF NotAhead, ReadAhead
      <4> QED
        BY <2>5, <3>1, <4>1, <4>2, TickerMoves
    <3>3. CASE Tick(k)
      BY <2>0, <3>0, <3>3, <2>5, <3>1, TickerMoves DEF Tick, Held, Ticker, NotAhead, ReadAhead
    <3>4. CASE Query(k)
      BY <2>0, <3>0, <3>4, Tables, <2>5, <3>1, TickerMoves DEF Query, Held, Ticker, DueRows,
         Table, ReadAhead, OccurrenceInv, NotAhead
    <3>5. CASE Send(k) \/ Save(k) \/ NextStage(k) \/ EndTick(k)
      <4>1. /\ tk'[k].pc # "send" /\ tk'[k].todo = tk[k].todo
            /\ tk'[k].tick = tk[k].tick /\ tk'[k].at = tk[k].at
        BY <2>0, <3>5 DEF Send, Logs, LetsGo, Ticker, Save, NextStage, EndTick
      <4>2. NotAhead(tk'[k]) /\ ReadAhead(tk'[k])
        BY <3>0, <4>1 DEF NotAhead, ReadAhead
      <4> QED
        BY <2>5, <3>1, <4>1, <4>2, TickerMoves
    <3> QED
      BY <2>5, <3>2, <3>3, <3>4, <3>5
  <2>6. CASE UNCHANGED vars
    BY <2>6 DEF vars, OccurrenceInv, InOrder, NotAhead, ReadAhead, ClaimAhead, Below
  <2> QED
    BY <2>1, <2>2, <2>3, <2>4, <2>5, <2>6 DEF Next, EvaluateDueSchedules
<1> QED
  BY <1>1, <1>2, TypeCorrect, PTL DEF Spec

\* With a single ticker, every occurrence of a recurring schedule is dispatched at
\* most once and in order, whatever crashes, fails, is cancelled or is given a new cron
\* expression, until update_heartbeat is called (processDueCron, processDueHeartbeat).
THEOREM SingleTickerFiresOnce ==
    ASSUME \A i, j \in Tickers : i = j
    PROVE  Spec => []OncePerOccurrence
<1>1. UntilEdited => OncePerOccurrence
  BY DEF UntilEdited, OccurrenceInv, OncePerOccurrence
<1> QED
  BY <1>1, AlwaysAhead, PTL

--------------------
(* The log.  What a ticker logs as completed it has seen accepted.  What *)
(* it skips as stale has not been accepted and never will be: it is judged *)
(* by the clock of the tick, and later ticks have later clocks. *)

Ran(id, n) == \E i \in 1 .. Len(sent[id]) : sent[id][i] = n

\* What a step may do to the record of ticker k, as far as the log depends on it:
\* nothing, ...
Rests(k) ==
    /\ tk'[k].pc = tk[k].pc /\ tk'[k].at = tk[k].at /\ tk'[k].cur = tk[k].cur
    /\ tk'[k].status = tk[k].status /\ tk'[k].tick \in {tk[k].tick, now'}
    /\ now' >= now

\* ... a step with no row in hand after it, ...
Turns(k) ==
    /\ tk'[k].pc \notin {"send", "save"} /\ now' = now
    /\ tk'[k].status = "none" \/ (tk'[k].status = tk[k].status /\ tk[k].pc # "save")
    /\ \/ tk'[k].at = tk[k].at /\ tk'[k].tick = tk[k].tick /\ tk[k].pc # "down"
       \/ /\ tk'[k].tick = NoSlot
          /\ \/ tk'[k].pc = "down"
             \/ tk'[k].at = now
             \/ tk[k].pc # "down" /\ tk[k].tick # NoSlot /\ tk'[k].at = tk[k].tick

\* ... the claim of a row ...
Claims(k) ==
    /\ tk[k].pc = "loop" /\ sent' = sent /\ now' = now
    /\ tk'[k].at = tk[k].at /\ tk'[k].tick = tk[k].tick
    /\ tk'[k].cur \in tk[k].todo
    /\ tk'[k].cur.id \in Shots => row[tk'[k].cur.id].st = "live"
    /\ \/ tk'[k].pc = "send" /\ tk'[k].status = "none" /\ ~Stale(k, tk'[k].cur)
       \/ tk'[k].pc = "save" /\ tk'[k].status = "stale" /\ Stale(k, tk'[k].cur)

\* ... or the answer to its dispatch.
Answers(k) ==
    /\ tk[k].pc = "send" /\ tk'[k].pc = "save" /\ now' = now
    /\ tk'[k].at = tk[k].at /\ tk'[k].tick = tk[k].tick /\ tk'[k].cur = tk[k].cur
    /\ tk'[k].status = "failed" \/ (tk'[k].status = "completed" /\ Accepted(k))

\* Every step is one of these for every ticker (EvaluateDueSchedules).
LEMMA TickerSteps ==
    ASSUME TypeOK, [Next]_vars, NEW k \in Tickers
    PROVE  Rests(k) \/ Turns(k) \/ Claims(k) \/ Answers(k)
<1>0. /\ tk \in [Tickers -> Ticker] /\ tk[k] \in Ticker /\ Held(tk[k])
      /\ now \in Nat
  BY ConstantsAssumption DEF TypeOK, InHand, Times
<1>1. CASE Clock
  BY <1>0, <1>1 DEF Clock, Ticker, Rests
<1>2. CASE tk'[k] = tk[k] /\ now' = now
  BY <1>0, <1>2 DEF Rests
<1>3. ASSUME NEW id \in Ids, Tools(id) PROVE tk' = tk /\ now' = now
  BY <1>3 DEF Tools, ScheduleRecurring, ScheduleOnce, CancelSchedule, UpdateCronExpr,
              UpdateCronZone, UpdateBeatRead, UpdateBeatWrite
<1>4. ASSUME NEW j \in Tickers, j # k, Start(j) \/ Crash(j) \/ Tick(j) \/ EvaluateDueSchedules(j)
      PROVE  tk'[k] = tk[k] /\ now' = now
  BY <1>0, <1>4 DEF Start, Crash, Tick, EvaluateDueSchedules, Query, Process, ProcessDueRecurring,
     ProcessDueOneShot, Claimed, Skipped, Take, Send, Save, NextStage, EndTick, Logs, LetsGo
<1>5. CASE Start(k)
  BY <1>0, <1>5 DEF Start, Down, Turns
<1>6. CASE Crash(k)
  BY <1>0, <1>6 DEF Crash, Down, Turns
<1>7. CASE Tick(k)
  BY <1>0, <1>7 DEF Tick, Ticker, Turns
<1>8. CASE Query(k)
  BY <1>0, <1>8 DEF Query, Ticker, Turns
<1>9. CASE NextStage(k)
  BY <1>0, <1>9 DEF NextStage, Ticker, Turns
<1>10. CASE EndTick(k)
  BY <1>0, <1>10 DEF EndTick, Ticker, Turns
<1>11. CASE Save(k)
  BY <1>0, <1>11 DEF Save, LetsGo, Ticker, Turns
<1>12. CASE Send(k)
  BY <1>0, <1>12 DEF Send, Logs, LetsGo, Ticker, Turns, Answers
<1>13. CASE Process(k)
  <2>1. PICK x \in Picks(k) : ProcessDueRecurring(k, x) \/ ProcessDueOneShot(k, x)
    BY <1>13 DEF Process
  <2>2. x \in tk[k].todo /\ sent' = sent /\ now' = now /\ tk[k].pc = "loop"
    BY <1>13 DEF Process, Picks
  <2>3. Skipped(k, x) \/ (Claimed(k, x) /\ (x.id \in Shots => row[x.id].st = "live"))
    BY <2>1, Tables DEF ProcessDueRecurring, ProcessDueOneShot
  <2>4. CASE Skipped(k, x)
    BY <1>0, <2>2, <2>4 DEF Skipped, Take, Ticker, Turns
  <2>5. CASE Claimed(k, x) /\ (x.id \in Shots => row[x.id].st = "live")
    BY <1>0, <2>5, <2>2 DEF Claimed, Take, Ticker, Claims
  <2> QED
    BY <2>3, <2>4, <2>5
<1> QED
  BY <1>1, <1>2, <1>3, <1>4, <1>5, <1>6, <1>7, <1>8, <1>9, <1>10, <1>11, <1>12, <1>13
     DEF Next, EvaluateDueSchedules, vars

\* A line of the log is old, or is the one a ticker has in hand (Save, EndTick).
LEMMA LogSteps ==
    ASSUME TypeOK, [Next]_vars, NEW q \in runs'
    PROVE  \/ q \in runs
           \/ \E k \in Tickers :
                /\ tk[k].pc = "save" /\ sent' = sent /\ now' = now /\ Turns(k)
                /\ tk'[k].at = tk[k].at
                /\ q = [id |-> tk[k].cur.id, slot |-> tk[k].cur.slot,
                        status |-> tk[k].status, at |-> tk[k].at]
<1>0. tk \in [Tickers -> Ticker]
  BY DEF TypeOK
<1>1. CASE runs' = runs
  BY <1>1
<1>2. ASSUME NEW k \in Tickers, EndTick(k) PROVE q \in runs
  BY <1>2 DEF Kept, EndTick
<1>3. ASSUME NEW k \in Tickers, Save(k), q \notin runs
      PROVE  /\ tk[k].pc = "save" /\ sent' = sent /\ now' = now /\ Turns(k)
             /\ tk'[k].at = tk[k].at
             /\ q = [id |-> tk[k].cur.id, slot |-> tk[k].cur.slot,
                     status |-> tk[k].status, at |-> tk[k].at]
  BY <1>3, <1>0 DEF Save, LetsGo, Ticker, Turns
<1>4. runs' = runs \/ \E k \in Tickers : Save(k) \/ EndTick(k)
  <2>1. ASSUME NEW id \in Ids, Tools(id) PROVE runs' = runs
    BY <2>1 DEF Tools, ScheduleRecurring, ScheduleOnce, CancelSchedule, UpdateCronExpr,
                UpdateCronZone, UpdateBeatRead, UpdateBeatWrite
  <2>2. ASSUME NEW k \in Tickers, Start(k) \/ Crash(k) \/ Tick(k) \/ Query(k) \/ Process(k)
                                  \/ Send(k) \/ NextStage(k)
        PROVE  runs' = runs
    BY <2>2 DEF Start, Crash, Tick, Query, Process, Send, NextStage
  <2> QED
    BY <2>1, <2>2 DEF Next, EvaluateDueSchedules, vars, Clock
<1> QED
  BY <1>1, <1>2, <1>3, <1>4

\* eri does not forget what it has accepted (Send).
LEMMA RanStays ==
    ASSUME TypeOK, [Next]_vars, NEW id \in Ids, NEW n, Ran(id, n)
    PROVE  Ran(id, n)'
<1>1. CASE sent' = sent
  BY <1>1 DEF Ran
<1>2. CASE sent' # sent
  <2>1. PICK k \in Tickers : /\ tk[k].cur \in Slot
                             /\ sent' = [sent EXCEPT ![tk[k].cur.id] = Append(@, tk[k].cur.slot)]
    BY <1>2, Dispatches
  <2>2. sent[id] \in Seq(Nat) /\ sent \in [Ids -> Seq(Nat)] /\ tk[k].cur.slot \in Nat
    BY <2>1 DEF TypeOK, Slot
  <2>3. sent'[id] = sent[id] \/ sent'[id] = Append(sent[id], tk[k].cur.slot)
    BY <2>1, <2>2
  <2>4. PICK i \in 1 .. Len(sent[id]) : sent[id][i] = n
    BY DEF Ran
  <2>5. i \in 1 .. Len(sent'[id]) /\ sent'[id][i] = sent[id][i]
    <3> DEFINE old == sent[id]
               m == tk[k].cur.slot
    <3>1. old \in Seq(Nat) /\ m \in Nat /\ i \in 1 .. Len(old)
      BY <2>2, <2>4
    <3> HIDE DEF old, m
    <3>2. i \in 1 .. Len(Append(old, m)) /\ Append(old, m)[i] = old[i]
      BY <3>1
    <3> QED
      BY <2>3, <3>1, <3>2 DEF old, m
  <2> QED
    BY <2>4, <2>5 DEF Ran
<1> QED
  BY <1>1, <1>2

\* It accepts only what a ticker is sending (Send).
LEMMA RanBySend ==
    ASSUME TypeOK, [Next]_vars, NEW id \in Ids, NEW n, Ran(id, n)', ~Ran(id, n)
    PROVE  \E k \in Tickers : Committed(k, id) /\ tk[k].cur.slot = n
<1>1. sent' # sent
  BY DEF Ran
<1>2. PICK k \in Tickers : /\ tk[k].cur \in Slot /\ tk[k].pc = "send"
                           /\ sent' = [sent EXCEPT ![tk[k].cur.id] = Append(@, tk[k].cur.slot)]
  BY <1>1, Dispatches
<1>3. sent[id] \in Seq(Nat) /\ sent \in [Ids -> Seq(Nat)] /\ tk[k].cur.slot \in Nat
  BY <1>2 DEF TypeOK, Slot
<1>4. tk[k].cur.id = id /\ sent'[id] = Append(sent[id], tk[k].cur.slot)
  BY <1>2, <1>3 DEF Ran
<1>5. PICK i \in 1 .. Len(sent'[id]) : sent'[id][i] = n
  BY DEF Ran
<1>6. i \in 1 .. Len(sent[id]) => sent[id][i] = n
  BY <1>3, <1>4, <1>5
<1>7. tk[k].cur.slot = n
  BY <1>3, <1>4, <1>5, <1>6 DEF Ran
<1> QED
  BY <1>2, <1>4, <1>7 DEF Committed


\* A ticker has a status to log only while it logs, and has seen what it calls
\* completed accepted.
DoneInv ==
    /\ \A k \in Tickers :
          /\ tk[k].pc # "save" => tk[k].status = "none"
          /\ tk[k].status = "completed" => Ran(tk[k].cur.id, tk[k].cur.slot)
    /\ \A q \in runs : q.status = "completed" => Ran(q.id, q.slot)

\* It holds for any number of tickers (Send, Save).
LEMMA AlwaysDone == Spec => []DoneInv
<1>1. Init => DoneInv
  BY DEF Init, DoneInv, Down
<1>2. TypeOK /\ DoneInv /\ [Next]_vars => DoneInv'
  <2> SUFFICES ASSUME TypeOK, DoneInv, [Next]_vars PROVE DoneInv'
    OBVIOUS
  <2>0. /\ tk \in [Tickers -> Ticker] /\ sent \in [Ids -> Seq(Nat)]
        /\ runs \subseteq [id : Ids, slot : Nat,
                           status : {"none", "stale", "failed", "completed"}, at : Times]
        /\ \A k \in Tickers : /\ Held(tk[k])
                              /\ tk[k].pc \in {"send", "save"} =>
                                    tk[k].cur.id \in Ids /\ tk[k].cur.slot \in Nat
    BY DEF TypeOK, InHand, Held, Ticker, Slot
  <2>1. ASSUME NEW k \in Tickers, tk'[k].pc # "save" PROVE tk'[k].status = "none"
    BY <2>1, TickerSteps DEF DoneInv, Rests, Turns, Claims, Answers
  <2>2. ASSUME NEW k \in Tickers, tk'[k].status = "completed"
        PROVE  Ran(tk[k].cur.id, tk[k].cur.slot)'
    <3>1. \/ tk'[k].cur = tk[k].cur /\ tk[k].status = "completed"
          \/ tk'[k].cur = tk[k].cur /\ tk[k].pc = "send" /\ Accepted(k)
      BY <2>2, TickerSteps DEF DoneInv, Rests, Turns, Claims, Answers
    <3>2. tk[k].cur.id \in Ids /\ tk[k].cur.slot \in Nat
      BY <2>0, <3>1 DEF DoneInv
    <3>3. CASE tk'[k].cur = tk[k].cur /\ tk[k].status = "completed"
      BY <3>2, <3>3, RanStays DEF DoneInv
    <3>4. CASE tk'[k].cur = tk[k].cur /\ Accepted(k)
      <4> DEFINE id == tk[k].cur.id
                 n == tk[k].cur.slot
      <4>0. id \in Ids /\ n \in Nat /\ sent' = [sent EXCEPT ![id] = Append(sent[id], n)]
        BY <3>2, <3>4 DEF Accepted
      <4> HIDE DEF id, n
      <4>1. sent'[id] = Append(sent[id], n) /\ sent[id] \in Seq(Nat)
        BY <2>0, <4>0
      <4>2. /\ Len(sent[id]) + 1 \in 1 .. Len(sent'[id])
            /\ sent'[id][Len(sent[id]) + 1] = n
        BY <4>0, <4>1
      <4>3. \E i \in 1 .. Len(sent'[id]) : sent'[id][i] = n
        BY <4>2
      <4> QED
        BY <3>4, <4>3 DEF Ran, id, n
    <3> QED
      BY <3>1, <3>3, <3>4
  <2>3. ASSUME NEW q \in runs', q.status = "completed" PROVE Ran(q.id, q.slot)'
    BY <2>0, <2>3, RanStays, LogSteps DEF DoneInv
  <2> QED
    BY <2>1, <2>2, <2>3 DEF DoneInv
<1> QED
  BY <1>1, <1>2, TypeCorrect, PTL DEF Spec

\* What a ticker sends is fresh at its tick; what it skips as stale, or has logged
\* as stale, was too old at a tick that no later tick precedes, and has not run.
TooOld(id, n, t) == IsScheduleStale(n, t) /\ ~Ran(id, n)

SkipInv ==
    /\ \A k \in Tickers :
          /\ tk[k].tick # NoSlot => tk[k].at <= tk[k].tick
          /\ tk[k].pc = "send" => ~Stale(k, tk[k].cur)
          /\ tk[k].pc = "save" /\ tk[k].status = "stale" =>
                TooOld(tk[k].cur.id, tk[k].cur.slot, tk[k].at)
    /\ \A q \in runs : q.status = "stale" =>
          /\ TooOld(q.id, q.slot, q.at) /\ q.at <= now
          /\ \A k \in Tickers : tk[k].pc # "down" => q.at <= tk[k].at

SkipsUntilEdited == spent["beat"] = 0 => SkipInv

\* Nothing that is being sent is too old at an earlier instant (IsScheduleStale).
LEMMA SendsAreFresh ==
    ASSUME TypeOK, SkipInv, NEW k \in Tickers, tk[k].pc = "send",
           NEW n \in Nat, NEW t \in Nat, t <= tk[k].at, IsScheduleStale(n, t)
    PROVE  tk[k].cur.slot # n
BY ConstantsAssumption DEF TypeOK, Ticker, Times, SkipInv, Stale, IsScheduleStale

\* The only ticker keeps it: a row that is claimed as stale has not run, because
\* what was sent of it is before it or, of a one-shot, because it was still there
\* (processDueCron, processDueHeartbeat, processDueOneShot).
LEMMA SkipsKept ==
    ASSUME TypeOK, TypeOK', [Next]_vars, \A i, j \in Tickers : i = j,
           OneShotInv, OccurrenceInv, SkipInv
    PROVE  SkipInv'
<1>0. /\ MaxOverdue \in Nat /\ now \in Nat /\ now' \in Nat
      /\ runs \subseteq [id : Ids, slot : Nat,
                         status : {"none", "stale", "failed", "completed"}, at : Times]
      /\ \A k \in Tickers :
            /\ Held(tk[k]) /\ tk[k].at \in Nat /\ tk'[k].at \in Nat
            /\ tk[k].tick # NoSlot => tk[k].tick \in Nat
            /\ tk'[k].tick # NoSlot => tk'[k].tick \in Nat
            /\ tk[k].pc \in {"send", "save"} => tk[k].cur.id \in Ids /\ tk[k].cur.slot \in Nat
            /\ \A x \in tk[k].todo : x.id \in Ids /\ x.slot \in Nat
            /\ tk[k].at <= now
      /\ Times \subseteq Nat
  <2>1. MaxOverdue \in Nat /\ Times \subseteq Nat
    BY ConstantsAssumption DEF Times
  <2>2. now \in Nat /\ now' \in Nat
    BY <2>1 DEF TypeOK
  <2>3. ASSUME NEW k \in Tickers
        PROVE  /\ Held(tk[k]) /\ tk[k].at \in Nat /\ tk'[k].at \in Nat
               /\ tk[k].tick # NoSlot => tk[k].tick \in Nat
               /\ tk'[k].tick # NoSlot => tk'[k].tick \in Nat
    BY <2>1 DEF TypeOK, InHand, Ticker
  <2>4. ASSUME NEW k \in Tickers
        PROVE  /\ tk[k].pc \in {"send", "save"} => tk[k].cur.id \in Ids /\ tk[k].cur.slot \in Nat
               /\ \A x \in tk[k].todo : x.id \in Ids /\ x.slot \in Nat
    BY <2>3 DEF TypeOK, Ticker, Held, Slot
  <2>5. \A k \in Tickers : tk[k].at <= now
    BY DEF OccurrenceInv, NotAhead
  <2>6. runs \subseteq [id : Ids, slot : Nat,
                        status : {"none", "stale", "failed", "completed"}, at : Times]
    BY DEF TypeOK
  <2> QED
    BY <2>1, <2>2, <2>3, <2>4, <2>5, <2>6
<1>1. ASSUME NEW k \in Tickers, tk'[k].tick # NoSlot PROVE tk'[k].at <= tk'[k].tick
  BY <1>0, <1>1, TickerSteps DEF SkipInv, Rests, Turns, Claims, Answers
<1>2. ASSUME NEW k \in Tickers, tk'[k].pc = "send" PROVE ~Stale(k, tk[k].cur)'
  BY <1>2, TickerSteps DEF Rests, SkipInv, Stale, Claims, Turns, Answers
<1>3. ASSUME NEW k \in Tickers, tk'[k].pc = "save", tk'[k].status = "stale"
      PROVE  TooOld(tk[k].cur.id, tk[k].cur.slot, tk[k].at)'
  <2>0. ~Turns(k) /\ ~Answers(k)
    BY <1>3 DEF Turns, Answers
  <2>1. CASE Rests(k)
    <3> DEFINE x == tk[k].cur
    <3>1. /\ tk'[k].cur = x /\ tk'[k].at = tk[k].at /\ x.id \in Ids
          /\ tk[k].pc = "save" /\ TooOld(x.id, x.slot, tk[k].at)
      BY <1>0, <1>3, <2>1 DEF Rests, SkipInv
    <3>2. ~\E j \in Tickers : Committed(j, x.id)
      BY <3>1 DEF Committed
    <3>3. ~Ran(x.id, x.slot)'
      BY <3>1, <3>2, RanBySend DEF TooOld
    <3> QED
      BY <3>1, <3>3 DEF TooOld, Ran
  <2>2. CASE Claims(k)
    <3> DEFINE x == tk'[k].cur
    <3>1. /\ x \in tk[k].todo /\ sent' = sent /\ tk'[k].at = tk[k].at /\ x.id \in Ids
          /\ x.slot \in Nat
          /\ Stale(k, x) /\ (x.id \in Shots => row[x.id].st = "live")
      BY <1>0, <1>3, <2>2 DEF Claims
    <3>2. CASE x.id \in Shots
      BY <3>1, <3>2 DEF OneShotInv, Ran, TooOld, Stale
    <3>3. CASE x.id \in Recurring
      <4>1. Below(x.id, x.slot)
        BY <3>1, <3>3 DEF OccurrenceInv, ReadAhead
      <4>2. sent[x.id] \in Seq(Nat)
        BY <3>1 DEF TypeOK
      <4>3. ~Ran(x.id, x.slot)
        BY <3>1, <4>1, <4>2 DEF Ran, Below
      <4> QED
        BY <3>1, <4>3 DEF TooOld, Stale, Ran
    <3> QED
      BY <3>1, <3>2, <3>3 DEF Ids, Recurring
  <2> QED
    BY <2>0, <2>1, <2>2, TickerSteps
<1>4. ASSUME NEW q \in runs', q.status = "stale"
      PROVE  /\ TooOld(q.id, q.slot, q.at)' /\ q.at <= now'
             /\ \A k \in Tickers : tk'[k].pc # "down" => q.at <= tk'[k].at
  <2>1. CASE q \in runs
    <3>1. /\ TooOld(q.id, q.slot, q.at) /\ q.at <= now
          /\ \A k \in Tickers : tk[k].pc # "down" => q.at <= tk[k].at
          /\ q.id \in Ids /\ q.slot \in Nat /\ q.at \in Nat
      BY <1>0, <1>4, <2>1 DEF SkipInv
    <3>2. ASSUME NEW k \in Tickers, Committed(k, q.id), tk[k].cur.slot = q.slot PROVE FALSE
      BY <3>1, <3>2, SendsAreFresh DEF Committed, TooOld
    <3>3. ~Ran(q.id, q.slot)'
      BY <3>1, <3>2, RanBySend DEF TooOld
    <3>4. TooOld(q.id, q.slot, q.at)'
      BY <3>1, <3>3 DEF TooOld, Ran
    <3>5. ASSUME NEW k \in Tickers, tk'[k].pc # "down" PROVE q.at <= tk'[k].at /\ now' >= now
      BY <1>0, <3>1, <3>5, TickerSteps DEF SkipInv, Rests, Turns, Claims, Answers
    <3>6. now' >= now
      <4>1. now' = now \/ Clock
        BY DEF Next, vars, Tools, ScheduleRecurring, ScheduleOnce, CancelSchedule,
           UpdateCronExpr, UpdateCronZone, UpdateBeatRead, UpdateBeatWrite, Start, Crash, Tick,
           EvaluateDueSchedules, Query, Process, Send, Save, NextStage, EndTick
      <4> QED
        BY <1>0, <4>1 DEF Clock
    <3> QED
      BY <1>0, <3>1, <3>4, <3>5, <3>6
  <2>2. ASSUME NEW k \in Tickers, tk[k].pc = "save", sent' = sent, now' = now, Turns(k),
               tk'[k].at = tk[k].at,
               q = [id |-> tk[k].cur.id, slot |-> tk[k].cur.slot,
                    status |-> tk[k].status, at |-> tk[k].at]
        PROVE  /\ TooOld(q.id, q.slot, q.at)' /\ q.at <= now'
               /\ \A j \in Tickers : tk'[j].pc # "down" => q.at <= tk'[j].at
    BY <1>4, <2>2, <1>0 DEF SkipInv, TooOld, Ran
  <2> QED
    BY <2>1, <2>2, LogSteps
<1> QED
  BY <1>1, <1>2, <1>3, <1>4 DEF SkipInv

\* With a single ticker the log is truthful: what it calls completed eri has accepted,
\* and what it calls stale eri has not and never will, until update_heartbeat is called;
\* the first half does not need the last condition (Save, IsScheduleStale).
THEOREM SingleTickerLogsTheTruth ==
    ASSUME \A i, j \in Tickers : i = j
    PROVE  Spec => []LogIsTruthful
<1>1. Init => SkipsUntilEdited
  BY DEF Init, SkipsUntilEdited, SkipInv, Down
<1>2. TypeOK /\ TypeOK' /\ OneShotInv /\ UntilEdited /\ SkipsUntilEdited
        /\ [Next]_vars => SkipsUntilEdited'
  BY SpentGrows, SkipsKept DEF SkipsUntilEdited, UntilEdited
<1>3. TypeOK /\ DoneInv /\ SkipsUntilEdited => LogIsTruthful
  BY DEF LogIsTruthful, Ran, TypeOK, DoneInv, SkipsUntilEdited, SkipInv, TooOld
<1> QED
  BY <1>1, <1>2, <1>3, TypeCorrect, AlwaysClaimedOnce, AlwaysAhead, AlwaysDone, PTL DEF Spec

====================
