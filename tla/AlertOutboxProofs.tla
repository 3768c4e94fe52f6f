-------------------------- MODULE AlertOutboxProofs --------------------------
(***************************************************************************)
(* Theorems about AlertOutbox: its types; no failure stays without an      *)
(* alert; a delivery that has ended stays as it is; every mail is          *)
(* accounted for; the summary of a run is honest; skips are spaced.        *)
(***************************************************************************)
EXTENDS AlertOutbox, TLAPS

-----------------------------------------------------------------------------
(* What the helpers return. *)

\* retry_delay is a number of seconds, never negative.
LEMMA DelayIsNat ==
    ASSUME NEW n \in Nat \ {0} PROVE RetryDelay(n) \in Nat
<1> DEFINE doublings == <<1, 2, 4, 8, 16, 32, 64>>
           place == IF n < 7 THEN n ELSE 7
<1>1. place \in 1..7
    OBVIOUS
<1>2. doublings[place] \in Nat
    <2> HIDE DEF place
    <2> QED BY <1>1
<1>3. RetryBase * doublings[place] \in Nat
    <2> HIDE DEF place, doublings
    <2> QED BY <1>2, OutboxAssumption DEF OutboxAssumption
<1>4. (IF RetryBase * doublings[place] < Hour THEN RetryBase * doublings[place] ELSE Hour) \in Nat
    <2> HIDE DEF place, doublings
    <2> QED BY <1>3, OutboxAssumption DEF OutboxAssumption
<1> QED
    BY <1>4, Zenon DEF RetryDelay

\* A retry window ends at a natural number.
LEMMA DeadlineIsNat ==
    ASSUME NEW start \in Nat, NEW hours \in Nat PROVE Deadline(start, hours) \in Nat
BY OutboxAssumption DEF OutboxAssumption, Deadline

\* The settings that are stored are among those an administrator saves.
LEMMA SettingsShape ==
    ASSUME OutboxTypeOK
    PROVE  /\ settings \in Settings
           /\ settings.recipients \in Seq(Recipients) /\ settings.hours \in Nat
           /\ settings.enabled \in BOOLEAN
           /\ Len(settings.recipients) <= MaxList
           /\ settings.enabled => settings.recipients # <<>>
BY OutboxAssumption DEF OutboxAssumption, OutboxTypeOK, Settings

\* A new delivery is a row of email_deliveries, and there is one.
LEMMA NewDeliveryTypes ==
    ASSUME OutboxTypeOK, NEW alert \in AlertStates \ {"none"}, NEW recipient \in Recipients
    PROVE  /\ NewDelivery(alert, recipient) \in Delivery
           /\ NewDelivery(alert, recipient).state # "none"
<1>1. clock \in Times /\ clock \in Nat /\ Null \in Times
    BY OutboxAssumption DEF OutboxAssumption, OutboxTypeOK, Times, Null
<1>2. Deadline(clock, settings.hours) \in Nat
    BY <1>1, SettingsShape, DeadlineIsNat
<1> QED
    BY <1>1, <1>2 DEF NewDelivery, NoDelivery, Delivery, AlertStates, Null

-----------------------------------------------------------------------------
(* What the transactions on the stored rows keep. *)

StoredTyped(h, a, d) ==
    h \in [Runs -> History] /\ a \in [Runs -> AlertStates] /\ d \in [Rows -> Delivery]

\* A closed failure has its alert.
Alerted(h, a) ==
    \A r \in Runs : h[r].state = "closed" /\ Alertable(h[r].outcome) => a[r] # "none"

\* An alert that is meant for delivery has a delivery, whatever the state of its run's row.
Delivered(a, d) ==
    \A r \in Runs : a[r] = "DELIVER" => \E i \in Slots : d[<<r, i>>].state # "none"

StoredInv(h, a, d) == StoredTyped(h, a, d) /\ Alerted(h, a) /\ Delivered(a, d)

\* The inductive invariant.
OInv == OutboxTypeOK /\ Alerted(history, alerts) /\ Delivered(alerts, deliveries)

FinalStates == {"SENT", "NOT_SENT", "SUPPRESSED"}

\* From the deliveries d to e none that has ended is changed, except by its removal.
FinalKept(d, e) ==
    \A row \in Rows : d[row].state \in FinalStates => e[row].state \in {d[row].state, "none"}

\* INSERT OR IGNORE leaves the rows that are there, and while mail is on leaves the run with one.
LEMMA WithDeliveriesKeeps ==
    ASSUME OutboxTypeOK, NEW r \in Runs, NEW alert \in AlertStates \ {"none"}
    PROVE  /\ WithDeliveries(r, alert) \in [Rows -> Delivery]
           /\ \A row \in Rows : deliveries[row].state # "none" =>
                  WithDeliveries(r, alert)[row] = deliveries[row]
           /\ settings.enabled => \E i \in Slots : WithDeliveries(r, alert)[<<r, i>>].state # "none"
<1> DEFINE list == settings.recipients
           taken == {i \in Slots : deliveries[<<r, i>>].state # "none"}
           known == {deliveries[<<r, i>>].recipient : i \in taken}
           new(row) == /\ row[1] = r /\ row[2] <= Len(list)
                       /\ deliveries[row].state = "none" /\ list[row[2]] \notin known
           W == WithDeliveries(r, alert)
<1>1. W = [row \in Rows |-> IF new(row) THEN NewDelivery(alert, list[row[2]]) ELSE deliveries[row]]
    BY DEF WithDeliveries
<1>2. deliveries \in [Rows -> Delivery]
    BY DEF OutboxTypeOK
<1>3. ASSUME NEW row \in Rows, new(row) PROVE list[row[2]] \in Recipients
    <2>1. row[2] \in 1..MaxList
        BY <1>3 DEF Rows, Slots
    <2>2. row[2] \in 1..Len(list)
        BY <2>1, <1>3, SettingsShape, OutboxAssumption DEF OutboxAssumption
    <2> QED BY <2>2, SettingsShape
<1>4. ASSUME NEW row \in Rows, new(row)
      PROVE  NewDelivery(alert, list[row[2]]) \in Delivery /\ NewDelivery(alert, list[row[2]]).state # "none"
    BY <1>3, <1>4, NewDeliveryTypes
<1>5. W \in [Rows -> Delivery]
    <2> HIDE DEF new, W
    <2> QED BY <1>1, <1>2, <1>4
<1>6. ASSUME NEW row \in Rows, deliveries[row].state # "none" PROVE W[row] = deliveries[row]
    <2>1. ~new(row)
        BY <1>6
    <2> HIDE DEF new, W
    <2> QED BY <1>1, <2>1
<1>7. ASSUME settings.enabled PROVE \E i \in Slots : W[<<r, i>>].state # "none"
    <2>1. Len(list) \in Nat /\ list # <<>> /\ Len(list) <= MaxList
        BY <1>7, SettingsShape
    <2>2. 1 <= Len(list)
        BY <2>1, SettingsShape
    <2>3. 1 \in Slots /\ <<r, 1>> \in Rows
        BY <2>1, <2>2, OutboxAssumption DEF OutboxAssumption, Slots, Rows
    <2>4. CASE deliveries[<<r, 1>>].state # "none"
        <3> HIDE DEF W
        <3> QED BY <2>3, <2>4, <1>6
    <2>5. CASE \E i \in taken : TRUE
        <3>1. PICK i \in taken : TRUE
            BY <2>5
        <3>2. i \in Slots /\ <<r, i>> \in Rows /\ deliveries[<<r, i>>].state # "none"
            BY <3>1 DEF Rows
        <3> HIDE DEF W
        <3> QED BY <3>2, <1>6
    <2>6. CASE deliveries[<<r, 1>>].state = "none" /\ ~\E i \in taken : TRUE
        <3>1. new(<<r, 1>>)
            BY <2>2, <2>6
        <3> HIDE DEF new, W
        <3> QED BY <2>3, <3>1, <1>1, <1>4
    <2> QED BY <2>4, <2>5, <2>6
<1> QED BY <1>5, <1>6, <1>7

\* Retention takes a run's row, alert and deliveries together.
LEMMA CommitKeeps ==
    ASSUME OutboxTypeOK, NEW h, NEW a, NEW d, StoredInv(h, a, d), CommitHistory(h, a, d),
           FinalKept(deliveries, d)
    PROVE  StoredInv(history', alerts', deliveries') /\ FinalKept(deliveries, deliveries')
<1> DEFINE old == {r \in Runs : h[r].state \in {"open", "closed"} /\ h[r].startedAt < clock - Retention}
<1>1. h \in [Runs -> History] /\ a \in [Runs -> AlertStates] /\ d \in [Rows -> Delivery]
    BY DEF StoredInv, StoredTyped
<1>2. /\ history' = [r \in Runs |-> IF r \in old THEN [h[r] EXCEPT !.state = "gone"] ELSE h[r]]
      /\ alerts' = [r \in Runs |-> IF r \in old THEN "none" ELSE a[r]]
      /\ deliveries' = [row \in Rows |-> IF row[1] \in old THEN NoDelivery ELSE d[row]]
    BY DEF CommitHistory
<1> HIDE DEF old
<1>3. NoDelivery \in Delivery /\ NoDelivery.state = "none"
    BY OutboxAssumption DEF OutboxAssumption, NoDelivery, Delivery, Null, Times
<1>4. StoredTyped(history', alerts', deliveries')
    <2>1. ASSUME NEW r \in Runs PROVE [h[r] EXCEPT !.state = "gone"] \in History
        BY <1>1 DEF History
    <2>2. history' \in [Runs -> History]
        BY <1>1, <1>2, <2>1
    <2>3. alerts' \in [Runs -> AlertStates]
        BY <1>1, <1>2 DEF AlertStates
    <2>4. deliveries' \in [Rows -> Delivery]
        BY <1>1, <1>2, <1>3
    <2> QED BY <2>2, <2>3, <2>4 DEF StoredTyped
<1>5. Alerted(history', alerts')
    <2>1. ASSUME NEW r \in Runs, history'[r].state = "closed" PROVE r \notin old
        BY <1>1, <1>2, <2>1 DEF History
    <2> QED BY <1>2, <2>1 DEF Alerted, StoredInv
<1>6. Delivered(alerts', deliveries')
    <2> SUFFICES ASSUME NEW r \in Runs, alerts'[r] = "DELIVER"
                 PROVE  \E i \in Slots : deliveries'[<<r, i>>].state # "none"
        BY DEF Delivered
    <2>1. r \notin old /\ a[r] = "DELIVER"
        BY <1>2
    <2>2. PICK i \in Slots : d[<<r, i>>].state # "none"
        BY <2>1 DEF Delivered, StoredInv
    <2>3. <<r, i>> \in Rows /\ <<r, i>>[1] = r
        BY DEF Rows
    <2>4. deliveries'[<<r, i>>] = d[<<r, i>>]
        BY <1>2, <2>1, <2>3
    <2> QED BY <2>2, <2>4
<1>7. FinalKept(deliveries, deliveries')
    BY <1>2, <1>3 DEF FinalKept
<1> QED BY <1>4, <1>5, <1>6, <1>7 DEF StoredInv

\* Closing a row leaves its alert and its deliveries behind, and no other row different.
LEMMA FinalizeKeeps ==
    ASSUME OInv, NEW r \in Runs, NEW outcome \in Outcomes, Finalize(r, outcome)
    PROVE  StoredInv(history', alerts', deliveries') /\ FinalKept(deliveries, deliveries')
<1> DEFINE start == IF history[r].state = "absent" THEN clock ELSE history[r].startedAt
           row == [state |-> "closed", outcome |-> outcome, startedAt |-> start, failedAt |-> clock]
           closed == [history EXCEPT ![r] = row]
           alert == NewAlert(r, outcome)
           alerted == [alerts EXCEPT ![r] = IF @ = "none" THEN alert ELSE @]
<1>1. OutboxTypeOK /\ Alerted(history, alerts) /\ Delivered(alerts, deliveries)
    BY DEF OInv
<1>2. StoredTyped(history, alerts, deliveries)
    BY <1>1 DEF OutboxTypeOK, StoredTyped
<1>3. closed \in [Runs -> History]
    <2>1. start \in Times
        BY <1>1, <1>2 DEF OutboxTypeOK, StoredTyped, History
    <2>2. row \in History
        <3> HIDE DEF start
        <3> QED BY <1>1, <2>1 DEF OutboxTypeOK, History
    <2> HIDE DEF row
    <2> QED BY <1>2, <2>2 DEF StoredTyped
<1>4. /\ closed[r].outcome = outcome
      /\ \A q \in Runs \ {r} : closed[q] = history[q]
    BY <1>2 DEF StoredTyped
<1>5. FinalKept(deliveries, deliveries)
    BY DEF FinalKept
<1>6. CASE history[r].state = "closed"
    <2>1. UNCHANGED stored
        BY <1>6 DEF Finalize
    <2> QED BY <1>1, <1>2, <1>5, <2>1 DEF stored, StoredInv
<1>7. CASE history[r].state # "closed" /\ ~Alertable(outcome)
    <2>1. CommitHistory(closed, alerts, deliveries)
        BY <1>7 DEF Finalize
    <2> HIDE DEF closed
    <2>2. StoredTyped(closed, alerts, deliveries)
        BY <1>2, <1>3 DEF StoredTyped
    <2>3. Alerted(closed, alerts)
        BY <1>1, <1>4, <1>7 DEF Alerted
    <2>4. StoredInv(closed, alerts, deliveries)
        BY <1>1, <2>2, <2>3 DEF StoredInv
    <2> QED BY <1>1, <1>5, <2>1, <2>4, CommitKeeps
<1>8. CASE history[r].state # "closed" /\ Alertable(outcome)
    <2>1. CommitHistory(closed, alerted, WithDeliveries(r, alert))
        BY <1>8 DEF Finalize
    <2>2. /\ alert \in AlertStates \ {"none"}
          /\ alert = "DELIVER" => settings.enabled
        BY DEF NewAlert, AlertStates
    <2> HIDE DEF closed, alert
    <2>3. /\ WithDeliveries(r, alert) \in [Rows -> Delivery]
          /\ \A place \in Rows : deliveries[place].state # "none" =>
                 WithDeliveries(r, alert)[place] = deliveries[place]
          /\ settings.enabled => \E i \in Slots : WithDeliveries(r, alert)[<<r, i>>].state # "none"
        BY <1>1, <2>2, WithDeliveriesKeeps
    <2>4. /\ alerted \in [Runs -> AlertStates] /\ alerted[r] # "none"
          /\ \A q \in Runs : alerts[q] # "none" => alerted[q] = alerts[q]
          /\ \A q \in Runs \ {r} : alerted[q] = alerts[q]
        BY <1>2, <2>2 DEF StoredTyped
    <2>5. alerted[r] = "DELIVER" => alerts[r] = "DELIVER" \/ settings.enabled
        BY <1>2, <2>2 DEF StoredTyped
    <2> HIDE DEF alerted
    <2>6. StoredTyped(closed, alerted, WithDeliveries(r, alert))
        BY <1>3, <2>3, <2>4 DEF StoredTyped
    <2>7. Alerted(closed, alerted)
        BY <1>1, <1>4, <2>4 DEF Alerted
    <2>8. Delivered(alerted, WithDeliveries(r, alert))
        <3> SUFFICES ASSUME NEW q \in Runs, alerted[q] = "DELIVER"
                     PROVE  \E i \in Slots : WithDeliveries(r, alert)[<<q, i>>].state # "none"
            BY DEF Delivered
        <3>1. CASE alerts[q] = "DELIVER"
            <4>1. PICK i \in Slots : deliveries[<<q, i>>].state # "none"
                BY <1>1, <3>1 DEF Delivered
            <4>2. <<q, i>> \in Rows
                BY DEF Rows
            <4> QED BY <2>3, <4>1, <4>2
        <3>2. CASE alerts[q] # "DELIVER"
            <4>1. q = r
                BY <2>4, <3>2
            <4>2. settings.enabled
                BY <2>5, <3>2, <4>1, Zenon
            <4> QED BY <2>3, <4>1, <4>2, Zenon
        <3> QED BY <3>1, <3>2
    <2>9. FinalKept(deliveries, WithDeliveries(r, alert))
        BY <2>3 DEF FinalKept, FinalStates
    <2> QED BY <1>1, <2>1, <2>6, <2>7, <2>8, <2>9, CommitKeeps DEF StoredInv
<1> QED BY <1>6, <1>7, <1>8

\* A transaction on the deliveries alone that removes none and changes none that has ended.
LEMMA DeliveriesKeep ==
    ASSUME OInv, UNCHANGED <<history, alerts>>, deliveries' \in [Rows -> Delivery],
           \A row \in Rows : deliveries[row].state # "none" => deliveries'[row].state # "none",
           FinalKept(deliveries, deliveries')
    PROVE  StoredInv(history', alerts', deliveries') /\ FinalKept(deliveries, deliveries')
<1>1. StoredTyped(history', alerts', deliveries') /\ Alerted(history', alerts')
    BY DEF OInv, OutboxTypeOK, StoredTyped, Alerted
<1>2. Delivered(alerts', deliveries')
    BY DEF OInv, Delivered, Rows
<1> QED BY <1>1, <1>2 DEF StoredInv

\* A step that leaves the stored rows alone.
LEMMA StoredKept ==
    ASSUME OInv, UNCHANGED stored
    PROVE  StoredInv(history', alerts', deliveries') /\ FinalKept(deliveries, deliveries')
BY DEF OInv, OutboxTypeOK, stored, StoredInv, StoredTyped, FinalKept

-----------------------------------------------------------------------------
(* Each action keeps the invariant. *)

\* The variables beside the stored rows.
RestTyped ==
    /\ clock \in Times
    /\ settings \in Menu
    /\ supervised \subseteq Runs /\ toSeal \subseteq Runs
    /\ phase \in {"starting", "up", "stopping"}
    /\ worker \in [at : {"idle", "listing", "next", "sending", "recording"}, passAt : Times,
                   due : SUBSET Rows, row : Rows \cup {<<>>}, sentAt : Times, ok : BOOLEAN]
    /\ worker.at \in {"sending", "recording"} => worker.row \in worker.due
    /\ clerk \in [row : Rows \cup {<<>>}, since : Times, until : Nat]
    /\ mails \in [Rows -> Nat]
    /\ mishaps \in 0..MaxMishaps

LEMMA TypeParts == OutboxTypeOK <=> RestTyped /\ StoredTyped(history, alerts, deliveries)
BY DEF OutboxTypeOK, RestTyped, StoredTyped

\* What a step has to show.
Kept == RestTyped' /\ StoredInv(history', alerts', deliveries') /\ FinalKept(deliveries, deliveries')

LEMMA RunsKeep ==
    ASSUME OInv, NEW r \in Runs,
           Accept(r) \/ Save(r) \/ Finish(r) \/ FinishUnwritten(r) \/ RecordSkipped(r)
    PROVE  Kept
<1>1. OutboxTypeOK /\ Alerted(history, alerts) /\ Delivered(alerts, deliveries)
    BY DEF OInv
<1>2. RestTyped /\ StoredTyped(history, alerts, deliveries)
    BY <1>1, TypeParts
<1>3. FinalKept(deliveries, deliveries)
    BY DEF FinalKept
<1>4. CASE Accept(r)
    <2> DEFINE opened == [history EXCEPT ![r].state = "open", ![r].startedAt = clock]
    <2>1. CommitHistory(opened, alerts, deliveries)
        BY <1>4 DEF Accept
    <2>2. opened \in [Runs -> History]
        BY <1>2, ZenonT(60) DEF StoredTyped, History, RestTyped
    <2>3. Alerted(opened, alerts)
        BY <1>1, <1>2 DEF Alerted, StoredTyped, History
    <2>4. StoredInv(opened, alerts, deliveries)
        BY <1>1, <1>2, <2>2, <2>3 DEF StoredInv, StoredTyped
    <2>5. RestTyped'
        BY <1>2, <1>4 DEF RestTyped, Accept
    <2> HIDE DEF opened
    <2> QED BY <1>1, <1>3, <2>1, <2>4, <2>5, CommitKeeps DEF Kept
<1>5. CASE Save(r)
    <2> DEFINE saved == [history EXCEPT ![r].state = IF @ = "closed" THEN "open" ELSE @,
                                        ![r].outcome = "none", ![r].failedAt = Null]
    <2>1. CommitHistory(saved, alerts, deliveries)
        BY <1>5 DEF Save
    <2>2. saved \in [Runs -> History]
        <3>1. Null \in Times /\ "none" \in Outcomes \cup {"none"}
            BY OutboxAssumption DEF OutboxAssumption, Null, Times
        <3>2. (IF history[r].state = "closed" THEN "open" ELSE history[r].state)
                  \in {"absent", "open", "closed", "gone"}
            BY <1>2 DEF StoredTyped, History
        <3>3. history[r] \in History /\ history \in [Runs -> History]
            BY <1>2 DEF StoredTyped
        <3> QED BY <3>1, <3>2, <3>3 DEF History
    <2>3. Alerted(saved, alerts)
        BY <1>1, <1>2 DEF Alerted, StoredTyped, History
    <2>4. StoredInv(saved, alerts, deliveries)
        BY <1>1, <1>2, <2>2, <2>3 DEF StoredInv, StoredTyped
    <2>5. RestTyped'
        BY <1>2, <1>5 DEF RestTyped, Save
    <2> HIDE DEF saved
    <2> QED BY <1>1, <1>3, <2>1, <2>4, <2>5, CommitKeeps DEF Kept
<1>6. CASE Finish(r)
    <2>1. PICK outcome \in Outcomes : Finalize(r, outcome)
        BY <1>6 DEF Finish
    <2>2. RestTyped'
        BY <1>2, <1>6 DEF RestTyped, Finish
    <2> QED BY <2>1, <2>2, FinalizeKeeps DEF Kept
<1>7. CASE FinishUnwritten(r)
    <2>1. RestTyped'
        BY <1>2, <1>7 DEF RestTyped, FinishUnwritten
    <2> QED BY <1>7, <2>1, StoredKept DEF Kept, FinishUnwritten
<1>8. CASE RecordSkipped(r)
    <2>1. Finalize(r, "PREVIOUS_RUN_ACTIVE")
        BY <1>8 DEF RecordSkipped
    <2>2. RestTyped'
        BY <1>2, <1>8 DEF RestTyped, RecordSkipped
    <2> QED BY <2>1, <2>2, FinalizeKeeps DEF Kept, Outcomes
<1> QED BY <1>4, <1>5, <1>6, <1>7, <1>8

\* A resting worker and an administrator that does nothing are well typed.
LEMMA AtRest ==
    /\ Resting \in [at : {"idle", "listing", "next", "sending", "recording"}, passAt : Times,
                    due : SUBSET Rows, row : Rows \cup {<<>>}, sentAt : Times, ok : BOOLEAN]
    /\ NoClerk \in [row : Rows \cup {<<>>}, since : Times, until : Nat]
BY OutboxAssumption DEF OutboxAssumption, Resting, NoClerk, Null, Times

LEMMA ParentKeeps ==
    ASSUME OInv, Tick \/ Stop \/ Crash \/ Sealing PROVE Kept
<1>1. RestTyped
    BY TypeParts DEF OInv
<1>2. Incomplete \subseteq Runs
    BY DEF Incomplete
<1>3. ASSUME Reborn, mishaps' \in 0..MaxMishaps PROVE Kept
    <2>1. Resting.at = "idle"
        BY DEF Resting
    <2>2. RestTyped'
        BY <1>1, <1>2, <1>3, <2>1, AtRest DEF RestTyped, Reborn
    <2> QED BY <1>3, <2>2, StoredKept DEF Kept, Reborn
<1>4. CASE Tick
    <2>1. clock' \in Times
        BY <1>1, <1>4, OutboxAssumption DEF OutboxAssumption, Tick, RestTyped, Times
    <2>2. RestTyped'
        BY <1>1, <1>4, <2>1 DEF RestTyped, Tick
    <2> QED BY <1>4, <2>2, StoredKept DEF Kept, Tick
<1>5. CASE Stop
    <2>1. RestTyped'
        BY <1>1, <1>2, <1>5, OutboxAssumption DEF OutboxAssumption, RestTyped, Stop
    <2> QED BY <1>5, <2>1, StoredKept DEF Kept, Stop
<1>6. CASE Crash
    BY <1>1, <1>3, <1>6, OutboxAssumption DEF OutboxAssumption, Crash, RestTyped
<1>7. CASE Exit
    BY <1>1, <1>3, <1>7 DEF Exit, RestTyped
<1>8. CASE Sealed
    <2>1. RestTyped'
        BY <1>1, <1>8 DEF RestTyped, Sealed
    <2> QED BY <1>8, <2>1, StoredKept DEF Kept, Sealed
<1>9. ASSUME NEW r \in Runs, Seal(r) PROVE Kept
    <2>1. RestTyped'
        BY <1>1, <1>9 DEF RestTyped, Seal
    <2>2. Finalize(r, "FAILED") /\ "FAILED" \in Outcomes
        BY <1>9 DEF Seal, Outcomes
    <2> QED BY <2>1, <2>2, FinalizeKeeps DEF Kept
<1> QED BY <1>4, <1>5, <1>6, <1>7, <1>8, <1>9 DEF Sealing

LEMMA AdministratorKeeps ==
    ASSUME OInv, SaveSettings \/ (\E row \in Rows : AskRetry(row)) \/ Retry PROVE Kept
<1>1. RestTyped /\ StoredTyped(history, alerts, deliveries)
    BY TypeParts DEF OInv
<1>2. deliveries \in [Rows -> Delivery]
    BY <1>1 DEF StoredTyped
<1>3. CASE SaveSettings
    <2>1. PICK s \in Menu \ {settings} :
              /\ settings' = s
              /\ deliveries' = [row \in Rows |->
                     IF settings.enabled /\ ~s.enabled /\ deliveries[row].state = "PENDING"
                     THEN [deliveries[row] EXCEPT !.state = "NOT_SENT", !.nextAt = Null]
                     ELSE deliveries[row]]
        BY <1>3 DEF SaveSettings
    <2>2. RestTyped'
        BY <1>1, <1>3, <2>1 DEF RestTyped, SaveSettings
    <2> DEFINE off == settings.enabled /\ ~s.enabled
               ended(row) == [deliveries[row] EXCEPT !.state = "NOT_SENT", !.nextAt = Null]
    <2>3. \A row \in Rows : ended(row) \in Delivery /\ ended(row).state = "NOT_SENT"
        BY <1>2 DEF Delivery, Null
    <2>4. deliveries' = [row \in Rows |-> IF off /\ deliveries[row].state = "PENDING"
                                          THEN ended(row) ELSE deliveries[row]]
        BY <2>1
    <2> HIDE DEF off, ended
    <2>5. deliveries' \in [Rows -> Delivery]
        BY <1>2, <2>3, <2>4
    <2>6. \A row \in Rows : deliveries[row].state # "none" => deliveries'[row].state # "none"
        BY <2>3, <2>4
    <2>7. FinalKept(deliveries, deliveries')
        BY <2>4 DEF FinalKept, FinalStates
    <2> QED BY <1>3, <2>2, <2>5, <2>6, <2>7, DeliveriesKeep DEF Kept, SaveSettings
<1>4. CASE \E row \in Rows : AskRetry(row)
    <2>1. PICK row \in Rows : AskRetry(row)
        BY <1>4
    <2>2. settings.hours \in Nat
        BY SettingsShape DEF OInv
    <2>3. clock \in Nat
        BY <1>1, OutboxAssumption DEF OutboxAssumption, RestTyped, Times
    <2>4. Deadline(clock, settings.hours) \in Nat
        BY <2>2, <2>3, DeadlineIsNat
    <2>5. RestTyped'
        BY <1>1, <2>1, <2>4 DEF RestTyped, AskRetry
    <2> QED BY <2>1, <2>5, StoredKept DEF Kept, AskRetry
<1>5. CASE Retry
    <2>1. RestTyped'
        BY <1>1, <1>5, AtRest DEF RestTyped, Retry
    <2>2. CASE deliveries[clerk.row].state # "FAILED"
        BY <1>5, <2>1, <2>2, StoredKept DEF Kept, Retry, stored
    <2>3. CASE deliveries[clerk.row].state = "FAILED"
        <3> DEFINE again == [deliveries[clerk.row] EXCEPT
                                 !.state = "PENDING", !.nextAt = clerk.since,
                                 !.since = clerk.since, !.until = clerk.until]
        <3>1. clerk.since \in Times /\ clerk.since \in Nat /\ clerk.until \in Nat
            BY <1>1, OutboxAssumption DEF OutboxAssumption, RestTyped, Times
        <3>2. deliveries' = [deliveries EXCEPT ![clerk.row] = again]
            BY <1>5, <2>3 DEF Retry
        <3>3. clerk.row \in Rows => again \in Delivery /\ again.state = "PENDING"
            BY <1>2, <3>1 DEF Delivery
        <3> HIDE DEF again
        <3>4. deliveries' \in [Rows -> Delivery]
            BY <1>2, <3>2, <3>3
        <3>5. \A row \in Rows : deliveries[row].state # "none" => deliveries'[row].state # "none"
            BY <1>2, <3>2, <3>3
        <3>6. FinalKept(deliveries, deliveries')
            BY <1>2, <2>3, <3>2 DEF FinalKept, FinalStates
        <3> QED BY <1>5, <2>1, <3>4, <3>5, <3>6, DeliveriesKeep DEF Kept, Retry
    <2> QED BY <2>2, <2>3
<1> QED BY <1>3, <1>4, <1>5

\* What an attempt makes of a row is a row that has not vanished.
LEMMA AttemptedTypes ==
    ASSUME NEW delivery \in Delivery, NEW at \in Times, NEW ok \in BOOLEAN
    PROVE  Attempted(delivery, at, ok) \in Delivery /\ Attempted(delivery, at, ok).state # "none"
<1> DEFINE next == at + RetryDelay(delivery.attempts + 1)
           again == ~ok /\ next <= delivery.until
<1>1. at \in Nat
    BY OutboxAssumption DEF OutboxAssumption, Times
<1>2. delivery.attempts + 1 \in Nat \ {0}
    BY DEF Delivery
<1>3. next \in Nat
    BY <1>1, <1>2, DelayIsNat
<1>4. (IF again THEN next ELSE Null) \in Nat
    <2> HIDE DEF next, again
    <2> QED BY <1>3 DEF Null
<1>5. (IF ok THEN "SENT" ELSE IF again THEN "PENDING" ELSE "FAILED") \in {"SENT", "PENDING", "FAILED"}
    OBVIOUS
<1>6. Attempted(delivery, at, ok) =
          [delivery EXCEPT !.attempts = @ + 1, !.lastAt = at,
                           !.state = IF ok THEN "SENT" ELSE IF again THEN "PENDING" ELSE "FAILED",
                           !.nextAt = IF again THEN next ELSE Null]
    BY DEF Attempted
<1> HIDE DEF next, again
<1> QED
    <2> DEFINE state == IF ok THEN "SENT" ELSE IF again THEN "PENDING" ELSE "FAILED"
               nextAt == IF again THEN next ELSE Null
    <2>1. state \in {"SENT", "PENDING", "FAILED"} /\ nextAt \in Nat
        BY <1>4, <1>5
    <2>2. Attempted(delivery, at, ok) =
              [delivery EXCEPT !.attempts = @ + 1, !.lastAt = at, !.state = state, !.nextAt = nextAt]
        BY <1>6
    <2> HIDE DEF state, nextAt
    <2> QED BY <1>2, <2>1, <2>2 DEF Delivery

LEMMA WorkerKeeps ==
    ASSUME OInv, Worker \/ RecordUnwritten PROVE Kept
<1>1. RestTyped /\ StoredTyped(history, alerts, deliveries)
    BY TypeParts DEF OInv
<1>2. deliveries \in [Rows -> Delivery]
    BY <1>1 DEF StoredTyped
<1>3. CASE BeginPass
    <2> DEFINE expired(row) == [deliveries[row] EXCEPT !.state = "FAILED", !.nextAt = Null]
               overdue(row) == /\ deliveries[row].state = "PENDING" /\ deliveries[row].attempts > 0
                               /\ deliveries[row].until < clock
    <2>1. deliveries' = [row \in Rows |-> IF overdue(row) THEN expired(row) ELSE deliveries[row]]
        BY <1>3 DEF BeginPass
    <2>2. \A row \in Rows : expired(row) \in Delivery /\ expired(row).state = "FAILED"
        BY <1>2 DEF Delivery, Null
    <2>3. \A row \in Rows : overdue(row) => deliveries[row].state = "PENDING"
        OBVIOUS
    <2>4. RestTyped'
        BY <1>1, <1>3 DEF RestTyped, BeginPass
    <2> HIDE DEF expired, overdue
    <2>5. deliveries' \in [Rows -> Delivery]
        BY <1>2, <2>1, <2>2
    <2>6. \A row \in Rows : deliveries[row].state # "none" => deliveries'[row].state # "none"
        BY <2>1, <2>2
    <2>7. FinalKept(deliveries, deliveries')
        BY <2>1, <2>3 DEF FinalKept, FinalStates
    <2> QED BY <1>3, <2>4, <2>5, <2>6, <2>7, DeliveriesKeep DEF Kept, BeginPass
<1>4. CASE ListDue
    <2>1. worker' \in [at : {"next"}, passAt : Times, due : SUBSET Rows,
                       row : Rows \cup {<<>>}, sentAt : Times, ok : BOOLEAN]
        BY <1>4, AtRest DEF ListDue, Resting
    <2>2. RestTyped'
        BY <1>1, <1>4, <2>1 DEF RestTyped, ListDue
    <2> QED BY <1>4, <2>2, StoredKept DEF Kept, ListDue
<1>5. ASSUME NEW row \in Rows, TakeNext(row) PROVE Kept
    <2>1. RestTyped'
        BY <1>1, <1>5 DEF RestTyped, TakeNext
    <2> QED BY <1>5, <2>1, StoredKept DEF Kept, TakeNext
<1>6. ASSUME worker' = Resting, UNCHANGED <<clock, settings, stored, supervised, phase, toSeal, clerk, mails>>,
             mishaps' \in 0..MaxMishaps
      PROVE  Kept
    <2>1. Resting.at = "idle"
        BY DEF Resting
    <2>2. RestTyped'
        BY <1>1, <1>6, <2>1, AtRest DEF RestTyped
    <2> QED BY <1>6, <2>2, StoredKept DEF Kept
<1>7. CASE EndPass \/ RecordRefused \/ RecordUnwritten
    BY <1>1, <1>6, <1>7, OutboxAssumption
    DEF OutboxAssumption, RestTyped, EndPass, RecordRefused, RecordUnwritten
<1>8. CASE Transport
    <2>1. worker.row \in Rows
        BY <1>1, <1>8 DEF RestTyped, Transport
    <2>2. PICK accepted \in BOOLEAN, ok \in BOOLEAN :
              /\ mails' = [mails EXCEPT ![worker.row] = IF accepted THEN @ + 1 ELSE @]
              /\ worker' = [worker EXCEPT !.at = "recording", !.ok = ok]
        BY <1>8 DEF Transport
    <2>3. mails' \in [Rows -> Nat]
        BY <1>1, <2>1, <2>2 DEF RestTyped
    <2>4. RestTyped'
        BY <1>1, <1>8, <2>2, <2>3 DEF RestTyped, Transport
    <2> QED BY <1>8, <2>4, StoredKept DEF Kept, Transport
<1>9. CASE RecordAttempt
    <2> DEFINE recorded == Attempted(deliveries[worker.row], worker.sentAt, worker.ok)
    <2>1. worker.row \in Rows /\ worker.sentAt \in Times /\ worker.ok \in BOOLEAN
        BY <1>1, <1>9 DEF RestTyped, RecordAttempt
    <2>2. recorded \in Delivery /\ recorded.state # "none"
        BY <1>2, <2>1, AttemptedTypes
    <2>3. deliveries' = [deliveries EXCEPT ![worker.row] = recorded]
        BY <1>9 DEF RecordAttempt
    <2>4. worker' = [Resting EXCEPT !.at = "next", !.due = worker.due \ {worker.row}]
        BY <1>9 DEF RecordAttempt
    <2>5. worker' \in [at : {"next"}, passAt : Times, due : SUBSET Rows,
                       row : Rows \cup {<<>>}, sentAt : Times, ok : BOOLEAN]
        BY <1>1, <2>4, AtRest DEF RestTyped, Resting
    <2>6. RestTyped'
        BY <1>1, <1>9, <2>5 DEF RestTyped, RecordAttempt
    <2> HIDE DEF recorded
    <2>7. deliveries' \in [Rows -> Delivery]
        BY <1>2, <2>2, <2>3
    <2>8. \A row \in Rows : deliveries[row].state # "none" => deliveries'[row].state # "none"
        BY <1>2, <2>2, <2>3
    <2>9. FinalKept(deliveries, deliveries')
        BY <1>2, <1>9, <2>3 DEF FinalKept, FinalStates, RecordAttempt
    <2> QED BY <1>9, <2>6, <2>7, <2>8, <2>9, DeliveriesKeep DEF Kept, RecordAttempt
<1> QED BY <1>3, <1>4, <1>5, <1>7, <1>8, <1>9 DEF Worker

-----------------------------------------------------------------------------
(* The invariant, and what follows from it. *)

LEMMA OInvInit == OutboxInit => OInv
<1> SUFFICES ASSUME OutboxInit PROVE OInv
    OBVIOUS
<1>1. RestTyped
    BY AtRest, OutboxAssumption
    DEF OutboxAssumption, OutboxInit, RestTyped, Times, Resting
<1>2. NoHistory \in History /\ NoDelivery \in Delivery /\ NoHistory.state = "absent"
    BY OutboxAssumption
    DEF OutboxAssumption, NoHistory, NoDelivery, History, Delivery, Times, Null
<1>3. StoredTyped(history, alerts, deliveries)
    BY <1>2 DEF OutboxInit, StoredTyped, AlertStates
<1>4. Alerted(history, alerts) /\ Delivered(alerts, deliveries)
    BY <1>2 DEF OutboxInit, Alerted, Delivered
<1> QED BY <1>1, <1>3, <1>4, TypeParts DEF OInv

\* A step keeps the invariant, and the deliveries that have ended.
LEMMA OInvStep ==
    ASSUME OInv, [OutboxNext]_outboxVars
    PROVE  OInv' /\ FinalKept(deliveries, deliveries')
<1>1. CASE OutboxNext
    <2>1. Kept
        BY <1>1, RunsKeep, ParentKeeps, AdministratorKeeps, WorkerKeeps DEF OutboxNext
    <2>2. RestTyped' /\ StoredTyped(history', alerts', deliveries') => OutboxTypeOK'
        BY DEF OutboxTypeOK, RestTyped, StoredTyped
    <2> QED BY <2>1, <2>2 DEF Kept, StoredInv, OInv
<1>2. CASE UNCHANGED outboxVars
    BY <1>2 DEF OInv, OutboxTypeOK, Alerted, Delivered, FinalKept, outboxVars, stored
<1> QED BY <1>1, <1>2

LEMMA OInvHolds == OutboxSpec => []OInv
<1>1. OInv /\ [OutboxNext]_outboxVars => OInv'
    BY OInvStep
<1> QED BY OInvInit, <1>1, PTL DEF OutboxSpec

\* Every reachable state of the outbox is well typed.
THEOREM OutboxTyped == OutboxSpec => []OutboxTypeOK
<1>1. OInv => OutboxTypeOK
    BY DEF OInv
<1> QED BY <1>1, OInvHolds, PTL

\* No failure is silent, for any number of runs, recipients, restarts and changes of settings:
\* finalize, save, seal_incomplete and retention keep a closed failure together with its alert.
THEOREM NoSilentFailure == OutboxSpec => []FailureAlerted
<1>1. OInv => FailureAlerted
    BY DEF OInv, Alerted, Delivered, FailureAlerted
<1> QED BY <1>1, OInvHolds, PTL

\* SENT, NOT_SENT and SUPPRESSED are final: neither a worker nor an administrator that saw the row
\* before, nor a second finalize, makes anything else of it.
THEOREM EndedStays == OutboxSpec => FinalStays
<1>1. OInv /\ [OutboxNext]_outboxVars =>
          [\A row \in Rows :
              deliveries[row].state \in {"SENT", "NOT_SENT", "SUPPRESSED"} =>
                  deliveries'[row].state \in {deliveries[row].state, "none"}]_outboxVars
    BY OInvStep DEF FinalKept, FinalStates
<1> QED BY <1>1, OInvHolds, PTL DEF OutboxSpec, FinalStays

-----------------------------------------------------------------------------
(* What the rows of one run say about each other.  A run that retention took *)
(* stays gone: what a late supervisor still writes of it is older than        *)
(* retention allows and goes with the same transaction.                       *)

RunFacts(h, a, d) ==
    \A r \in Runs :
        /\ h[r].state = "absent" => a[r] = "none"
        /\ a[r] = "none" => \A i \in Slots : d[<<r, i>>].state = "none"
        /\ a[r] = "DELIVER" => \A i \in Slots : d[<<r, i>>].state # "SUPPRESSED"
        /\ h[r].state = "gone" => h[r].startedAt < clock - Retention
        /\ h[r].failedAt <= clock

\* A stop lets one message go unrecorded, in advance.
Owed == IF phase = "stopping" THEN 1 ELSE 0
Recording(row) == worker.at = "recording" /\ worker.row = row
Unrecorded(row) == IF deliveries[row].state = "NOT_SENT" \/ Recording(row) THEN 1 ELSE 0

MailFacts ==
    /\ phase = "stopping" => mishaps >= 1
    /\ worker.at \in {"idle", "listing"} => worker.due = {}
    /\ \A row \in worker.due :
         \/ deliveries[row].state \in {"PENDING", "NOT_SENT"}
         \/ deliveries[row].state = "none" /\ history[row[1]].state = "gone"
    /\ \A row \in Rows :
         /\ deliveries[row].state = "none" => mails[row] = 0 \/ history[row[1]].state = "gone"
         /\ deliveries[row].state = "SENT" \/ (Recording(row) /\ worker.ok) => mails[row] > 0
         /\ deliveries[row].state # "none" =>
              /\ mails[row] + Owed <= deliveries[row].attempts + mishaps + Unrecorded(row)
              /\ row \in worker.due /\ ~Recording(row) =>
                   mails[row] + Owed <= deliveries[row].attempts + mishaps

EInv == OInv /\ RunFacts(history, alerts, deliveries) /\ MailFacts /\ SpacedSkips

\* What retention takes in a transaction that would leave the history h.
Retired(h) == {r \in Runs : h[r].state \in {"open", "closed"} /\ h[r].startedAt < clock - Retention}

\* What a history transaction makes of the rows h, alerts a and deliveries d.
Committed(h, a, d) ==
    /\ \A r \in Retired(h) :
         /\ history'[r].state = "gone" /\ history'[r].startedAt < clock - Retention
         /\ history'[r].failedAt = h[r].failedAt
         /\ alerts'[r] = "none"
         /\ \A i \in Slots : deliveries'[<<r, i>>].state = "none"
    /\ \A r \in Runs \ Retired(h) :
         /\ history'[r] = h[r] /\ alerts'[r] = a[r]
         /\ \A i \in Slots : deliveries'[<<r, i>>] = d[<<r, i>>]

LEMMA CommitMoves ==
    ASSUME NEW h \in [Runs -> History], NEW a \in [Runs -> AlertStates], NEW d \in [Rows -> Delivery],
           CommitHistory(h, a, d)
    PROVE  Committed(h, a, d)
<1>1. /\ history' = [r \in Runs |-> IF r \in Retired(h) THEN [h[r] EXCEPT !.state = "gone"] ELSE h[r]]
      /\ alerts' = [r \in Runs |-> IF r \in Retired(h) THEN "none" ELSE a[r]]
      /\ deliveries' = [row \in Rows |-> IF row[1] \in Retired(h) THEN NoDelivery ELSE d[row]]
    BY DEF CommitHistory, Retired
<1>2. \A r \in Runs, i \in Slots : <<r, i>> \in Rows /\ <<r, i>>[1] = r
    BY DEF Rows
<1>3. ASSUME NEW r \in Retired(h)
      PROVE  /\ r \in Runs /\ h[r].startedAt < clock - Retention
             /\ [h[r] EXCEPT !.state = "gone"].state = "gone"
             /\ [h[r] EXCEPT !.state = "gone"].startedAt = h[r].startedAt
             /\ [h[r] EXCEPT !.state = "gone"].failedAt = h[r].failedAt
    BY <1>3 DEF Retired, History
<1>4. NoDelivery.state = "none"
    BY DEF NoDelivery
<1> QED BY <1>1, <1>2, <1>3, <1>4 DEF Committed

LEMMA CommitFacts ==
    ASSUME NEW h \in [Runs -> History], NEW a \in [Runs -> AlertStates], NEW d \in [Rows -> Delivery],
           CommitHistory(h, a, d), RunFacts(h, a, d), UNCHANGED clock
    PROVE  RunFacts(history, alerts, deliveries)'
<1>1. Committed(h, a, d)
    BY CommitMoves
<1> QED BY <1>1 DEF Committed, RunFacts

\* How a delivery may come out of a history transaction.
RowMoves(row) ==
    \/ deliveries'[row] = deliveries[row]
    \/ deliveries'[row].state = "none" /\ history'[row[1]].state = "gone"
    \/ /\ deliveries[row].state = "none" /\ history[row[1]].state # "gone"
       /\ deliveries'[row].attempts = 0
       /\ deliveries'[row].state \in {"PENDING", "NOT_SENT", "SUPPRESSED"}
Moves ==
    /\ \A row \in Rows : RowMoves(row)
    /\ \A r \in Runs : history[r].state = "gone" => history'[r].state = "gone"

LEMMA MovesKept ==
    ASSUME OInv, NEW h \in [Runs -> History], CommitHistory(h, alerts, deliveries),
           \A r \in Runs : history[r].state = "gone" =>
               h[r].state = "gone" \/ r \in Retired(h)
    PROVE  Moves
<1>1. alerts \in [Runs -> AlertStates] /\ deliveries \in [Rows -> Delivery]
    BY DEF OInv, OutboxTypeOK
<1>2. Committed(h, alerts, deliveries)
    BY <1>1, CommitMoves
<1>3. \A row \in Rows : row = <<row[1], row[2]>> /\ row[1] \in Runs /\ row[2] \in Slots
    BY DEF Rows
<1> QED BY <1>2, <1>3 DEF Committed, Moves, RowMoves

\* A late supervisor or seal finds a run that retention took: its row goes again.
LEMMA GoneGoesAgain ==
    ASSUME OInv, RunFacts(history, alerts, deliveries), NEW r \in Runs, history[r].state = "gone",
           NEW h \in [Runs -> History], h[r].state \in {"open", "closed"},
           h[r].startedAt = history[r].startedAt
    PROVE  r \in Retired(h)
BY DEF RunFacts, Retired

LEMMA FinalizeMoves ==
    ASSUME OInv, RunFacts(history, alerts, deliveries), NEW r \in Runs, NEW outcome \in Outcomes,
           Finalize(r, outcome), UNCHANGED clock,
           outcome = "PREVIOUS_RUN_ACTIVE" => history[r].state = "absent"
    PROVE  RunFacts(history, alerts, deliveries)' /\ Moves
<1> DEFINE start == IF history[r].state = "absent" THEN clock ELSE history[r].startedAt
           ended == [state |-> "closed", outcome |-> outcome, startedAt |-> start, failedAt |-> clock]
           closed == [history EXCEPT ![r] = ended]
           alert == NewAlert(r, outcome)
           alerted == [alerts EXCEPT ![r] = IF @ = "none" THEN alert ELSE @]
           W == WithDeliveries(r, alert)
<1>1. /\ history \in [Runs -> History] /\ alerts \in [Runs -> AlertStates]
      /\ deliveries \in [Rows -> Delivery] /\ clock \in Times /\ clock \in Nat
    BY OutboxAssumption DEF OutboxAssumption, OInv, OutboxTypeOK, Times
<1>2. ended \in History
    <2>1. start \in Times
        BY <1>1 DEF History
    <2> HIDE DEF start
    <2> QED BY <1>1, <2>1 DEF History
<1>3. closed \in [Runs -> History]
    <2> HIDE DEF ended
    <2> QED BY <1>1, <1>2
<1>4. /\ closed[r].state = "closed" /\ closed[r].failedAt = clock
      /\ history[r].state # "absent" => closed[r].startedAt = history[r].startedAt
      /\ \A q \in Runs \ {r} : closed[q] = history[q]
    BY <1>1
<1>5. \A q \in Runs : history[q].state = "gone" => closed[q].state = "gone" \/ q \in Retired(closed)
    <2> HIDE DEF closed
    <2> QED BY <1>3, <1>4, GoneGoesAgain
<1>6. CASE history[r].state = "closed"
    <2>1. UNCHANGED stored
        BY <1>6 DEF Finalize
    <2> QED BY <2>1 DEF stored, RunFacts, Moves, RowMoves
<1>7. CASE history[r].state # "closed" /\ ~Alertable(outcome)
    <2>1. CommitHistory(closed, alerts, deliveries)
        BY <1>7 DEF Finalize
    <2> HIDE DEF closed
    <2>2. RunFacts(closed, alerts, deliveries)
        BY <1>1, <1>4 DEF RunFacts
    <2> QED BY <1>1, <1>3, <1>5, <2>1, <2>2, CommitFacts, MovesKept
<1>8. CASE history[r].state # "closed" /\ Alertable(outcome)
    <2>1. CommitHistory(closed, alerted, W)
        BY <1>8 DEF Finalize
    <2>2. /\ alert \in {"NOT_SENT", "SUPPRESSED", "DELIVER"}
          /\ alert = "SUPPRESSED" => alerts[r] = "none"
        BY DEF NewAlert, RunFacts
    <2>3. /\ W \in [Rows -> Delivery]
          /\ \A row \in Rows : deliveries[row].state # "none" => W[row] = deliveries[row]
        BY <2>2, WithDeliveriesKeeps DEF OInv, AlertStates
    <2>4. \A row \in Rows : W[row] # deliveries[row] =>
              /\ row[1] = r /\ deliveries[row].state = "none" /\ W[row].attempts = 0
              /\ W[row].state = IF alert = "DELIVER" THEN "PENDING" ELSE alert
        BY <2>2 DEF WithDeliveries, NewDelivery, NoDelivery
    <2>5. /\ alerted \in [Runs -> AlertStates] /\ alerted[r] # "none"
          /\ alerted[r] = IF alerts[r] = "none" THEN alert ELSE alerts[r]
          /\ \A q \in Runs \ {r} : alerted[q] = alerts[q]
        BY <1>1, <2>2 DEF AlertStates
    <2>6. \A q \in Runs, i \in Slots : <<q, i>> \in Rows /\ <<q, i>>[1] = q
        BY DEF Rows
    <2> HIDE DEF closed, alerted, W, alert
    <2>7. RunFacts(closed, alerted, W)
        <3>1. ASSUME NEW q \in Runs \ {r}
              PROVE  closed[q] = history[q] /\ alerted[q] = alerts[q] /\ \A i \in Slots : W[<<q, i>>] = deliveries[<<q, i>>]
            BY <1>4, <2>4, <2>5, <2>6
        <3>2. ASSUME NEW i \in Slots, alerted[r] = "DELIVER" PROVE W[<<r, i>>].state # "SUPPRESSED"
            BY <2>2, <2>4, <2>5, <2>6, <3>2 DEF RunFacts
        <3> QED BY <1>1, <1>4, <2>5, <3>1, <3>2 DEF RunFacts
    <2>8. RunFacts(history, alerts, deliveries)'
        BY <1>3, <2>1, <2>3, <2>5, <2>7, CommitFacts
    <2>9. Committed(closed, alerted, W)
        BY <1>3, <2>1, <2>3, <2>5, CommitMoves
    <2>10. ASSUME NEW row \in Rows PROVE RowMoves(row)
        <3>1. row = <<row[1], row[2]>> /\ row[1] \in Runs /\ row[2] \in Slots
            BY DEF Rows
        <3>2. CASE row[1] \in Retired(closed)
            BY <2>9, <3>1, <3>2 DEF RowMoves, Committed
        <3>3. CASE row[1] \notin Retired(closed)
            <4>1. deliveries'[row] = W[row]
                BY <2>9, <3>1, <3>3 DEF Committed
            <4>2. W[row] # deliveries[row] => history[row[1]].state # "gone"
                BY <1>4, <1>5, <2>4, <3>3
            <4> QED BY <2>2, <2>4, <4>1, <4>2 DEF RowMoves
        <3> QED BY <3>2, <3>3
    <2> QED BY <1>5, <2>8, <2>9, <2>10 DEF Moves, Committed
<1> QED BY <1>6, <1>7, <1>8

-----------------------------------------------------------------------------
(* Messages and the attempts that account for them. *)

LEMMA MailNumbers ==
    ASSUME OInv
    PROVE  /\ mishaps \in Nat /\ Owed \in {0, 1}
           /\ \A row \in Rows : mails[row] \in Nat /\ deliveries[row].attempts \in Nat
           /\ \A row \in Rows : row[1] \in Runs
           /\ worker.due \subseteq Rows
           /\ worker.at \in {"sending", "recording"} => worker.row \in worker.due /\ worker.row \in Rows
BY OutboxAssumption DEF OutboxAssumption, OInv, OutboxTypeOK, Delivery, Owed, Rows

\* The transactions that write history.
LEMMA MailsMove ==
    ASSUME OInv, MailFacts, Moves, UNCHANGED <<phase, worker, mails, mishaps>>
    PROVE  MailFacts'
<1>1. /\ Owed' = Owed /\ worker' = worker /\ mails' = mails /\ mishaps' = mishaps /\ phase' = phase
      /\ \A row : Recording(row)' <=> Recording(row)
    BY DEF Owed, Recording
<1>2. ASSUME NEW row \in Rows, deliveries'[row] = deliveries[row]
      PROVE  Unrecorded(row)' = Unrecorded(row)
    BY <1>1, <1>2 DEF Unrecorded
<1>3. ASSUME NEW row \in Rows, deliveries[row].state = "none", history[row[1]].state # "gone"
      PROVE  mails[row] = 0 /\ row \notin worker.due /\ ~Recording(row)
    BY <1>3, MailNumbers DEF MailFacts, Recording
<1>4. ASSUME NEW row \in Rows
      PROVE  /\ deliveries'[row].state = "none" => mails[row] = 0 \/ history'[row[1]].state = "gone"
             /\ deliveries'[row].state = "SENT" \/ (Recording(row) /\ worker.ok) => mails[row] > 0
             /\ row \in worker.due =>
                  \/ deliveries'[row].state \in {"PENDING", "NOT_SENT"}
                  \/ deliveries'[row].state = "none" /\ history'[row[1]].state = "gone"
    BY <1>3, <1>4, MailNumbers DEF MailFacts, Moves, RowMoves
<1>5. ASSUME NEW row \in Rows, deliveries'[row].state # "none"
      PROVE  /\ mails[row] + Owed <= deliveries'[row].attempts + mishaps + Unrecorded(row)'
             /\ row \in worker.due /\ ~Recording(row) =>
                  mails[row] + Owed <= deliveries'[row].attempts + mishaps
    <2>1. CASE deliveries'[row] = deliveries[row]
        BY <1>2, <1>5, <2>1 DEF MailFacts
    <2>2. CASE /\ deliveries[row].state = "none" /\ history[row[1]].state # "gone"
               /\ deliveries'[row].attempts = 0
        <3>1. mails[row] = 0 /\ Owed <= mishaps
            BY <1>3, <2>2, MailNumbers DEF MailFacts, Owed
        <3>2. Unrecorded(row)' \in {0, 1}
            BY DEF Unrecorded
        <3> QED BY <2>2, <3>1, <3>2, MailNumbers
    <2> QED BY <1>5, <2>1, <2>2 DEF Moves, RowMoves
<1> QED BY <1>1, <1>4, <1>5, MailNumbers DEF MailFacts

\* Steps that leave the deliveries, the messages and the pass of the worker alone.
LEMMA MailsQuiet ==
    ASSUME OInv, MailFacts, UNCHANGED <<stored, worker, mails>>,
           \/ mishaps' = mishaps /\ Owed' <= Owed
           \/ mishaps' = mishaps + 1,
           phase' = "stopping" => mishaps' >= 1
    PROVE  MailFacts'
<1>1. /\ worker' = worker /\ mails' = mails /\ history' = history /\ deliveries' = deliveries
      /\ \A row : (Recording(row)' <=> Recording(row)) /\ Unrecorded(row)' = Unrecorded(row)
    BY DEF stored, Recording, Unrecorded
<1>2. Owed' \in {0, 1} /\ \A row \in Rows : Unrecorded(row) \in {0, 1}
    BY DEF Owed, Unrecorded
<1> QED BY <1>1, <1>2, MailNumbers DEF MailFacts

\* The worker's pass is over; what it had sent and not recorded is paid for.
LEMMA MailsRested ==
    ASSUME OInv, MailFacts, UNCHANGED <<stored, mails>>, worker' = Resting, mishaps' \in Nat,
           phase' = "stopping" => mishaps' >= 1,
           \A row \in Rows :
               deliveries[row].state # "none" =>
                   mails[row] + Owed' <= deliveries[row].attempts + mishaps'
                       + (IF deliveries[row].state = "NOT_SENT" THEN 1 ELSE 0)
    PROVE  MailFacts'
<1>1. Resting.due = {} /\ Resting.at = "idle"
    BY DEF Resting
<1>2. /\ mails' = mails /\ history' = history /\ deliveries' = deliveries
      /\ \A row : ~Recording(row)'
      /\ \A row : Unrecorded(row)' = IF deliveries[row].state = "NOT_SENT" THEN 1 ELSE 0
    BY <1>1 DEF stored, Recording, Unrecorded
<1> QED BY <1>1, <1>2 DEF MailFacts

LEMMA MailsByParent ==
    ASSUME OInv, MailFacts,
           \/ Tick \/ Stop \/ Crash \/ Exit \/ Sealed \/ (\E row \in Rows : AskRetry(row))
           \/ (\E r \in Runs : FinishUnwritten(r)) \/ RecordUnwritten
    PROVE  MailFacts'
<1>0. /\ mishaps \in Nat /\ Owed \in {0, 1} /\ Owed' \in {0, 1}
      /\ \A row \in Rows : mails[row] \in Nat /\ deliveries[row].attempts \in Nat
      /\ \A row \in Rows : Unrecorded(row) \in {0, 1}
      /\ \A row \in Rows : deliveries[row].state = "NOT_SENT" => Unrecorded(row) = 1
    BY MailNumbers DEF Owed, Unrecorded
<1>1. CASE Tick \/ Sealed \/ (\E row \in Rows : AskRetry(row)) \/ (\E r \in Runs : FinishUnwritten(r))
    <2>1. UNCHANGED <<stored, worker, mails, mishaps>> /\ (phase' = phase \/ phase' = "up")
        BY <1>1 DEF Tick, Sealed, AskRetry, FinishUnwritten
    <2>2. Owed' <= Owed /\ (phase' = "stopping" => phase = "stopping")
        BY <2>1 DEF Owed
    <2>3. phase' = "stopping" => mishaps' >= 1
        BY <2>1, <2>2 DEF MailFacts
    <2> QED BY <2>1, <2>2, <2>3, MailsQuiet
<1>2. CASE Stop
    <2>1. UNCHANGED <<stored, worker, mails>> /\ mishaps' = mishaps + 1 /\ phase = "up"
        BY <1>2 DEF Stop
    <2>2. mishaps' >= 1
        BY <1>0, <2>1
    <2> QED BY <2>1, <2>2, MailsQuiet
<1>3. CASE Crash \/ Exit \/ RecordUnwritten
    <2>1. UNCHANGED <<stored, mails>> /\ worker' = Resting /\ mishaps' \in Nat
        BY <1>0, <1>3 DEF Crash, Exit, Reborn, RecordUnwritten
    <2>2. mishaps + Owed' + 1 <= mishaps' + Owed
        BY <1>0, <1>3 DEF Crash, Exit, Reborn, RecordUnwritten, Owed
    <2>3. phase' = "stopping" => mishaps' >= 1
        BY <1>0, <1>3 DEF Crash, Exit, Reborn, RecordUnwritten
    <2>4. ASSUME NEW row \in Rows, deliveries[row].state # "none"
          PROVE  mails[row] + Owed' <= deliveries[row].attempts + mishaps'
                     + (IF deliveries[row].state = "NOT_SENT" THEN 1 ELSE 0)
        <3>1. mails[row] + Owed <= deliveries[row].attempts + mishaps + Unrecorded(row)
            BY <2>4 DEF MailFacts
        <3> QED BY <1>0, <2>1, <2>2, <3>1
    <2> QED BY <2>1, <2>3, <2>4, MailsRested
<1> QED BY <1>1, <1>2, <1>3

\* A transaction on the deliveries alone, which removes and suppresses none.
DeliveriesOnly ==
    /\ UNCHANGED <<history, alerts, clock>>
    /\ \A row \in Rows :
         /\ deliveries'[row].state = "none" <=> deliveries[row].state = "none"
         /\ deliveries'[row].state = "SUPPRESSED" => deliveries[row].state = "SUPPRESSED"

LEMMA FactsKept ==
    ASSUME OInv, RunFacts(history, alerts, deliveries), DeliveriesOnly
    PROVE  RunFacts(history, alerts, deliveries)'
<1>1. \A r \in Runs, i \in Slots : <<r, i>> \in Rows
    BY DEF Rows
<1> QED BY <1>1 DEF RunFacts, DeliveriesOnly

LEMMA MailsByAdministrator ==
    ASSUME OInv, MailFacts, SaveSettings \/ Retry
    PROVE  MailFacts' /\ DeliveriesOnly
<1>0. deliveries \in [Rows -> Delivery] /\ worker.due \subseteq Rows
    BY DEF OInv, OutboxTypeOK
<1>1. /\ UNCHANGED <<clock, history, alerts, phase, worker, mails, mishaps>>
      /\ \A row : Recording(row)' <=> Recording(row)
      /\ Owed' = Owed
    BY DEF SaveSettings, Retry, Recording, Owed
<1>2. ASSUME NEW row \in Rows
      PROVE  /\ deliveries'[row].attempts = deliveries[row].attempts
             /\ \/ deliveries'[row] = deliveries[row]
                \/ deliveries[row].state = "PENDING" /\ deliveries'[row].state = "NOT_SENT"
                \/ deliveries[row].state = "FAILED" /\ deliveries'[row].state = "PENDING"
    <2>1. CASE SaveSettings
        <3>1. PICK s \in Menu : deliveries' = [place \in Rows |->
                  IF settings.enabled /\ ~s.enabled /\ deliveries[place].state = "PENDING"
                  THEN [deliveries[place] EXCEPT !.state = "NOT_SENT", !.nextAt = Null]
                  ELSE deliveries[place]]
            BY <2>1 DEF SaveSettings
        <3> QED BY <1>0, <3>1 DEF Delivery
    <2>2. CASE Retry
        <3> DEFINE again == [deliveries[clerk.row] EXCEPT
                                 !.state = "PENDING", !.nextAt = clerk.since,
                                 !.since = clerk.since, !.until = clerk.until]
        <3>1. \/ deliveries' = deliveries
              \/ deliveries[clerk.row].state = "FAILED" /\ deliveries' = [deliveries EXCEPT ![clerk.row] = again]
            BY <2>2 DEF Retry
        <3>2. clerk.row = row => again.state = "PENDING" /\ again.attempts = deliveries[row].attempts
            BY <1>0 DEF Delivery
        <3> HIDE DEF again
        <3> QED BY <1>0, <3>1, <3>2
    <2> QED BY <2>1, <2>2
<1>3. DeliveriesOnly
    BY <1>1, <1>2 DEF DeliveriesOnly
<1>4. ASSUME NEW row \in Rows
      PROVE  /\ Unrecorded(row)' \in {0, 1} /\ Unrecorded(row) \in {0, 1}
             /\ deliveries[row].state # "FAILED" => Unrecorded(row) <= Unrecorded(row)'
             /\ deliveries[row].state = "FAILED" => row \notin worker.due
             /\ deliveries[row].state = "FAILED" /\ ~Recording(row) => Unrecorded(row) = 0
             /\ Recording(row) => row \in worker.due
             /\ mails[row] \in Nat /\ deliveries[row].attempts \in Nat
    BY <1>1, <1>2, MailNumbers DEF Unrecorded, MailFacts, Recording
<1>5. Owed \in {0, 1} /\ mishaps \in Nat
    BY MailNumbers
<1>6. ASSUME NEW row \in Rows, deliveries[row].state # "none"
      PROVE  /\ mails[row] + Owed <= deliveries[row].attempts + mishaps + Unrecorded(row)'
             /\ row \in worker.due /\ ~Recording(row) =>
                    mails[row] + Owed <= deliveries[row].attempts + mishaps
    BY <1>4, <1>5, <1>6 DEF MailFacts
<1>7. ASSUME NEW row \in Rows
      PROVE  /\ deliveries'[row].state = "none" => mails[row] = 0 \/ history[row[1]].state = "gone"
             /\ deliveries'[row].state = "SENT" \/ (Recording(row) /\ worker.ok) => mails[row] > 0
             /\ row \in worker.due =>
                  \/ deliveries'[row].state \in {"PENDING", "NOT_SENT"}
                  \/ deliveries'[row].state = "none" /\ history[row[1]].state = "gone"
             /\ deliveries'[row].state # "none" => deliveries[row].state # "none"
    BY <1>2, <1>4, <1>7 DEF MailFacts
<1>8. MailFacts'
    BY <1>0, <1>1, <1>2, <1>6, <1>7 DEF MailFacts
<1> QED BY <1>3, <1>8

\* What an attempt counts, and when it ends a delivery as sent.
LEMMA AttemptedCounts ==
    ASSUME NEW delivery \in Delivery, NEW at, NEW ok \in BOOLEAN
    PROVE  /\ Attempted(delivery, at, ok).attempts = delivery.attempts + 1
           /\ Attempted(delivery, at, ok).state \in {"SENT", "PENDING", "FAILED"}
           /\ Attempted(delivery, at, ok).state = "SENT" => ok
<1> DEFINE next == at + RetryDelay(delivery.attempts + 1)
           again == ~ok /\ next <= delivery.until
           state == IF ok THEN "SENT" ELSE IF again THEN "PENDING" ELSE "FAILED"
           nextAt == IF again THEN next ELSE Null
<1>1. Attempted(delivery, at, ok) =
          [delivery EXCEPT !.attempts = @ + 1, !.lastAt = at, !.state = state, !.nextAt = nextAt]
    BY DEF Attempted
<1>2. state \in {"SENT", "PENDING", "FAILED"} /\ (state = "SENT" => ok)
    <2> HIDE DEF again
    <2> QED OBVIOUS
<1> HIDE DEF state, nextAt
<1> QED BY <1>1, <1>2 DEF Delivery

LEMMA MailsByWorker ==
    ASSUME OInv, MailFacts, Worker
    PROVE  MailFacts' /\ DeliveriesOnly
<1>0. /\ deliveries \in [Rows -> Delivery] /\ mails \in [Rows -> Nat]
      /\ mishaps \in Nat /\ Owed \in {0, 1} /\ worker.due \subseteq Rows
      /\ \A row \in Rows : mails[row] \in Nat /\ deliveries[row].attempts \in Nat
      /\ worker.at \in {"sending", "recording"} => worker.row \in worker.due /\ worker.row \in Rows
      /\ Resting.due = {} /\ Resting.at = "idle"
      /\ worker \in [at : {"idle", "listing", "next", "sending", "recording"}, passAt : Times,
                     due : SUBSET Rows, row : Rows \cup {<<>>}, sentAt : Times, ok : BOOLEAN]
    BY MailNumbers DEF OInv, OutboxTypeOK, Resting
<1>1. UNCHANGED <<clock, history, alerts, phase, mishaps>> /\ Owed' = Owed
    BY DEF Worker, BeginPass, ListDue, TakeNext, EndPass, Transport, RecordAttempt, RecordRefused, stored, Owed
<1>2. ASSUME UNCHANGED deliveries PROVE DeliveriesOnly
    BY <1>1, <1>2 DEF DeliveriesOnly
<1>3. CASE BeginPass
    <2>1. /\ worker.at = "idle" /\ worker'.at = "listing" /\ worker'.due = {} /\ mails' = mails
        BY <1>0, <1>3 DEF BeginPass, MailFacts
    <2>2. ASSUME NEW row \in Rows
          PROVE  /\ deliveries'[row].attempts = deliveries[row].attempts
                 /\ \/ deliveries'[row].state = deliveries[row].state
                    \/ deliveries[row].state = "PENDING" /\ deliveries'[row].state = "FAILED"
                 /\ Unrecorded(row)' = Unrecorded(row) /\ ~Recording(row) /\ ~Recording(row)'
        <3>1. deliveries'[row] = deliveries[row] \/
                  /\ deliveries[row].state = "PENDING"
                  /\ deliveries'[row] = [deliveries[row] EXCEPT !.state = "FAILED", !.nextAt = Null]
            BY <1>3 DEF BeginPass
        <3> QED BY <1>0, <2>1, <3>1 DEF Delivery, Unrecorded, Recording
    <2>3. DeliveriesOnly
        BY <1>1, <2>2 DEF DeliveriesOnly
    <2> QED BY <1>1, <2>1, <2>2, <2>3 DEF MailFacts
<1>4. CASE ListDue
    <2>1. /\ worker.at = "listing" /\ worker'.at = "next" /\ UNCHANGED <<deliveries, mails>>
          /\ \A row \in worker'.due : row \in Rows /\ deliveries[row].state = "PENDING"
        BY <1>4 DEF ListDue, Resting, DueDelivery, stored
    <2>2. \A row \in Rows : /\ Unrecorded(row)' = Unrecorded(row) /\ ~Recording(row) /\ ~Recording(row)'
                            /\ deliveries[row].state = "PENDING" => Unrecorded(row) = 0
        BY <2>1 DEF Unrecorded, Recording
    <2>3. \A row \in worker'.due : mails[row] + Owed <= deliveries[row].attempts + mishaps
        BY <1>0, <2>1, <2>2 DEF MailFacts
    <2> QED BY <1>1, <1>2, <2>1, <2>2, <2>3 DEF MailFacts
<1>5. CASE \E row \in Rows : TakeNext(row)
    <2>1. /\ worker.at = "next" /\ worker'.at = "sending" /\ worker'.due = worker.due
          /\ UNCHANGED <<deliveries, mails>>
        BY <1>0, <1>5 DEF TakeNext, stored
    <2>2. \A row \in Rows : Unrecorded(row)' = Unrecorded(row) /\ ~Recording(row) /\ ~Recording(row)'
        BY <2>1 DEF Unrecorded, Recording
    <2> QED BY <1>1, <1>2, <2>1, <2>2 DEF MailFacts
<1>6. CASE EndPass \/ RecordRefused
    <2>1. UNCHANGED <<stored, mails, phase, mishaps>> /\ worker' = Resting /\ UNCHANGED deliveries
        BY <1>6 DEF EndPass, RecordRefused, stored
    <2>2. ASSUME NEW row \in Rows, deliveries[row].state # "none"
          PROVE  Unrecorded(row) = IF deliveries[row].state = "NOT_SENT" THEN 1 ELSE 0
        BY <1>0, <1>6, <2>2 DEF EndPass, RecordRefused, Unrecorded, Recording, MailFacts
    <2>3. MailFacts'
        <3>1. phase' = "stopping" => mishaps' >= 1
            BY <2>1 DEF MailFacts
        <3>2. ASSUME NEW row \in Rows, deliveries[row].state # "none"
              PROVE  mails[row] + Owed' <= deliveries[row].attempts + mishaps'
                         + (IF deliveries[row].state = "NOT_SENT" THEN 1 ELSE 0)
            <4>1. mails[row] + Owed <= deliveries[row].attempts + mishaps + Unrecorded(row)
                BY <3>2 DEF MailFacts
            <4> QED BY <1>1, <2>2, <3>2, <4>1
        <3> QED BY <1>0, <2>1, <3>1, <3>2, MailsRested
    <2> QED BY <1>2, <2>1, <2>3
<1>7. CASE Transport
    <2>1. /\ worker.at = "sending" /\ worker'.at = "recording" /\ worker'.due = worker.due
          /\ worker'.row = worker.row /\ UNCHANGED deliveries /\ worker.row \in worker.due /\ worker.row \in Rows
        BY <1>0, <1>7 DEF Transport, stored
    <2>2. /\ mails'[worker.row] \in {mails[worker.row], mails[worker.row] + 1}
          /\ worker'.ok => mails'[worker.row] > 0
          /\ \A row \in Rows : row # worker.row => mails'[row] = mails[row]
        <3>1. PICK accepted \in BOOLEAN, ok \in BOOLEAN :
                  /\ ok => accepted
                  /\ mails' = [mails EXCEPT ![worker.row] = IF accepted THEN @ + 1 ELSE @]
                  /\ worker' = [worker EXCEPT !.at = "recording", !.ok = ok]
            BY <1>7 DEF Transport
        <3>2. worker'.ok = ok
            BY <1>0, <3>1
        <3> QED BY <1>0, <2>1, <3>1, <3>2
    <2>3. \A row \in Rows : /\ ~Recording(row) /\ (Recording(row)' <=> row = worker.row)
                            /\ row # worker.row => Unrecorded(row)' = Unrecorded(row)
                            /\ row = worker.row => Unrecorded(row)' = 1
        BY <2>1 DEF Unrecorded, Recording
    <2>4. ASSUME NEW row \in Rows, deliveries[row].state # "none"
          PROVE  /\ mails'[row] + Owed <= deliveries[row].attempts + mishaps + Unrecorded(row)'
                 /\ row \in worker.due /\ row # worker.row =>
                        mails'[row] + Owed <= deliveries[row].attempts + mishaps
        <3>1. mails[row] + Owed <= deliveries[row].attempts + mishaps + Unrecorded(row)
            BY <2>4 DEF MailFacts
        <3>2. row \in worker.due => mails[row] + Owed <= deliveries[row].attempts + mishaps
            BY <2>3, <2>4 DEF MailFacts
        <3> QED BY <1>0, <2>1, <2>2, <2>3, <3>1, <3>2
    <2>5. ASSUME NEW row \in Rows
          PROVE  /\ deliveries[row].state = "none" => mails'[row] = 0 \/ history[row[1]].state = "gone"
                 /\ deliveries[row].state = "SENT" => mails'[row] > 0
        BY <1>0, <2>1, <2>2 DEF MailFacts
    <2> QED BY <1>1, <1>2, <2>1, <2>2, <2>3, <2>4, <2>5 DEF MailFacts
<1>8. CASE RecordAttempt
    <2>0. PICK done \in Rows : done = worker.row
        BY <1>0, <1>8 DEF RecordAttempt
    <2>1. /\ worker.at = "recording" /\ done \in Rows /\ done \in worker.due
          /\ deliveries[done].state = "PENDING" /\ mails' = mails
          /\ worker'.at = "next" /\ worker'.due = worker.due \ {done}
        BY <1>0, <1>8, <2>0 DEF RecordAttempt, Resting
    <2>2. /\ deliveries'[done].attempts = deliveries[done].attempts + 1
          /\ deliveries'[done].state \in {"SENT", "PENDING", "FAILED"}
          /\ deliveries'[done].state = "SENT" => worker.ok
          /\ \A row \in Rows : row # done => deliveries'[row] = deliveries[row]
        <3>1. deliveries' = [deliveries EXCEPT ![done] = Attempted(deliveries[done], worker.sentAt, worker.ok)]
            BY <1>8, <2>0 DEF RecordAttempt
        <3>2. deliveries'[done] = Attempted(deliveries[done], worker.sentAt, worker.ok)
            BY <1>0, <2>1, <3>1
        <3>3. deliveries[done] \in Delivery
            BY <1>0, <2>1
        <3>4. worker.ok \in BOOLEAN
            BY <1>0
        <3> QED BY <1>0, <3>1, <3>2, <3>3, <3>4, AttemptedCounts
    <2>3. \A row \in Rows : /\ Recording(row) <=> row = done
                            /\ ~Recording(row)'
                            /\ row # done => Unrecorded(row)' = Unrecorded(row)
                            /\ Unrecorded(row)' \in {0, 1}
        BY <2>0, <2>1, <2>2 DEF Unrecorded, Recording
    <2>4. Unrecorded(done) = 1
        BY <2>1, <2>3 DEF Unrecorded
    <2>5. DeliveriesOnly
        BY <1>1, <2>1, <2>2 DEF DeliveriesOnly
    <2>6. ASSUME NEW row \in Rows, deliveries'[row].state # "none"
          PROVE  /\ mails[row] + Owed <= deliveries'[row].attempts + mishaps + Unrecorded(row)'
                 /\ row \in worker'.due => mails[row] + Owed <= deliveries'[row].attempts + mishaps
        <3>1. deliveries[row].state # "none"
            BY <2>5, <2>6 DEF DeliveriesOnly
        <3>2. /\ mails[row] + Owed <= deliveries[row].attempts + mishaps + Unrecorded(row)
              /\ row \in worker.due /\ row # done => mails[row] + Owed <= deliveries[row].attempts + mishaps
            BY <2>3, <3>1 DEF MailFacts
        <3>3. CASE row = done
            <4>1. mails[done] + Owed <= deliveries[done].attempts + mishaps + 1
                BY <2>4, <3>2, <3>3
            <4>2. /\ mails[done] \in Nat /\ Owed \in Nat /\ deliveries[done].attempts \in Nat
                  /\ mishaps \in Nat /\ deliveries'[done].attempts = deliveries[done].attempts + 1
                BY <1>0, <2>1, <2>2
            <4>3. mails[done] + Owed <= deliveries'[done].attempts + mishaps
                BY <4>1, <4>2
            <4>4. Unrecorded(done)' \in {0, 1}
                BY <2>1, <2>3
            <4>5. mails[done] + Owed <= deliveries'[done].attempts + mishaps + Unrecorded(done)'
                BY <4>2, <4>3, <4>4
            <4> QED BY <2>1, <3>3, <4>3, <4>5
        <3>4. CASE row # done
            BY <1>0, <2>1, <2>2, <2>3, <3>2, <3>4
        <3> QED BY <3>3, <3>4
    <2>7. ASSUME NEW row \in Rows
          PROVE  /\ deliveries'[row].state = "none" => mails[row] = 0 \/ history[row[1]].state = "gone"
                 /\ deliveries'[row].state = "SENT" => mails[row] > 0
        BY <2>1, <2>2, <2>3 DEF MailFacts
    <2>8. ASSUME NEW row \in worker'.due
          PROVE  \/ deliveries'[row].state \in {"PENDING", "NOT_SENT"}
                 \/ deliveries'[row].state = "none" /\ history[row[1]].state = "gone"
        BY <1>0, <2>1, <2>2 DEF MailFacts
    <2> QED BY <1>1, <2>1, <2>3, <2>5, <2>6, <2>7, <2>8 DEF MailFacts
<1> QED BY <1>3, <1>4, <1>5, <1>6, <1>7, <1>8 DEF Worker

-----------------------------------------------------------------------------
(* Skips that mail is sent for. *)

Skip(r) == alerts[r] = "DELIVER" /\ history[r].outcome = "PREVIOUS_RUN_ACTIVE"

LEMMA SpacedKept ==
    ASSUME SpacedSkips,
           \A r \in Runs : Skip(r)' => Skip(r) /\ history'[r].failedAt = history[r].failedAt
    PROVE  SpacedSkips'
BY DEF SpacedSkips, Skip

\* A history transaction after which no row is a skip that was none before.
LEMMA SpacedCommitted ==
    ASSUME SpacedSkips, NEW h \in [Runs -> History], NEW a \in [Runs -> AlertStates],
           NEW d \in [Rows -> Delivery], CommitHistory(h, a, d),
           \A r \in Runs : a[r] = "DELIVER" /\ h[r].outcome = "PREVIOUS_RUN_ACTIVE" =>
               Skip(r) /\ h[r].failedAt = history[r].failedAt
    PROVE  SpacedSkips'
<1>1. Committed(h, a, d)
    BY CommitMoves
<1> QED BY <1>1, SpacedKept DEF Committed, Skip

\* What Finalize commits, for one run and for the others.
LEMMA FinalizeCommits ==
    ASSUME OInv, NEW r \in Runs, NEW outcome \in Outcomes, Finalize(r, outcome), history[r].state # "closed"
    PROVE  \E h \in [Runs -> History] : \E a \in [Runs -> AlertStates] : \E d \in [Rows -> Delivery] :
             /\ CommitHistory(h, a, d)
             /\ h[r].outcome = outcome /\ h[r].failedAt = clock
             /\ a[r] = alerts[r] \/ (alerts[r] = "none" /\ a[r] = NewAlert(r, outcome))
             /\ \A q \in Runs \ {r} : h[q] = history[q] /\ a[q] = alerts[q]
<1> DEFINE start == IF history[r].state = "absent" THEN clock ELSE history[r].startedAt
           ended == [state |-> "closed", outcome |-> outcome, startedAt |-> start, failedAt |-> clock]
           closed == [history EXCEPT ![r] = ended]
           alert == NewAlert(r, outcome)
           alerted == [alerts EXCEPT ![r] = IF @ = "none" THEN alert ELSE @]
           W == WithDeliveries(r, alert)
<1>1. /\ history \in [Runs -> History] /\ alerts \in [Runs -> AlertStates]
      /\ deliveries \in [Rows -> Delivery] /\ clock \in Times
    BY DEF OInv, OutboxTypeOK
<1>2. ended \in History
    <2>1. start \in Times
        BY <1>1 DEF History
    <2> HIDE DEF start
    <2> QED BY <1>1, <2>1 DEF History
<1>3. closed \in [Runs -> History]
    <2> HIDE DEF ended
    <2> QED BY <1>1, <1>2
<1>4. closed[r].outcome = outcome /\ closed[r].failedAt = clock /\ \A q \in Runs \ {r} : closed[q] = history[q]
    BY <1>1
<1>5. alert \in AlertStates \ {"none"}
    BY DEF NewAlert, AlertStates
<1>6. W \in [Rows -> Delivery]
    BY <1>5, WithDeliveriesKeeps DEF OInv
<1>7. /\ alerted \in [Runs -> AlertStates]
      /\ alerted[r] = alerts[r] \/ (alerts[r] = "none" /\ alerted[r] = alert)
      /\ \A q \in Runs \ {r} : alerted[q] = alerts[q]
    <2> HIDE DEF alert
    <2> QED BY <1>1, <1>5
<1>8. CommitHistory(closed, alerted, W) \/ CommitHistory(closed, alerts, deliveries)
    BY DEF Finalize
<1> HIDE DEF closed, alerted, alert, W
<1>9. CASE CommitHistory(closed, alerted, W)
    BY <1>3, <1>4, <1>6, <1>7, <1>9, Zenon DEF alert
<1>10. CASE CommitHistory(closed, alerts, deliveries)
    BY <1>1, <1>3, <1>4, <1>10, Zenon
<1> QED BY <1>8, <1>9, <1>10

LEMMA SpacedByFinalize ==
    ASSUME OInv, RunFacts(history, alerts, deliveries), SpacedSkips,
           NEW r \in Runs, NEW outcome \in Outcomes, Finalize(r, outcome),
           outcome = "PREVIOUS_RUN_ACTIVE" => history[r].state = "absent"
    PROVE  SpacedSkips'
<1>0. /\ history \in [Runs -> History] /\ clock \in Nat /\ Hour \in Nat \ {0}
      /\ \A q \in Runs : history[q].failedAt \in Nat /\ history[q].failedAt <= clock
    BY OutboxAssumption DEF OutboxAssumption, OInv, OutboxTypeOK, RunFacts, History, Times
<1>1. CASE history[r].state = "closed"
    <2>1. UNCHANGED stored
        BY <1>1 DEF Finalize
    <2> QED BY <2>1, SpacedKept DEF stored, Skip
<1>2. CASE history[r].state # "closed"
    <2>1. PICK h \in [Runs -> History], a \in [Runs -> AlertStates], d \in [Rows -> Delivery] :
             /\ CommitHistory(h, a, d)
             /\ h[r].outcome = outcome /\ h[r].failedAt = clock
             /\ a[r] = alerts[r] \/ (alerts[r] = "none" /\ a[r] = NewAlert(r, outcome))
             /\ \A q \in Runs \ {r} : h[q] = history[q] /\ a[q] = alerts[q]
        BY <1>2, FinalizeCommits
    <2>2. CASE outcome # "PREVIOUS_RUN_ACTIVE" \/ a[r] # "DELIVER"
        <3>1. \A q \in Runs : a[q] = "DELIVER" /\ h[q].outcome = "PREVIOUS_RUN_ACTIVE" =>
                  Skip(q) /\ h[q].failedAt = history[q].failedAt
            BY <2>1, <2>2 DEF Skip
        <3> QED BY <2>1, <3>1, SpacedCommitted
    <2>3. CASE outcome = "PREVIOUS_RUN_ACTIVE" /\ a[r] = "DELIVER"
        <3>1. alerts[r] = "none" /\ NewAlert(r, outcome) = "DELIVER"
            BY <2>1, <2>3 DEF RunFacts
        <3>2. ~HasBusySkipCandidate(r, clock)
            BY <2>3, <3>1 DEF NewAlert
        <3>3. \A q \in Runs : Skip(q) /\ TaskOf[q] = TaskOf[r] => clock - history[q].failedAt >= Hour
            BY <1>0, <3>2 DEF HasBusySkipCandidate, Skip
        <3>4. Committed(h, a, d)
            BY <2>1, CommitMoves
        <3>5. \A q \in Runs : alerts'[q] = "DELIVER" => history'[q] = h[q] /\ a[q] = "DELIVER"
            BY <3>4 DEF Committed
        <3>6. \A q \in Runs : Skip(q)' =>
                  \/ q = r /\ history'[q].failedAt = clock
                  \/ q # r /\ Skip(q) /\ history'[q].failedAt = history[q].failedAt
            BY <2>1, <3>5 DEF Skip
        <3>7. ASSUME NEW p \in Runs, NEW q \in Runs, p # q, TaskOf[p] = TaskOf[q], Skip(p)', Skip(q)',
                     history'[p].failedAt <= history'[q].failedAt
              PROVE  history'[q].failedAt - history'[p].failedAt >= Hour
            <4>1. CASE p # r /\ q # r
                <5>1. /\ Skip(p) /\ Skip(q)
                      /\ history'[p].failedAt = history[p].failedAt /\ history'[q].failedAt = history[q].failedAt
                    BY <3>6, <3>7, <4>1
                <5> QED BY <3>7, <5>1 DEF SpacedSkips, Skip
            <4>2. CASE q = r
                BY <3>3, <3>6, <3>7, <4>2
            <4>3. CASE p = r
                BY <1>0, <3>3, <3>6, <3>7, <4>3
            <4> QED BY <4>1, <4>2, <4>3
        <3> QED BY <3>7 DEF SpacedSkips, Skip
    <2> QED BY <2>2, <2>3
<1> QED BY <1>1, <1>2

-----------------------------------------------------------------------------
(* Each action keeps the facts. *)

LEMMA FactsByRuns ==
    ASSUME EInv, NEW r \in Runs, Accept(r) \/ Save(r) \/ Finish(r) \/ RecordSkipped(r)
    PROVE  RunFacts(history, alerts, deliveries)' /\ MailFacts' /\ SpacedSkips'
<1>1. OInv /\ RunFacts(history, alerts, deliveries) /\ MailFacts /\ SpacedSkips
    BY DEF EInv
<1>2. UNCHANGED <<clock, phase, worker, mails, mishaps>>
    BY DEF Accept, Save, Finish, RecordSkipped
<1>3. /\ history \in [Runs -> History] /\ alerts \in [Runs -> AlertStates]
      /\ deliveries \in [Rows -> Delivery] /\ clock \in Times /\ clock \in Nat /\ Null \in Times
    BY <1>1, OutboxAssumption DEF OutboxAssumption, OInv, OutboxTypeOK, Times, Null
<1>4. ASSUME NEW h \in [Runs -> History], CommitHistory(h, alerts, deliveries),
             RunFacts(h, alerts, deliveries),
             \A q \in Runs : history[q].state = "gone" => h[q].state = "gone",
             \A q \in Runs : h[q].outcome = "PREVIOUS_RUN_ACTIVE" /\ alerts[q] = "DELIVER" =>
                 h[q].outcome = history[q].outcome /\ h[q].failedAt = history[q].failedAt
      PROVE  RunFacts(history, alerts, deliveries)' /\ MailFacts' /\ SpacedSkips'
    <2>1. RunFacts(history, alerts, deliveries)'
        BY <1>2, <1>3, <1>4, CommitFacts
    <2>2. Moves
        BY <1>1, <1>4, MovesKept
    <2>3. \A q \in Runs : alerts[q] = "DELIVER" /\ h[q].outcome = "PREVIOUS_RUN_ACTIVE" =>
              Skip(q) /\ h[q].failedAt = history[q].failedAt
        BY <1>4 DEF Skip
    <2>4. SpacedSkips'
        BY <1>1, <1>3, <1>4, <2>3, SpacedCommitted
    <2> QED BY <1>1, <1>2, <2>1, <2>2, <2>4, MailsMove
<1>5. CASE Accept(r)
    <2> DEFINE opened == [history EXCEPT ![r].state = "open", ![r].startedAt = clock]
    <2>1. CommitHistory(opened, alerts, deliveries) /\ history[r].state = "absent"
        BY <1>5 DEF Accept
    <2>2. opened \in [Runs -> History]
        BY <1>3 DEF History
    <2>3. /\ opened[r].state = "open" /\ opened[r].outcome = history[r].outcome
          /\ opened[r].failedAt = history[r].failedAt
          /\ \A q \in Runs \ {r} : opened[q] = history[q]
        BY <1>3 DEF History
    <2> HIDE DEF opened
    <2>4. RunFacts(opened, alerts, deliveries)
        BY <1>1, <2>1, <2>3 DEF RunFacts
    <2> QED BY <1>4, <2>1, <2>2, <2>3, <2>4
<1>6. CASE Save(r)
    <2> DEFINE saved == [history EXCEPT ![r].state = IF @ = "closed" THEN "open" ELSE @,
                                        ![r].outcome = "none", ![r].failedAt = Null]
    <2>1. CommitHistory(saved, alerts, deliveries)
        BY <1>6 DEF Save
    <2>2. (IF history[r].state = "closed" THEN "open" ELSE history[r].state)
              \in {"absent", "open", "closed", "gone"}
        BY <1>3 DEF History
    <2>3. saved \in [Runs -> History]
        <3>1. "none" \in Outcomes \cup {"none"} /\ history[r] \in History
            BY <1>3
        <3> QED BY <1>3, <2>2, <3>1 DEF History
    <2>4. /\ saved[r].state = IF history[r].state = "closed" THEN "open" ELSE history[r].state
          /\ saved[r].outcome = "none" /\ saved[r].failedAt = 0
          /\ saved[r].startedAt = history[r].startedAt
          /\ \A q \in Runs \ {r} : saved[q] = history[q]
        <3>1. history[r] \in History
            BY <1>3
        <3> QED BY <1>3, <3>1 DEF History, Null
    <2> HIDE DEF saved
    <2>5. RunFacts(saved, alerts, deliveries)
        BY <1>1, <1>3, <2>4 DEF RunFacts
    <2>6. \A q \in Runs : history[q].state = "gone" => saved[q].state = "gone"
        BY <2>4
    <2> QED BY <1>4, <2>1, <2>3, <2>4, <2>5, <2>6
<1>7. CASE Finish(r) \/ RecordSkipped(r)
    <2>1. PICK outcome \in Outcomes :
              Finalize(r, outcome) /\ (outcome = "PREVIOUS_RUN_ACTIVE" => history[r].state = "absent")
        BY <1>7 DEF Finish, RecordSkipped, Outcomes
    <2>2. RunFacts(history, alerts, deliveries)' /\ Moves
        BY <1>1, <1>2, <2>1, FinalizeMoves
    <2>3. SpacedSkips'
        BY <1>1, <2>1, SpacedByFinalize
    <2> QED BY <1>1, <1>2, <2>2, <2>3, MailsMove
<1> QED BY <1>5, <1>6, <1>7

LEMMA FactsBySeal ==
    ASSUME EInv, NEW r \in Runs, Seal(r)
    PROVE  RunFacts(history, alerts, deliveries)' /\ MailFacts' /\ SpacedSkips'
<1>1. OInv /\ RunFacts(history, alerts, deliveries) /\ MailFacts /\ SpacedSkips
    BY DEF EInv
<1>2. /\ UNCHANGED <<clock, phase, worker, mails, mishaps>>
      /\ Finalize(r, "FAILED") /\ "FAILED" \in Outcomes /\ "FAILED" # "PREVIOUS_RUN_ACTIVE"
    BY DEF Seal, Outcomes
<1>3. RunFacts(history, alerts, deliveries)' /\ Moves
    BY <1>1, <1>2, FinalizeMoves
<1>4. SpacedSkips'
    BY <1>1, <1>2, SpacedByFinalize
<1> QED BY <1>1, <1>2, <1>3, <1>4, MailsMove

\* Steps that write no row of history.
LEMMA FactsElsewhere ==
    ASSUME EInv,
           \/ Tick \/ Stop \/ Crash \/ Exit \/ Sealed \/ (\E row \in Rows : AskRetry(row))
           \/ (\E r \in Runs : FinishUnwritten(r)) \/ RecordUnwritten
           \/ SaveSettings \/ Retry \/ Worker
    PROVE  RunFacts(history, alerts, deliveries)' /\ MailFacts' /\ SpacedSkips'
<1>1. OInv /\ RunFacts(history, alerts, deliveries) /\ MailFacts /\ SpacedSkips
    BY DEF EInv
<1>2. ASSUME UNCHANGED <<history, alerts>> PROVE SpacedSkips'
    BY <1>1, <1>2 DEF SpacedSkips
<1>3. CASE SaveSettings \/ Retry \/ Worker
    <2>1. MailFacts' /\ DeliveriesOnly
        BY <1>1, <1>3, MailsByAdministrator, MailsByWorker
    <2>2. RunFacts(history, alerts, deliveries)'
        BY <1>1, <2>1, FactsKept
    <2> QED BY <1>2, <2>1, <2>2 DEF DeliveriesOnly
<1>4. CASE \/ Stop \/ Crash \/ Exit \/ Sealed \/ (\E row \in Rows : AskRetry(row))
           \/ (\E r \in Runs : FinishUnwritten(r)) \/ RecordUnwritten
    <2>1. UNCHANGED <<stored, clock>>
        BY <1>4 DEF Stop, Crash, Exit, Reborn, Sealed, AskRetry, FinishUnwritten, RecordUnwritten
    <2>2. RunFacts(history, alerts, deliveries)'
        BY <1>1, <2>1 DEF RunFacts, stored
    <2>3. MailFacts'
        BY <1>1, <1>4, MailsByParent
    <2> QED BY <1>2, <2>1, <2>2, <2>3 DEF stored
<1>5. CASE Tick
    <2>1. UNCHANGED stored /\ clock' = clock + 1
        BY <1>5 DEF Tick
    <2>2. clock \in Nat /\ Retention \in Nat
        BY <1>1, OutboxAssumption DEF OutboxAssumption, OInv, OutboxTypeOK, Times
    <2>3. \A r \in Runs : history[r].startedAt \in Nat /\ history[r].failedAt \in Nat
        BY <1>1, OutboxAssumption DEF OutboxAssumption, OInv, OutboxTypeOK, History, Times
    <2>4. RunFacts(history, alerts, deliveries)'
        BY <1>1, <2>1, <2>2, <2>3 DEF RunFacts, stored
    <2>5. MailFacts'
        BY <1>1, <1>5, MailsByParent
    <2> QED BY <1>2, <2>1, <2>4, <2>5 DEF stored
<1> QED BY <1>3, <1>4, <1>5

LEMMA EInvInit == OutboxInit => EInv
<1> SUFFICES ASSUME OutboxInit PROVE EInv
    OBVIOUS
<1>1. OInv
    BY OInvInit
<1>2. /\ clock = 0 /\ worker = Resting /\ phase = "up" /\ mishaps = 0
      /\ \A r \in Runs : history[r] = NoHistory /\ alerts[r] = "none"
      /\ \A row \in Rows : deliveries[row] = NoDelivery /\ mails[row] = 0
    BY DEF OutboxInit
<1>3. /\ NoHistory.state = "absent" /\ NoHistory.failedAt = 0 /\ NoDelivery.state = "none"
      /\ Resting.at = "idle" /\ Resting.due = {}
    BY DEF NoHistory, NoDelivery, Resting, Null
<1>4. RunFacts(history, alerts, deliveries)
    BY <1>2, <1>3 DEF RunFacts, Rows
<1>5. MailFacts
    BY <1>2, <1>3 DEF MailFacts, Recording
<1>6. SpacedSkips
    BY <1>2 DEF SpacedSkips
<1> QED BY <1>1, <1>4, <1>5, <1>6 DEF EInv

LEMMA EInvStep ==
    ASSUME EInv, [OutboxNext]_outboxVars PROVE EInv'
<1>1. OInv'
    BY OInvStep DEF EInv
<1>2. RunFacts(history, alerts, deliveries)' /\ MailFacts' /\ SpacedSkips'
    <2>1. CASE UNCHANGED outboxVars
        BY <2>1 DEF EInv, RunFacts, MailFacts, SpacedSkips, Recording, Unrecorded, Owed, outboxVars, stored
    <2>2. CASE OutboxNext
        BY <2>2, FactsByRuns, FactsBySeal, FactsElsewhere DEF OutboxNext, Sealing
    <2> QED BY <2>1, <2>2
<1> QED BY <1>1, <1>2 DEF EInv

LEMMA EInvHolds == OutboxSpec => []EInv
<1>1. EInv /\ [OutboxNext]_outboxVars => EInv'
    BY EInvStep
<1> QED BY EInvInit, <1>1, PTL DEF OutboxSpec

\* A mail too many is accounted for, whatever restarts, lost writes and switched-off settings come
\* between the SMTP server's answer and record_attempt: the invariant has to pay for a message in
\* advance when the parent stops, because Stop counts and the later exit does not.
THEOREM EveryMailAccounted == OutboxSpec => []MailsAccounted
<1>1. EInv => MailsAccounted
    <2> SUFFICES ASSUME EInv, NEW row \in Rows, deliveries[row].state # "none"
                 PROVE  /\ deliveries[row].state = "SENT" => mails[row] > 0
                        /\ mails[row] <= deliveries[row].attempts + mishaps
                            + (IF \/ deliveries[row].state = "NOT_SENT"
                                  \/ worker.at = "recording" /\ worker.row = row THEN 1 ELSE 0)
        BY DEF MailsAccounted
    <2>0. deliveries[row].state = "SENT" => mails[row] > 0
        BY DEF EInv, MailFacts
    <2>1. mails[row] + Owed <= deliveries[row].attempts + mishaps + Unrecorded(row)
        BY DEF EInv, MailFacts
    <2>2. /\ Owed \in {0, 1} /\ mishaps \in Nat /\ mails[row] \in Nat
          /\ deliveries[row].attempts \in Nat
        BY MailNumbers DEF EInv
    <2>3. Unrecorded(row) = IF \/ deliveries[row].state = "NOT_SENT"
                               \/ worker.at = "recording" /\ worker.row = row THEN 1 ELSE 0
        BY DEF Unrecorded, Recording
    <2> QED BY <2>0, <2>1, <2>2, <2>3
<1> QED BY <1>1, EInvHolds, PTL

\* The summary of an alert does not flatter: SENT says that the server took the mail of every
\* recipient, PARTIALLY_FAILED that it took one and that another was given up, for every list of
\* recipients and every order of the worker, the administrator and retention.
THEOREM SummaryHonest == OutboxSpec => []SummaryTrue
<1>1. ASSUME EInv, NEW r \in Runs,
             Summary(r) = "SENT" \/ Summary(r) = "PARTIALLY_FAILED"
      PROVE  alerts[r] = "DELIVER"
    BY <1>1 DEF Summary, EInv, OInv, OutboxTypeOK, AlertStates
<1>2. EInv => SummaryTrue
    <2> SUFFICES ASSUME EInv, NEW r \in Runs
                 PROVE  LET kept == {row \in Rows : row[1] = r /\ deliveries[row].state # "none"}
                        IN  /\ Summary(r) = "SENT" => \A row \in kept : mails[row] > 0
                            /\ Summary(r) = "PARTIALLY_FAILED" =>
                                   /\ \E row \in kept : mails[row] > 0
                                   /\ \E row \in kept : deliveries[row].state \in {"FAILED", "NOT_SENT"}
        BY DEF SummaryTrue
    <2> DEFINE kept == {row \in Rows : row[1] = r /\ deliveries[row].state # "none"}
               states == {deliveries[<<r, i>>].state : i \in Slots} \ {"none"}
    <2>1. /\ deliveries \in [Rows -> Delivery]
          /\ \A i \in Slots : <<r, i>> \in Rows /\ <<r, i>>[1] = r
          /\ \A row \in Rows : deliveries[row].state = "SENT" => mails[row] > 0
          /\ \A row \in Rows : row = <<row[1], row[2]>> /\ row[2] \in Slots
        BY DEF EInv, OInv, OutboxTypeOK, MailFacts, Rows
    <2>2. ASSUME Summary(r) = "SENT", NEW row \in kept PROVE mails[row] > 0
        <3>1. alerts[r] = "DELIVER"
            BY <1>1, <2>2
        <3>2. states = {"SENT"}
            BY <2>2, <3>1 DEF Summary
        <3>3. deliveries[row].state \in states
            BY <2>1, <2>2
        <3> QED BY <2>1, <3>2, <3>3
    <2>3. ASSUME Summary(r) = "PARTIALLY_FAILED"
          PROVE  /\ \E row \in kept : mails[row] > 0
                 /\ \E row \in kept : deliveries[row].state \in {"FAILED", "NOT_SENT"}
        <3>1. alerts[r] = "DELIVER"
            BY <1>1, <2>3
        <3>2. "SENT" \in states /\ "PENDING" \notin states /\ states # {"SENT"}
            BY <2>3, <3>1 DEF Summary
        <3>3. PICK i \in Slots : deliveries[<<r, i>>].state = "SENT"
            BY <3>2
        <3>4. PICK j \in Slots : deliveries[<<r, j>>].state \notin {"SENT", "none", "PENDING"}
            BY <3>2
        <3>5. deliveries[<<r, j>>].state \in {"FAILED", "NOT_SENT"}
            <4>1. deliveries[<<r, j>>].state # "SUPPRESSED"
                BY <3>1, <3>4 DEF EInv, RunFacts
            <4> QED BY <2>1, <3>4, <4>1 DEF Delivery
        <3>6. <<r, i>> \in kept /\ <<r, j>> \in kept
            BY <2>1, <3>3, <3>4
        <3> QED BY <2>1, <3>3, <3>5, <3>6
    <2> QED BY <2>2, <2>3
<1> QED BY <1>2, EInvHolds, PTL

\* A task whose runs are skipped every minute costs one mail an hour, for any number of runs and any
\* interleaving of the scheduler, supervisors and retention.
THEOREM SkipsSpaced == OutboxSpec => []SpacedSkips
<1>1. EInv => SpacedSkips
    BY DEF EInv
<1> QED BY <1>1, EInvHolds, PTL

=============================================================================
