---------------------------- MODULE Watch_proofs ----------------------------
(***************************************************************************)
(* For any set of frames, any OCR readings, any task index and any limits: *)
(* the watch loop's reports form a chain, its alerts keep their distance   *)
(* while nobody sets the wall clock, and it gives up at its limits only.   *)
(***************************************************************************)
EXTENDS WatchLimits, TLAPS

\* What `TasksCache::latest' leaves is a cache, and a refresh it stamps comes
\* Refresh or more after the one before.
LEMMA RefreshedType ==
  ASSUME TypeOK, NEW c \in Refreshed(cache)
  PROVE  /\ c \in [latest : Cached, last_refresh : Time]
         /\ c.last_refresh # cache.last_refresh /\ cache.last_refresh # Never
              => c.last_refresh - cache.last_refresh >= Refresh
<1>1. cache \in [latest : Cached, last_refresh : Time] /\ row \in Cached /\ clock \in Nat
  BY DEF TypeOK
<1>2. CASE c = cache
  BY <1>1, <1>2
<1>3. CASE ~IsFresh(cache) /\ c.last_refresh = clock
           /\ c \in [latest : Cached, last_refresh : Time]
  BY <1>1, <1>3, WatchAssumption DEF IsFresh, Time
<1>4. CASE /\ ~IsFresh(cache)
           /\ \E r \in LatestTask(cache.latest) : c = [latest |-> r, last_refresh |-> clock]
  <2>1. PICK r \in LatestTask(cache.latest) : c = [latest |-> r, last_refresh |-> clock]
    BY <1>4
  <2>2. r \in Cached
    BY <1>1 DEF LatestTask
  <2> QED BY <1>1, <1>3, <1>4, <2>1, <2>2 DEF Time
<1> QED BY <1>2, <1>4 DEF Refreshed

LEMMA ClassifyType ==
  ASSUME NEW text PROVE Classify(text) \in States \cup {"unknown"}
BY DEF Classify, States

-----------------------------------------------------------------------------
(* Type correctness *)

LEMMA InitType == Init => TypeOK
<1> SUFFICES ASSUME Init PROVE TypeOK
  OBVIOUS
<1>1. NoEvent \in Event
  BY DEF NoEvent, Event, Cached
<1> QED BY <1>1 DEF Init, TypeOK, Cached, Time

\* What handle_text does to the reports: nothing, or it starts one.
LEMMA HandleTextEffect ==
  ASSUME TypeOK, HandleText
  PROVE  \/ /\ pc' = "beat"
            /\ UNCHANGED <<prev_state, states_seen, last_sent, pending, alerted>>
         \/ \E new \in States :
              /\ new # prev_state /\ prev_state' = new
              /\ states_seen' = states_seen \cup {new}
              /\ pending' \in Event
              /\ pending'.from = prev_state /\ pending'.state = new
              /\ pending'.notified = IF Suppressed(new) THEN "limited" ELSE "allowed"
              /\ IF Suppressed(new)
                 THEN UNCHANGED <<last_sent, alerted>>
                 ELSE /\ last_sent' = [last_sent EXCEPT ![new] = wall]
                      /\ alerted' = [alerted EXCEPT ![new] = clock]
              /\ pc' \in {"send", "emit"}
<1>1. cache' \in [latest : Cached, last_refresh : Time]
  BY RefreshedType DEF HandleText
<1>2. PICK text : text \in ReadsAs[frame] /\
        LET new == Classify(text)
        IN IF new \in {"unknown", prev_state}
           THEN /\ pc' = "beat"
                /\ UNCHANGED <<prev_state, states_seen, last_sent, pending, alerted>>
           ELSE /\ prev_state' = new
                /\ states_seen' = states_seen \cup {new}
                /\ pending' = [from |-> prev_state, state |-> new,
                               confidence |-> Confidence(new, cache'.latest),
                               evidence |-> cache'.latest, task |-> NoRow,
                               notified |-> IF Suppressed(new) THEN "limited" ELSE "allowed"]
                /\ IF Suppressed(new)
                   THEN UNCHANGED <<last_sent, alerted>>
                   ELSE /\ last_sent' = [last_sent EXCEPT ![new] = wall]
                        /\ alerted' = [alerted EXCEPT ![new] = clock]
                /\ pc' = IF Notify = "telegram" THEN "send" ELSE "emit"
  BY DEF HandleText
<1> DEFINE new == Classify(text)
<1>3. CASE new \in {"unknown", prev_state}
  BY <1>2, <1>3
<1>4. CASE new \notin {"unknown", prev_state}
  <2>1. new \in States
    BY <1>4, ClassifyType
  <2>2. Confidence(new, cache'.latest) \in {"ocr", "ocr+tasks"}
    BY DEF Confidence
  <2> HIDE DEF new
  <2>3. pending' \in Event
    BY <1>1, <1>2, <1>4, <2>1, <2>2 DEF Event, TypeOK, Cached, new
  <2> QED BY <1>2, <1>4, <2>1, <2>3 DEF new
<1> QED BY <1>3, <1>4

LEMMA HandleTextType ==
  ASSUME TypeOK, HandleText PROVE TypeOK'
<1>1. cache' \in [latest : Cached, last_refresh : Time]
  BY RefreshedType DEF HandleText
<1>2. CASE UNCHANGED <<prev_state, states_seen, last_sent, pending, alerted>> /\ pc' = "beat"
  BY <1>1, <1>2 DEF HandleText, TypeOK, env
<1>3. CASE \E new \in States :
              /\ prev_state' = new /\ states_seen' = states_seen \cup {new}
              /\ pending' \in Event /\ pc' \in {"send", "emit"}
              /\ IF Suppressed(new)
                 THEN UNCHANGED <<last_sent, alerted>>
                 ELSE /\ last_sent' = [last_sent EXCEPT ![new] = wall]
                      /\ alerted' = [alerted EXCEPT ![new] = clock]
  <2>1. last_sent' \in [States -> Time] /\ alerted' \in [States -> Time]
    BY <1>3 DEF TypeOK, Time
  <2> QED BY <1>1, <1>3, <2>1 DEF HandleText, TypeOK, env
<1> QED BY <1>2, <1>3, HandleTextEffect

LEMMA NextType == TypeOK /\ [Next]_vars => TypeOK'
<1> SUFFICES ASSUME TypeOK, [Next]_vars PROVE TypeOK'
  OBVIOUS
<1>1. CASE Gate
  BY <1>1 DEF Gate, GateFailures, End, TypeOK, env
<1>2. CASE Capture
  BY <1>2 DEF Capture, End, AtLimit, Streak, TypeOK, env
<1>3. CASE CaptureFails
  BY <1>3 DEF CaptureFails, End, TypeOK, env
<1>4. CASE OcrError
  BY <1>4 DEF OcrError, End, AtLimit, TypeOK, env
<1>5. CASE HandleText
  BY <1>5, HandleTextType
<1>6. CASE SendAlert
  <2>1. cache' \in [latest : Cached, last_refresh : Time]
    BY <1>6, RefreshedType DEF SendAlert
  <2>2. pending' \in Event
    BY <1>6 DEF SendAlert, Sent, TypeOK, Event
  <2> QED BY <1>6, <2>1, <2>2 DEF SendAlert, TypeOK, env
<1>7. CASE Emit
  <2>1. cache' \in [latest : Cached, last_refresh : Time]
    BY <1>7, RefreshedType DEF Emit
  <2>2. event' \in Event
    BY <1>7, <2>1 DEF Emit, TypeOK, Event
  <2> QED BY <1>7, <2>1, <2>2 DEF Emit, TypeOK, env
<1>8. CASE Bottom
  BY <1>8 DEF Bottom, End, TypeOK, env
<1>9. CASE TimeUp
  BY <1>9 DEF TimeUp, End, TypeOK, env
<1>10. CASE ScreenChanges \/ IndexChanges \/ Tick \/ \E d \in WallSteps : SetWall(d)
  BY <1>10 DEF ScreenChanges, IndexChanges, Tick, SetWall, TypeOK, Cached, loop
<1>11. CASE UNCHANGED vars
  BY <1>11 DEF vars, env, TypeOK
<1> QED BY <1>1, <1>2, <1>3, <1>4, <1>5, <1>6, <1>7, <1>8, <1>9, <1>10, <1>11
        DEF Next, Watcher

\* Type correctness of the watch loop, for every instance.
THEOREM TypeCorrect == Spec => []TypeOK
BY InitType, NextType, PTL DEF Spec

-----------------------------------------------------------------------------
(* The reports *)

\* The state last reported was seen: what makes ReportedStateIsCurrent
\* inductive, since the heartbeat prints prev_state.
Reports == ReportedStateIsCurrent /\ prev_state \in states_seen \cup {"unknown"}

LEMMA InitReports == Init => Reports
BY DEF Init, Reports, ReportedStateIsCurrent, NoEvent

\* A report is started, sent, emitted; an emitted event continues the chain.
LEMMA NextReports ==
  ASSUME TypeOK, Reports, [Next]_vars
  PROVE  /\ Reports'
         /\ event' # event => event'.from = event.state /\ event'.state # event.state
<1> USE DEF Reports, ReportedStateIsCurrent
<1>1. CASE Gate
  BY <1>1 DEF Gate, End
<1>2. CASE Capture
  BY <1>2 DEF Capture, End
<1>3. CASE CaptureFails \/ TimeUp
  BY <1>3 DEF CaptureFails, TimeUp, End
<1>4. CASE OcrError
  BY <1>4 DEF OcrError, End
<1>5. CASE HandleText
  <2>1. pc = "ocr" /\ event' = event /\ beat' = beat
    BY <1>5 DEF HandleText
  <2> QED BY <1>5, <2>1, HandleTextEffect
<1>6. CASE SendAlert
  <2>1. pending'.from = pending.from /\ pending'.state = pending.state
    BY <1>6 DEF SendAlert, Sent, TypeOK, Event
  <2> QED BY <1>6, <2>1 DEF SendAlert
<1>7. CASE Emit
  <2>1. event'.from = pending.from /\ event'.state = pending.state
    BY <1>7 DEF Emit, TypeOK, Event
  <2> QED BY <1>7, <2>1 DEF Emit
<1>8. CASE Bottom
  BY <1>8 DEF Bottom, End
<1>9. CASE ScreenChanges \/ IndexChanges \/ Tick \/ \E d \in WallSteps : SetWall(d)
  BY <1>9 DEF ScreenChanges, IndexChanges, Tick, SetWall, loop
<1>10. CASE UNCHANGED vars
  BY <1>10 DEF vars
<1> QED BY <1>1, <1>2, <1>3, <1>4, <1>5, <1>6, <1>7, <1>8, <1>9, <1>10
        DEF Next, Watcher

\* The state the loop builds on is the state it last reported.
THEOREM ReportsAreCurrent == Spec => []ReportedStateIsCurrent
<1>1. TypeOK /\ Reports /\ [Next]_vars => Reports'
  BY NextReports
<1>2. Reports => ReportedStateIsCurrent
  BY DEF Reports
<1> QED BY InitReports, TypeCorrect, <1>1, <1>2, PTL DEF Spec

\* The printed events form a chain of transitions.
THEOREM EventsFormAChain == Spec => EventsChain
<1>1. TypeOK /\ Reports /\ [Next]_vars => Reports'
  BY NextReports
<1>2. TypeOK /\ Reports /\ [Next]_vars
      => [event' # event => event'.from = event.state /\ event'.state # event.state]_vars
  BY NextReports
<1> QED BY InitReports, TypeCorrect, <1>1, <1>2, PTL DEF Spec, EventsChain

-----------------------------------------------------------------------------
(* The limits *)

\* Before the end, the first uniform_streak captures of the record are black
\* and the next is not, and the same of the failures of OCR: what makes
\* GivesUpAtTheLimit inductive.
Counted ==
  /\ captures \in Captures /\ reads \in Reads
  /\ pc # "ended" =>
       /\ exit = "none"
       /\ uniform_streak < StreakLimit /\ ocr_errors < OcrLimit
       /\ \A i \in 1 .. uniform_streak : captures[i] = "black"
       /\ captures[uniform_streak + 1] # "black"
       /\ \A i \in 1 .. ocr_errors : reads[i] = "failed"
       /\ reads[ocr_errors + 1] # "failed"
  /\ pc = "gate" => captures[1] = "none"

Limits == Counted /\ GivesUpAtTheLimit

\* A capture, or an answer of OCR, is put in front of its record.
LEMMA CapturedEffect ==
  ASSUME captures \in Captures, NEW x \in {"black", "clear", "failed"}, Captured(x)
  PROVE  /\ captures' \in Captures /\ captures'[1] = x /\ reads' = reads
         /\ \A i \in 1 .. StreakLimit - 1 : captures'[i + 1] = captures[i]
<1>1. StreakLimit \in Nat \ {0}
  BY WatchAssumption
<1>2. captures' = [i \in 1 .. StreakLimit |-> IF i = 1 THEN x ELSE captures[i - 1]]
  BY DEF Captured, Pushed, Captures
<1>3. \A i \in 1 .. StreakLimit : i # 1 => i - 1 \in 1 .. StreakLimit
  BY <1>1
<1> QED BY <1>1, <1>2, <1>3 DEF Captured, Captures

LEMMA ReadEffect ==
  ASSUME reads \in Reads, NEW x \in {"text", "failed"}, Read(x)
  PROVE  /\ reads' \in Reads /\ reads'[1] = x /\ captures' = captures
         /\ \A i \in 1 .. OcrLimit - 1 : reads'[i + 1] = reads[i]
<1>1. OcrLimit \in Nat \ {0}
  BY WatchAssumption
<1>2. reads' = [i \in 1 .. OcrLimit |-> IF i = 1 THEN x ELSE reads[i - 1]]
  BY DEF Read, Pushed, Reads
<1>3. \A i \in 1 .. OcrLimit : i # 1 => i - 1 \in 1 .. OcrLimit
  BY <1>1
<1> QED BY <1>1, <1>2, <1>3 DEF Read, Reads

LEMMA InitLimits == RecordedInit => Limits
<1> SUFFICES ASSUME RecordedInit PROVE Limits
  OBVIOUS
<1>1. /\ captures \in Captures /\ captures[1] = "none"
      /\ reads \in Reads /\ reads[1] = "none"
  BY WatchAssumption DEF RecordedInit, Captures, Reads
<1>2. exit = "none" /\ uniform_streak = 0 /\ ocr_errors = 0
  BY DEF RecordedInit, Init
<1>3. Counted
  BY <1>1, <1>2, WatchAssumption DEF Counted
<1>4. ~Blackout /\ ~Unreadable
  BY <1>1, WatchAssumption DEF Blackout, Unreadable
<1> QED BY <1>2, <1>3, <1>4 DEF Limits, GivesUpAtTheLimit

\* A step that neither captures nor reads leaves record and counts, and ends
\* the command at the gate or when its time is up only.
LEMMA UnrecordedLimits ==
  ASSUME TypeOK, Limits, Unrecorded \/ UNCHANGED vars, UNCHANGED record PROVE Limits'
<1> USE DEF Limits, Counted, GivesUpAtTheLimit, NoFrame, Blackout, Unreadable, record
<1>1. CASE Gate
  BY <1>1 DEF Gate, End
<1>2. CASE SendAlert \/ Emit \/ UNCHANGED vars
  BY <1>2 DEF SendAlert, Emit, vars
<1>3. CASE Bottom \/ TimeUp
  BY <1>3 DEF Bottom, TimeUp, End
<1>4. CASE ScreenChanges \/ IndexChanges \/ Tick \/ \E d \in WallSteps : SetWall(d)
  BY <1>4 DEF ScreenChanges, IndexChanges, Tick, SetWall, loop
<1> QED BY <1>1, <1>2, <1>3, <1>4 DEF Unrecorded

LEMMA CaptureLimits ==
  ASSUME TypeOK, Limits, Capture, Captured(IF screen \in Uniform THEN "black" ELSE "clear")
  PROVE  Limits'
<1> DEFINE x == IF screen \in Uniform THEN "black" ELSE "clear"
<1> USE WatchAssumption
<1>1. /\ pc = "top" /\ exit = "none" /\ reads' = reads /\ ocr_errors' = ocr_errors
      /\ captures' \in Captures /\ captures'[1] = x
      /\ \A i \in 1 .. StreakLimit - 1 : captures'[i + 1] = captures[i]
  BY CapturedEffect DEF Capture, Limits, Counted
<1>2. uniform_streak \in Nat /\ ocr_errors \in Nat
  BY DEF TypeOK
<1>3. ~Unreadable'
  BY <1>1, <1>2 DEF Limits, Counted, Unreadable
<1>4. CASE screen \notin Uniform
  BY <1>1, <1>2, <1>3, <1>4 DEF Capture, Streak, End, Limits, Counted,
     GivesUpAtTheLimit, NoFrame, Blackout, Unreadable
<1>5. CASE screen \in Uniform
  <2>1. \A i \in 1 .. uniform_streak + 1 : captures'[i] = "black"
    <3> SUFFICES ASSUME NEW i \in 1 .. uniform_streak + 1 PROVE captures'[i] = "black"
      OBVIOUS
    <3>1. CASE i = 1
      BY <1>1, <1>5, <3>1
    <3>2. CASE i # 1
      <4>1. i - 1 \in 1 .. uniform_streak /\ i - 1 \in 1 .. StreakLimit - 1
        BY <1>1, <1>2, <3>2 DEF Limits, Counted
      <4>2. captures'[(i - 1) + 1] = captures[i - 1]
        BY <1>1, <4>1
      <4> QED BY <1>1, <1>2, <4>1, <4>2 DEF Limits, Counted
    <3> QED BY <3>1, <3>2
  <2>2. CASE uniform_streak + 1 >= StreakLimit
    <3>1. Blackout' /\ pc' = "ended" /\ exit' = "permission"
      BY <1>1, <1>2, <1>5, <2>1, <2>2
         DEF Capture, Streak, AtLimit, End, Limits, Counted, Blackout
    <3> QED BY <1>1, <1>2, <3>1 DEF Limits, Counted, GivesUpAtTheLimit
  <2>3. CASE uniform_streak + 1 < StreakLimit
    <3>1. /\ pc' # "ended" /\ pc' # "gate" /\ exit' = "none"
          /\ uniform_streak' = uniform_streak + 1
      BY <1>1, <1>2, <1>5, <2>3 DEF Capture, Streak, AtLimit
    <3>2. captures'[(uniform_streak + 1) + 1] = captures[uniform_streak + 1]
      BY <1>1, <1>2, <2>3
    <3>3. captures'[uniform_streak' + 1] # "black"
      BY <1>1, <1>2, <3>1, <3>2 DEF Limits, Counted
    <3>4. ~Blackout'
      BY <1>2, <2>3, <3>1, <3>3 DEF Blackout
    <3> QED BY <1>1, <1>2, <1>3, <2>1, <2>3, <3>1, <3>3, <3>4
            DEF Limits, Counted, GivesUpAtTheLimit, Unreadable
  <2> QED BY <1>2, <2>2, <2>3
<1> QED BY <1>4, <1>5

LEMMA OcrErrorLimits ==
  ASSUME TypeOK, Limits, OcrError, Read("failed") PROVE Limits'
<1> USE WatchAssumption
<1>1. /\ pc = "ocr" /\ exit = "none" /\ captures' = captures
      /\ uniform_streak' = uniform_streak /\ ocr_errors' = ocr_errors + 1
      /\ reads' \in Reads /\ reads'[1] = "failed"
      /\ \A i \in 1 .. OcrLimit - 1 : reads'[i + 1] = reads[i]
  BY ReadEffect DEF OcrError, Limits, Counted
<1>2. uniform_streak \in Nat /\ ocr_errors \in Nat
  BY DEF TypeOK
<1>3. ~Blackout'
  BY <1>1, <1>2 DEF Limits, Counted, Blackout
<1>4. \A i \in 1 .. ocr_errors + 1 : reads'[i] = "failed"
  <2> SUFFICES ASSUME NEW i \in 1 .. ocr_errors + 1 PROVE reads'[i] = "failed"
    OBVIOUS
  <2>1. CASE i = 1
    BY <1>1, <2>1
  <2>2. CASE i # 1
    <3>1. i - 1 \in 1 .. ocr_errors /\ i - 1 \in 1 .. OcrLimit - 1
      BY <1>1, <1>2, <2>2 DEF Limits, Counted
    <3>2. reads'[(i - 1) + 1] = reads[i - 1]
      BY <1>1, <3>1
    <3> QED BY <1>1, <1>2, <3>1, <3>2 DEF Limits, Counted
  <2> QED BY <2>1, <2>2
<1>5. CASE ocr_errors + 1 >= OcrLimit
  <2>1. Unreadable' /\ pc' = "ended" /\ exit' = "runtime"
    BY <1>1, <1>2, <1>4, <1>5 DEF OcrError, AtLimit, End, Limits, Counted, Unreadable
  <2> QED BY <1>1, <1>2, <2>1 DEF Limits, Counted, GivesUpAtTheLimit
<1>6. CASE ocr_errors + 1 < OcrLimit
  <2>1. pc' = "beat" /\ exit' = "none"
    BY <1>1, <1>2, <1>6 DEF OcrError, AtLimit
  <2>2. reads'[(ocr_errors + 1) + 1] = reads[ocr_errors + 1]
    BY <1>1, <1>2, <1>6
  <2>3. reads'[ocr_errors' + 1] # "failed"
    BY <1>1, <1>2, <2>2 DEF Limits, Counted
  <2>4. ~Unreadable'
    BY <1>1, <1>2, <1>6, <2>3 DEF Unreadable
  <2> QED BY <1>1, <1>2, <1>3, <1>4, <1>6, <2>1, <2>3, <2>4
          DEF Limits, Counted, GivesUpAtTheLimit
<1> QED BY <1>2, <1>5, <1>6

LEMMA NextLimits ==
  ASSUME TypeOK, Limits, [RecordedNext]_<<vars, record>> PROVE Limits'
<1> USE WatchAssumption
<1>1. CASE CaptureFails /\ Captured("failed")
  <2>1. /\ captures' \in Captures /\ captures'[1] = "failed" /\ reads' = reads
        /\ pc = "top" /\ pc' = "ended" /\ exit' \in {"permission", "runtime"}
    BY <1>1, CapturedEffect DEF CaptureFails, End, Limits, Counted
  <2> QED BY <2>1 DEF Limits, Counted, GivesUpAtTheLimit, NoFrame, Blackout, Unreadable
<1>2. CASE HandleText /\ Read("text")
  <2>1. /\ reads' \in Reads /\ reads'[1] = "text" /\ captures' = captures
        /\ pc = "ocr" /\ pc' \notin {"gate", "ended"} /\ exit' = exit
        /\ ocr_errors' = 0 /\ uniform_streak' = uniform_streak
    BY <1>2, ReadEffect, HandleTextEffect DEF HandleText, Limits, Counted
  <2>2. uniform_streak \in Nat
    BY DEF TypeOK
  <2> QED BY <2>1, <2>2 DEF Limits, Counted, GivesUpAtTheLimit, NoFrame, Blackout,
             Unreadable
<1>3. CASE UNCHANGED <<vars, record>>
  BY <1>3, UnrecordedLimits
<1> QED BY <1>1, <1>2, <1>3, CaptureLimits, OcrErrorLimits, UnrecordedLimits
        DEF RecordedNext

\* The record is kept beside the loop: a recorded run is a run.
LEMMA RecordedTypeCorrect == RecordedSpec => []TypeOK
<1>1. RecordedInit => TypeOK
  BY InitType DEF RecordedInit
<1>2. [RecordedNext]_<<vars, record>> => [Next]_vars
  BY DEF RecordedNext, Unrecorded, Next, Watcher
<1>3. TypeOK /\ [RecordedNext]_<<vars, record>> => TypeOK'
  BY <1>2, NextType
<1> QED BY <1>1, <1>3, PTL DEF RecordedSpec

\* For any limits, the loop gives up with its last StreakLimit captures black
\* or its last OcrLimit readings failed, and neither sooner nor later.
THEOREM LimitsHold == RecordedSpec => []GivesUpAtTheLimit
<1>1. TypeOK /\ Limits /\ [RecordedNext]_<<vars, record>> => Limits'
  BY NextLimits
<1>2. Limits => GivesUpAtTheLimit
  BY DEF Limits
<1> QED BY InitLimits, RecordedTypeCorrect, <1>1, <1>2, PTL DEF RecordedSpec

\* The task index is queried at most once per Refresh.
THEOREM RefreshesAreSpaced == Spec => RefreshSpacing
<1>1. ASSUME TypeOK, [Next]_vars
      PROVE [cache'.last_refresh # cache.last_refresh /\ cache.last_refresh # Never
               => cache'.last_refresh - cache.last_refresh >= Refresh]_vars
  <2>1. CASE cache' \in Refreshed(cache)
    BY <1>1, <2>1, RefreshedType
  <2>2. CASE cache' = cache
    BY <2>2
  <2>3. cache' \in Refreshed(cache) \/ cache' = cache
    BY <1>1 DEF Next, Watcher, Gate, Capture, CaptureFails, OcrError, HandleText,
         SendAlert, Emit, Bottom, TimeUp, ScreenChanges, IndexChanges, Tick,
         SetWall, loop, vars
  <2> QED BY <2>1, <2>2, <2>3
<1> QED BY TypeCorrect, <1>1, PTL DEF Spec, RefreshSpacing

-----------------------------------------------------------------------------
(* Alerts, while nobody sets the wall clock *)

\* The limiter's clock is the real one, and its marks are the alerts.
LimiterAgrees == wall = clock /\ last_sent = alerted

\* The limiter lets an alert through only Window after the last one, and
\* stops one only within Window of it.
LEMMA NextAlerts ==
  ASSUME WallSteps = {}, TypeOK, LimiterAgrees, [Next]_vars
  PROVE  /\ LimiterAgrees'
         /\ \A s \in States : alerted'[s] # alerted[s] /\ alerted[s] # Never
              => alerted'[s] - alerted[s] >= Window
         /\ pc = "ocr" /\ pc' \in {"send", "emit"} /\ pending'.notified = "limited"
              => /\ alerted[pending'.state] # Never
                 /\ clock - alerted[pending'.state] < Window
<1> USE DEF LimiterAgrees
<1>1. CASE HandleText
  <2>1. wall' = wall /\ clock' = clock
    BY <1>1 DEF HandleText, env
  <2>2. CASE pc' = "beat" /\ UNCHANGED <<last_sent, alerted>>
    BY <2>1, <2>2
  <2>3. CASE pc' # "beat"
    <3>1. PICK new \in States :
            /\ pending'.state = new
            /\ pending'.notified = IF Suppressed(new) THEN "limited" ELSE "allowed"
            /\ IF Suppressed(new)
               THEN UNCHANGED <<last_sent, alerted>>
               ELSE /\ last_sent' = [last_sent EXCEPT ![new] = wall]
                    /\ alerted' = [alerted EXCEPT ![new] = clock]
      BY <1>1, <2>3, HandleTextEffect
    <3>2. alerted \in [States -> Time] /\ clock \in Nat
      BY DEF TypeOK
    <3>3. CASE Suppressed(new)
      BY <2>1, <3>1, <3>3 DEF Suppressed
    <3>4. CASE ~Suppressed(new)
      BY <2>1, <3>1, <3>2, <3>4, WatchAssumption DEF Suppressed, Time
    <3> QED BY <3>3, <3>4
  <2> QED BY <1>1, <2>2, <2>3, HandleTextEffect
<1>2. CASE Tick
  BY <1>2 DEF Tick, loop
<1>3. CASE Gate \/ Capture \/ CaptureFails \/ OcrError
  BY <1>3 DEF Gate, Capture, CaptureFails, OcrError, End, env
<1>4. CASE SendAlert \/ Emit \/ Bottom \/ TimeUp
  BY <1>4 DEF SendAlert, Emit, Bottom, TimeUp, End, env
<1>5. CASE ScreenChanges \/ IndexChanges
  BY <1>5 DEF ScreenChanges, IndexChanges, loop
<1>6. CASE UNCHANGED vars
  BY <1>6 DEF vars, env
<1>7. ~\E d \in WallSteps : SetWall(d)
  OBVIOUS
<1> QED BY <1>1, <1>2, <1>3, <1>4, <1>5, <1>6, <1>7 DEF Next, Watcher

LEMMA AlwaysAgrees == ASSUME WallSteps = {} PROVE Spec => []LimiterAgrees
<1>1. Init => LimiterAgrees
  BY DEF Init, LimiterAgrees
<1>2. TypeOK /\ LimiterAgrees /\ [Next]_vars => LimiterAgrees'
  BY NextAlerts
<1> QED BY TypeCorrect, <1>1, <1>2, PTL DEF Spec

\* Two alerts for one state are Window apart, if nobody sets the wall clock.
THEOREM AlertsAreSpaced == ASSUME WallSteps = {} PROVE Spec => AlertSpacing
<1>1. TypeOK /\ LimiterAgrees /\ [Next]_vars
      => [\A s \in States : alerted'[s] # alerted[s] /\ alerted[s] # Never
            => alerted'[s] - alerted[s] >= Window]_vars
  BY NextAlerts
<1> QED BY TypeCorrect, AlwaysAgrees, <1>1, PTL DEF Spec, AlertSpacing

\* An alert is suppressed only within Window of another for the same state, if
\* nobody sets the wall clock.
THEOREM SuppressionHasACause ==
  ASSUME WallSteps = {} PROVE Spec => SuppressedWithCause
<1>1. TypeOK /\ LimiterAgrees /\ [Next]_vars
      => [pc = "ocr" /\ pc' \in {"send", "emit"} /\ pending'.notified = "limited"
            => /\ alerted[pending'.state] # Never
               /\ clock - alerted[pending'.state] < Window]_vars
  BY NextAlerts
<1> QED BY TypeCorrect, AlwaysAgrees, <1>1, PTL DEF Spec, SuppressedWithCause
=============================================================================
