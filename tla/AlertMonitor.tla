---------------------------- MODULE AlertMonitor ----------------------------
(***************************************************************************)
(* The alert cron (incidencias/services/incidencia-monitor.service.ts):    *)
(* every minute it loads the incidents being worked on, and one after the  *)
(* other gives each the alert level its age calls for and reminds the      *)
(* assigned employee.  A run can last longer than a minute - it awaits one *)
(* save and one e-mail after the other - and the scheduler starts the next *)
(* one all the same.  Other handlers save the same rows meanwhile.         *)
(***************************************************************************)
EXTENDS Naturals, Functions, TypeOrm, Null

CONSTANTS
    Incidents,
    Assigned,            \* the incidents that have an assigned employee
    Runs,                \* cron runs that may be in flight at once
    Edits,               \* employee requests made in the behaviour (bound)
    GREEN_MAX_MINUTES, YELLOW_MAX_MINUTES, ORANGE_MAX_MINUTES,  \* ALERT_CONFIG
    MaxMinute            \* last minute of the clock (bound)

ASSUME MonitorAssumption ==
    /\ Assigned \subseteq Incidents
    /\ GREEN_MAX_MINUTES \in Nat
    /\ YELLOW_MAX_MINUTES \in Nat
    /\ ORANGE_MAX_MINUTES \in Nat
    /\ GREEN_MAX_MINUTES <= YELLOW_MAX_MINUTES
    /\ YELLOW_MAX_MINUTES <= ORANGE_MAX_MINUTES
    /\ MaxMinute \in Nat
    /\ NULL \notin Incidents
    /\ NULL \notin Nat

VARIABLES
    minute,    \* the server's clock, in whole minutes
    lastFired, \* the minute for which the cron last fired
    createdAt, \* the minute of each incident's creation, NULL before it
    row,       \* each incident's row
    run,       \* what each cron run is doing
    edit,      \* what each employee request is doing
    reminders  \* history: reminders sent of each incident at each level (0..2)

vars == <<minute, lastFired, createdAt, row, run, edit, reminders>>

AlertLevel == {"GREEN", "YELLOW", "ORANGE", "RED"}

Minutes == 0..MaxMinute

\* Mutated form: the last minute of a level already counts as the next one.
GetAlertLevel_Strict(m) ==
    CASE m < GREEN_MAX_MINUTES -> "GREEN"
      [] m >= GREEN_MAX_MINUTES /\ m < YELLOW_MAX_MINUTES -> "YELLOW"
      [] m >= YELLOW_MAX_MINUTES /\ m < ORANGE_MAX_MINUTES -> "ORANGE"
      [] OTHER -> "RED"

\* Mutated form: the last return is forgotten.
GetAlertLevel_NoReturn(m) ==
    CASE m <= GREEN_MAX_MINUTES -> "GREEN"
      [] m > GREEN_MAX_MINUTES /\ m <= YELLOW_MAX_MINUTES -> "YELLOW"
      [] m > YELLOW_MAX_MINUTES /\ m <= ORANGE_MAX_MINUTES -> "ORANGE"
      [] OTHER -> "undefined"

GetAlertLevel(m) ==
    CASE m <= GREEN_MAX_MINUTES -> "GREEN"
      [] m > GREEN_MAX_MINUTES /\ m <= YELLOW_MAX_MINUTES -> "YELLOW"
      [] m > YELLOW_MAX_MINUTES /\ m <= ORANGE_MAX_MINUTES -> "ORANGE"
      [] OTHER -> "RED"

\* What the find of the cron tests (status PENDING or IN_PROGRESS, isActive,
\* not soft-deleted) is one column here.
Rows == [active : BOOLEAN, alertLevel : AlertLevel]

Columns == {"active", "alertLevel"}

New == [active |-> TRUE, alertLevel |-> "GREEN"]

\* The entities a find returned, each under its incident.
Lists == UNION {[T -> Rows] : T \in SUBSET Incidents}

\* A run: where it is suspended, the entities it has yet to look at, and the
\* incident it is at, with the entity and the columns its save found changed.
RunStates ==
    [at : {"idle", "loop", "select", "write", "notify"}, list : Lists,
     current : Incidents \cup {NULL}, entity : Rows, cols : SUBSET Columns]

RunAt(p, l, i, e, c) ==
    [at |-> p, list |-> l, current |-> i, entity |-> e, cols |-> c]

Nothing == [i \in {} |-> New]

NotRunning == RunAt("idle", Nothing, NULL, New, {})

EditStates ==
    [at : {"none", "select", "write", "done"}, current : Incidents \cup {NULL},
     entity : Rows, cols : SUBSET Columns]

EditAt(p, i, e, c) == [at |-> p, current |-> i, entity |-> e, cols |-> c]

-----------------------------------------------------------------------------

Init ==
    /\ minute = 0
    /\ lastFired = NULL
    /\ createdAt = [i \in Incidents |-> NULL]
    /\ row = [i \in Incidents |-> New]
    /\ run = [r \in Runs |-> NotRunning]
    /\ edit = [d \in Edits |-> EditAt("none", NULL, New, {})]
    /\ reminders = [i \in Incidents |-> [l \in AlertLevel |-> 0]]

Exists(i) == createdAt[i] # NULL

Create(i) ==
    /\ ~Exists(i)
    /\ minute + ORANGE_MAX_MINUTES < MaxMinute  \* bound: time to become RED
    /\ createdAt' = [createdAt EXCEPT ![i] = minute]
    /\ UNCHANGED <<minute, lastFired, row, run, edit, reminders>>

-----------------------------------------------------------------------------
(* updateAlertLevelsAndNotify *)

\* What run r is doing becomes s.
RunBecomes(r, s) == run' = [run EXCEPT ![r] = s]

\* What the find returns.
Found == {i \in Incidents : Exists(i) /\ row[i].active}

\* The cron fires, once a minute; the last minute stands for all later ones.
\* If nothing is found the run is over.
StartRun(r) ==
    /\ run[r].at = "idle"
    /\ lastFired # minute \/ minute = MaxMinute
    /\ lastFired' = minute
    /\ RunBecomes(r, IF Found = {} THEN NotRunning
                     ELSE RunAt("loop", Restrict(row, Found), NULL, New, {}))
    /\ UNCHANGED <<minute, createdAt, row, edit, reminders>>

\* Mutated form: getMinutes() of the difference, which wraps round at the hour
\* (here as soon as RED is reached).
Due_MinutesOfTheHour(i) ==
    GetAlertLevel((minute - createdAt[i]) % (ORANGE_MAX_MINUTES + 1))

\* The level the incident's age calls for, by the clock at this moment.
Due(i) == GetAlertLevel(minute - createdAt[i])

\* The list without i.
Rest(list, i) == Restrict(list, DOMAIN list \ {i})

\* Back to the loop, or out of it.
Continue(list) ==
    IF DOMAIN list = {} THEN NotRunning ELSE RunAt("loop", list, NULL, New, {})

\* Mutated form: every look at the incident saves it and reminds.
Examine_EveryMinute(r, i) ==
    /\ run[r].at = "loop"
    /\ i \in DOMAIN run[r].list
    /\ RunBecomes(r, RunAt("select", Rest(run[r].list, i), i,
                           [run[r].list[i] EXCEPT !.alertLevel = Due(i)], {}))
    /\ UNCHANGED <<minute, lastFired, createdAt, row, edit, reminders>>

\* The next incident; the query returns them in no particular order.  If its
\* entity has the level that is due there is nothing to await.
Examine(r, i) ==
    /\ run[r].at = "loop"
    /\ i \in DOMAIN run[r].list
    /\ LET e == run[r].list[i]
           rest == Rest(run[r].list, i)
       IN  RunBecomes(r, IF e.alertLevel = Due(i) THEN Continue(rest)
                         ELSE RunAt("select", rest, i, [e EXCEPT !.alertLevel = Due(i)], {}))
    /\ UNCHANGED <<minute, lastFired, createdAt, row, edit, reminders>>

\* repository.save(incidencia), first half.
RunSelect(r) ==
    /\ run[r].at = "select"
    /\ LET t == run[r]
       IN  RunBecomes(r, RunAt("write", t.list, t.current, t.entity,
                               Changed(t.entity, row[t.current])))
    /\ UNCHANGED <<minute, lastFired, createdAt, row, edit, reminders>>

\* Second half; then the reminder if there is somebody to remind.
RunWrite(r) ==
    /\ run[r].at = "write"
    /\ LET t == run[r]
       IN  /\ row' = [row EXCEPT ![t.current] = Written(@, t.entity, t.cols)]
           /\ RunBecomes(r, IF t.current \in Assigned /\ t.entity.alertLevel # "GREEN"
                            THEN [t EXCEPT !.at = "notify"]
                            ELSE Continue(t.list))
    /\ UNCHANGED <<minute, lastFired, createdAt, edit, reminders>>

\* sendAlertNotification: the reminder goes out, or fails and is only logged.
Notify(r) ==
    /\ run[r].at = "notify"
    /\ LET t == run[r]
           n == reminders[t.current][t.entity.alertLevel]
       IN  \/ reminders' = [reminders EXCEPT ![t.current][t.entity.alertLevel] =
                                IF n = 2 THEN 2 ELSE n + 1]
           \/ UNCHANGED reminders
    /\ RunBecomes(r, Continue(run[r].list))
    /\ UNCHANGED <<minute, lastFired, createdAt, row, edit>>

\* Mutated form: a flag that says a run is in progress stays up.
RunFails_StaysBusy(r) ==
    /\ run[r].at \in {"select", "write"}
    /\ RunBecomes(r, RunAt("loop", Nothing, NULL, New, {}))
    /\ UNCHANGED <<minute, lastFired, createdAt, row, edit, reminders>>

\* A save fails: the try around the loop gives up the rest of the list.
RunFails(r) ==
    /\ run[r].at \in {"select", "write"}
    /\ RunBecomes(r, NotRunning)
    /\ UNCHANGED <<minute, lastFired, createdAt, row, edit, reminders>>

-----------------------------------------------------------------------------
(* The other handlers that load and save an incident *)

EditBecomes(d, s) == edit' = [edit EXCEPT ![d] = s]

\* A handler loads incident i and means to save it, as it was (active = its
\* own value), closed or reopened.
StartEdit(d, i, active) ==
    /\ edit[d].at = "none"
    /\ Exists(i)
    /\ EditBecomes(d, EditAt("select", i, [row[i] EXCEPT !.active = active], {}))
    /\ UNCHANGED <<minute, lastFired, createdAt, row, run, reminders>>

EditSelect(d) ==
    /\ edit[d].at = "select"
    /\ LET t == edit[d]
       IN  EditBecomes(d, EditAt("write", t.current, t.entity,
                                 Changed(t.entity, row[t.current])))
    /\ UNCHANGED <<minute, lastFired, createdAt, row, run, reminders>>

EditWrite(d) ==
    /\ edit[d].at = "write"
    /\ LET t == edit[d]
       IN  row' = [row EXCEPT ![t.current] = Written(@, t.entity, t.cols)]
    /\ EditBecomes(d, EditAt("done", NULL, New, {}))
    /\ UNCHANGED <<minute, lastFired, createdAt, run, reminders>>

-----------------------------------------------------------------------------
(* The environment *)

\* The process dies: the run and the requests in flight are lost.
Crash ==
    /\ run' = [r \in Runs |-> NotRunning]
    /\ edit' = [d \in Edits |-> IF edit[d].at = "none" THEN edit[d]
                                ELSE EditAt("done", NULL, New, {})]
    /\ <<run', edit'>> # <<run, edit>>
    /\ UNCHANGED <<minute, lastFired, createdAt, row, reminders>>

NextMinute ==
    /\ minute < MaxMinute
    /\ minute' = minute + 1
    /\ UNCHANGED <<lastFired, createdAt, row, run, edit, reminders>>

-----------------------------------------------------------------------------

RunStep(r) ==
    \/ \E i \in Incidents : Examine(r, i)
    \/ RunSelect(r)
    \/ RunWrite(r)
    \/ Notify(r)

Next ==
    \/ \E i \in Incidents : Create(i)
    \/ \E r \in Runs : StartRun(r) \/ RunStep(r) \/ RunFails(r)
    \/ \E d \in Edits :
         \/ \E i \in Incidents, active \in BOOLEAN : StartEdit(d, i, active)
         \/ EditSelect(d)
         \/ EditWrite(d)
    \/ Crash
    \/ NextMinute

Spec == Init /\ [][Next]_vars

\* Time passes, the scheduler fires and an await is eventually answered; a run
\* that is given up over and over gets through with each incident some time.
Fairness ==
    /\ WF_vars(NextMinute)
    /\ \A r \in Runs :
         /\ WF_vars(StartRun(r))
         /\ WF_vars(RunStep(r))
         /\ \A i \in Incidents :
              /\ SF_vars(Examine(r, i))
              /\ SF_vars(run[r].current = i /\ RunSelect(r))
              /\ SF_vars(run[r].current = i /\ RunWrite(r))
    /\ \A d \in Edits : WF_vars(EditSelect(d) \/ EditWrite(d))

LiveSpec == Spec /\ Fairness

-----------------------------------------------------------------------------

\* Every variable has its type.
TypeOK ==
    /\ minute \in Minutes
    /\ lastFired \in Minutes \cup {NULL}
    /\ createdAt \in [Incidents -> Minutes \cup {NULL}]
    /\ row \in [Incidents -> Rows]
    /\ run \in [Runs -> RunStates]
    /\ edit \in [Edits -> EditStates]
    /\ reminders \in [Incidents -> [AlertLevel -> 0..2]]

\* The first minute of each level (alert-level.enum.ts:8-18).
FirstMinute(level) ==
    CASE level = "GREEN"  -> 0
      [] level = "YELLOW" -> GREEN_MAX_MINUTES + 1
      [] level = "ORANGE" -> YELLOW_MAX_MINUTES + 1
      [] level = "RED"    -> ORANGE_MAX_MINUTES + 1

\* An incident that did not exist or is too young for the level has not got it.
OldEnough(i, level) ==
    IF Exists(i) THEN minute - createdAt[i] >= FirstMinute(level) ELSE level = "GREEN"

\* No incident is shown more urgent than its age makes it, whatever saves of
\* whatever age are written over one another: overlapping runs and stale
\* employee saves can only delay the alert (updateAlertLevelsAndNotify).
AlertNeverEarly == \A i \in Incidents : OldEnough(i, row[i].alertLevel)

\* The levels an incident had before this one.
Below(level) == {l \in AlertLevel : FirstMinute(l) < FirstMinute(level)}

NobodyEdited == \A d \in Edits : edit[d].at = "none"

\* As long as runs do not overlap and nobody else saves the incident, its
\* level never goes down; it may skip a level.
LevelsRise ==
    [][NobodyEdited' =>
          \A i \in Incidents : row'[i].alertLevel \notin Below(row[i].alertLevel)]_row

\* The employee is reminded when the level changes, not every minute
\* (incidencia-monitor.service.ts:91): at most once of each level, however
\* often runs fail halfway and the server crashes, until somebody's stale save
\* puts an old level back.
RemindedOncePerLevel ==
    NobodyEdited => \A i \in Incidents, l \in AlertLevel : reminders[i][l] <= 1

\* An incident that stays open is shown RED for good in the end, although any
\* save may fail and take the rest of its run with it, and stale saves may
\* lower the level again.
Escalates ==
    \A i \in Incidents :
        <>[](Exists(i) /\ row[i].active) => <>[](row[i].alertLevel = "RED")
=============================================================================
