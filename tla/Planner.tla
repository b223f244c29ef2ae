------------------------------- MODULE Planner -------------------------------
(***************************************************************************)
(* The export planner: the form of the export page in the browser (ui/     *)
(* static/app.js, sectionPage; ui/templates/section.html), the preview and *)
(* the run it asks the web application for (web.py).                       *)
(*                                                                         *)
(* The page changes its form at once; timers, answers and failures of the  *)
(* network come in any order.  A preview shows what the server computed    *)
(* from the form as it was when the request was sent.                      *)
(*                                                                         *)
(* Time is cut into instants; DayLen of them make a day, WeekLen days a    *)
(* week, MonthLen days a month.  The first and the last instant of a day   *)
(* stand for 00:00:00.000 and 23:59:59.999.  Left out: the export profile, *)
(* chosen and remembered like the label; what a preview estimates; messages*)
(* to the user; the highlighted preset; the list of queued jobs; labels    *)
(* made and deleted meanwhile.                                             *)
(***************************************************************************)
EXTENDS Integers, FiniteSets

CONSTANTS
  Labels,
  Destinations,      \* export folders a user types
  DayLen, WeekLen, MonthLen,
  Noon, Midnights,   \* instant at which the page opens; bound: midnights that pass
  Picks,             \* instants a user picks
  Remembered,        \* what an earlier session may have left in localStorage: labels, or Blank
  MaxActions,        \* bound: what the user does
  MaxRequests,       \* bound: previews under way at one time
  Blank, None

\* What a preview or a run asks for, and the requests for previews.
Bodies == [label : Labels, destination : Destinations \cup {Blank}, start : Int, end : Int]
Requests == [number : Nat, body : Bodies]

ASSUME PlannerAssumption ==
  /\ DayLen \in Nat \ {0, 1} /\ WeekLen \in Nat \ {0} /\ MonthLen \in Nat \ {0}
  /\ Midnights \in Nat /\ MaxActions \in Nat /\ MaxRequests \in Nat
  /\ Noon \in Nat /\ Picks \subseteq Nat
  /\ Noon >= DayLen * 2 * (WeekLen + MonthLen)
  /\ Remembered \subseteq Labels \cup {Blank}
  /\ Blank \notin Labels /\ None \notin Requests

VARIABLES
  now,
  form,         \* label, destination, start, end, mode
  lastUsed,     \* the label and destination in localStorage
  rows,         \* the labels the page offers; None until it has loaded them
  pageLoads,    \* loads of the page under way
  timer,        \* a quiet preview is scheduled (_previewTimer)
  typing,       \* a destination is typed, its preview waits for the debounce
  sent,         \* number of the last preview request
  previews,     \* preview requests without an answer, and answers on their way
  preview,      \* what the page shows: the request it answers
  running,      \* the request for an export that is under way, if there is one (exportBusy)
  queueAction,  \* a request to cancel or retry a job is under way
  done

plannerPage == <<form, lastUsed, rows, pageLoads, timer, typing, sent, preview, running, queueAction>>
plannerVars == <<now, plannerPage, previews, done>>

-----------------------------------------------------------------------------
(* The calendar *)

StartOfDay(t) == t - (t % DayLen)
EndOfDay(t) == StartOfDay(t) + DayLen - 1
StartOfWeek(t) == t - (t % (DayLen * WeekLen))
StartOfMonth(t) == t - (t % (DayLen * MonthLen))

PresetKeys == {"today", "yesterday", "this-week", "last-week", "this-month", "last-month"}

\* applyDatePreset
PresetWindow(key) ==
  CASE key = "today" -> [start |-> StartOfDay(now), end |-> EndOfDay(now)]
    [] key = "yesterday" -> [start |-> StartOfDay(now) - DayLen, end |-> StartOfDay(now) - 1]
    [] key = "this-week" -> [start |-> StartOfWeek(now), end |-> EndOfDay(now)]
    [] key = "last-week" -> [start |-> StartOfWeek(StartOfWeek(now) - 1),
                             end |-> StartOfWeek(now) - 1]
    [] key = "this-month" -> [start |-> StartOfMonth(now), end |-> EndOfDay(now)]
    [] key = "last-month" -> [start |-> StartOfMonth(StartOfMonth(now) - 1),
                              end |-> StartOfMonth(now) - 1]

PresetMode(key) == IF key \in {"today", "yesterday"} THEN "single" ELSE "range"

-----------------------------------------------------------------------------
(* The form *)

\* manualRequestBody
Body == [label |-> form.label, destination |-> form.destination,
         start |-> form.start, end |-> form.end]

\* loadLastUsed: what is remembered replaces what the form holds.
Recalled(f, saved) ==
  [f EXCEPT !.label = IF saved.label = Blank THEN @ ELSE saved.label,
            !.destination = IF saved.destination = Blank THEN @ ELSE saved.destination]

\* The page opens: load() and initManualPlanner().
PlannerInit ==
  /\ now = Noon
  /\ lastUsed \in [label : Remembered, destination : {Blank}]
  /\ form = Recalled([label |-> Blank, destination |-> Blank, mode |-> "single",
                      start |-> StartOfDay(now), end |-> EndOfDay(now)], lastUsed)
  /\ rows = None
  /\ pageLoads = 1
  /\ timer = (form.label # Blank)
  /\ typing = FALSE
  /\ sent = 0 /\ previews = {} /\ preview = None
  /\ running = {} /\ queueAction = FALSE
  /\ done = 0

\* schedulePreview, after the form has become f
Scheduled(f) == timer' = (f.label # Blank)

Does == done < MaxActions /\ done' = done + 1

\* The user changes the form.
Fills(f) ==
  /\ Does
  /\ form' = f
  /\ Scheduled(f)
  /\ UNCHANGED <<now, lastUsed, rows, pageLoads, typing, sent, previews, preview, running, queueAction>>

\* onManualSelectionChanged: the page offers the labels it has loaded.
ChooseLabel(l) ==
  /\ rows # None /\ l \in rows
  /\ Fills([form EXCEPT !.label = l])

\* Mutant: an end before the start leaves the start where it is.
PickEnd_StartStays(t) ==
  /\ form.mode = "range"
  /\ Fills([form EXCEPT !.end = t])

\* The pickers of a range; the other end of the window follows.
PickStart(t) ==
  /\ form.mode = "range"
  /\ Fills([form EXCEPT !.start = t, !.end = IF t > @ THEN EndOfDay(t) ELSE @])

PickEnd(t) ==
  /\ form.mode = "range"
  /\ Fills([form EXCEPT !.end = t, !.start = IF t < @ THEN StartOfDay(t) ELSE @])

OneDay(f, t) == [f EXCEPT !.start = StartOfDay(t), !.end = EndOfDay(t), !.mode = "single"]

PickDay(t) ==
  /\ form.mode = "single"
  /\ Fills(OneDay(form, t))

SetManualMode(mode) ==
  Fills(IF mode = "single" THEN OneDay(form, form.start) ELSE [form EXCEPT !.mode = mode])

ApplyDatePreset(key) ==
  Fills([form EXCEPT !.start = PresetWindow(key).start, !.end = PresetWindow(key).end,
                     !.mode = PresetMode(key)])

\* "Custom Range" changes the mode, not the window, and schedules nothing.
CustomRange ==
  /\ Does
  /\ form' = [form EXCEPT !.mode = "range"]
  /\ UNCHANGED <<now, lastUsed, rows, pageLoads, timer, typing, sent, previews, preview, running, queueAction>>

TypeDestination(d) ==
  /\ Does
  /\ form' = [form EXCEPT !.destination = d]
  /\ typing' = TRUE
  /\ UNCHANGED <<now, lastUsed, rows, pageLoads, timer, sent, previews, preview, running, queueAction>>

-----------------------------------------------------------------------------
(* Previews *)

\* previewExport
Sends ==
  IF form.label = Blank THEN UNCHANGED <<sent, previews>>
  ELSE /\ Cardinality(previews) < MaxRequests
       /\ sent' = sent + 1
       /\ previews' = previews \cup {[number |-> sent + 1, body |-> Body]}

TimerFires ==
  /\ timer /\ timer' = FALSE
  /\ Sends
  /\ UNCHANGED <<now, form, lastUsed, rows, pageLoads, typing, preview, running,
                 queueAction, done>>

DebounceFires ==
  /\ typing /\ typing' = FALSE
  /\ Sends
  /\ UNCHANGED <<now, form, lastUsed, rows, pageLoads, timer, preview, running,
                 queueAction, done>>

ClickPreview ==
  /\ Does
  /\ Sends
  /\ UNCHANGED <<now, form, lastUsed, rows, pageLoads, timer, typing, preview, running,
                 queueAction>>

\* _manual_export_window
WindowAccepted(body) == body.start <= body.end

\* What the page has to see to; a label that is disabled is refused as well.
Accepted(body) == body.label # Blank /\ WindowAccepted(body)

\* Shown as it comes, for an error with the message in the place of a check.
Shows(r) == preview' = r

\* An answer, or the failure of a request, reaches the page, which shows it.  The server
\* computes it from the request; nothing here depends on what it says (_manual_export_preview).
PreviewArrives(r) ==
  /\ r \in previews
  /\ Shows(r)
  /\ previews' = previews \ {r}
  /\ UNCHANGED <<now, form, lastUsed, rows, pageLoads, timer, typing, sent, running,
                 queueAction, done>>

-----------------------------------------------------------------------------
(* Running, remembering, reloading *)

ClickRun ==
  /\ running = {} /\ form.label # Blank
  /\ Does
  /\ running' = {Body}
  /\ UNCHANGED <<now, form, lastUsed, rows, pageLoads, timer, typing, sent, previews, preview,
                 queueAction>>

\* The job is queued, or refused, or the request fails (api_run_export).  saveLastUsed()
\* stores the form as it is now.
RunArrives ==
  /\ running # {} /\ running' = {}
  /\ \/ /\ \A body \in running : Accepted(body)
        /\ lastUsed' = [label |-> form.label, destination |-> form.destination]
     \/ UNCHANGED lastUsed
  /\ UNCHANGED <<now, form, rows, pageLoads, timer, typing, sent, previews, preview, queueAction, done>>

\* onQueueAction: a job in the list is cancelled or retried, one at a time.
ClickQueueAction ==
  /\ ~queueAction /\ Does
  /\ queueAction' = TRUE
  /\ UNCHANGED <<now, form, lastUsed, rows, pageLoads, timer, typing, sent, previews, preview, running>>

\* Its success loads the page anew, and what is remembered replaces the form.
QueueActionArrives ==
  /\ queueAction /\ queueAction' = FALSE
  /\ \/ form' = Recalled(form, lastUsed) /\ pageLoads' = pageLoads + 1
     \/ UNCHANGED <<form, pageLoads>>
  /\ UNCHANGED <<now, lastUsed, rows, timer, typing, sent, previews, preview, running, done>>

\* Mutant: the data is shown and nothing is previewed.
LoadArrives_NoPreview ==
  /\ pageLoads > 0 /\ pageLoads' = pageLoads - 1
  /\ \E listed \in {Labels, {}} :
       /\ rows' = listed
       /\ form' \in IF form.label = Blank /\ listed # {}
                    THEN {[form EXCEPT !.label = l] : l \in listed} ELSE {form}
  /\ UNCHANGED <<now, lastUsed, timer, typing, sent, previews, preview, running,
                 queueAction, done>>

\* loadExportPage has its data: the labels, disabled ones too, or none if that failed.
LoadArrives ==
  /\ pageLoads > 0 /\ pageLoads' = pageLoads - 1
  /\ \E listed \in {Labels, {}} :
       /\ rows' = listed
       /\ form' \in IF form.label = Blank /\ listed # {}
                    THEN {[form EXCEPT !.label = l] : l \in listed} ELSE {form}
       /\ timer' = (timer \/ form'.label # Blank)
  /\ UNCHANGED <<now, lastUsed, typing, sent, previews, preview, running,
                 queueAction, done>>

Midnight ==
  /\ now < Noon + Midnights * DayLen
  /\ now' = now + DayLen
  /\ UNCHANGED <<plannerPage, previews, done>>

-----------------------------------------------------------------------------

User ==
  \/ \E l \in Labels : ChooseLabel(l)
  \/ \E t \in Picks : PickStart(t) \/ PickEnd(t) \/ PickDay(t)
  \/ \E mode \in {"range", "single"} : SetManualMode(mode)
  \/ \E key \in PresetKeys : ApplyDatePreset(key)
  \/ \E d \in Destinations \cup {Blank} : TypeDestination(d)
  \/ CustomRange \/ ClickPreview \/ ClickRun \/ ClickQueueAction

PlannerNext ==
  \/ User
  \/ TimerFires \/ DebounceFires \/ LoadArrives \/ RunArrives \/ QueueActionArrives
  \/ \E r \in previews : PreviewArrives(r)
  \/ Midnight

PlannerSpec == PlannerInit /\ [][PlannerNext]_plannerVars

-----------------------------------------------------------------------------
(* Properties *)

\* Whatever pickers, presets and modes the user mixes, and whenever midnight comes, the
\* window starts before it ends: neither preview nor run is ever refused for it, or for want
\* of a label, and in single mode the window is one whole day (app.js, setManualWindow,
\* setManualMode, applyDatePreset and the pickers; web.py, _manual_export_window).
RequestsSound ==
  /\ form.start <= form.end
  /\ \A body \in {r.body : r \in previews} \cup running : Accepted(body)
  /\ form.mode = "single" => form.start = StartOfDay(form.start) /\ form.end = EndOfDay(form.start)

Quiet == ~timer /\ ~typing /\ pageLoads = 0 /\ previews = {} /\ ~queueAction

\* Once the page is quiet it shows a preview of the form as it stands, provided that the
\* answer to the request sent last is the one that came last: every way to change the form,
\* the ones that recall the last export or take the first label included, ends in a request
\* (app.js, schedulePreview, previewExport, loadExportPage, onQueueAction).
PreviewCurrent ==
  Quiet /\ form.label # Blank =>
    /\ preview # None
    /\ preview.number = sent => preview.body = Body

=============================================================================
