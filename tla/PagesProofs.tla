----------------------------- MODULE PagesProofs -----------------------------
(***************************************************************************)
(* Theorems about the pages of the browser.                                *)
(*                                                                         *)
(* Groups, for any schools, keys, groups, worker threads, life of the cache*)
(* and bounds: what the schools page shows and what the jobs use keep up   *)
(* with the edits.  Planner, for any labels, folders, lengths of days,     *)
(* weeks and months, picks and bounds: what the export page asks for is    *)
(* never refused, and what it shows keeps up with its form.                *)
(***************************************************************************)
EXTENDS Groups, Planner, TLAPS

-----------------------------------------------------------------------------
(* The export page: the calendar *)

LEMMA InstantInItsDay ==
  ASSUME NEW t \in Int, NEW d \in Nat \ {0}
  PROVE  t % d \in 0..(d - 1) /\ (t - (t % d)) % d = 0
<1>1. t % d \in 0..(d - 1)
  OBVIOUS
<1>2. (t - (t % d)) % d = 0
  OBVIOUS
<1> QED BY <1>1, <1>2

LEMMA Multiples ==
  ASSUME NEW t \in Int, NEW q \in Int, NEW d \in Nat \ {0}, t = d * q
  PROVE  t % d = 0
<1> DEFINE p == t \div d
<1> DEFINE r == t % d
<1>1. t = d * p + r /\ p \in Int /\ r \in 0..(d - 1)
  OBVIOUS
<1> HIDE DEF p, r
<1>2. \A x, y \in Int : x < y => d * x + d <= d * y
  OBVIOUS
<1>3. p = q
  BY <1>1, <1>2
<1> QED BY <1>1, <1>3 DEF r

LEMMA DayBefore ==
  ASSUME NEW t \in Int, NEW d \in Nat \ {0}, t % d = 0
  PROVE  (t - d) % d = 0
<1> DEFINE p == t \div d
<1>1. t = d * p /\ p \in Int
  OBVIOUS
<1> HIDE DEF p
<1>2. t - d = d * (p - 1)
  BY <1>1
<1> QED BY <1>1, <1>2, Multiples

-----------------------------------------------------------------------------
(* The export page: the form *)

Forms == [label : Labels \cup {Blank}, destination : Destinations \cup {Blank},
          mode : {"single", "range"}, start : Int, end : Int]

\* The window of a form starts before it ends, and is one day in single mode.
Sound(f) ==
  /\ f \in Forms
  /\ f.start <= f.end
  /\ f.mode = "single" => f.start % DayLen = 0 /\ f.end = f.start + DayLen - 1

FormInv ==
  /\ now \in Int /\ Sound(form)
  /\ lastUsed \in [label : Labels \cup {Blank}, destination : Destinations \cup {Blank}]

LEMMA DaySound ==
  ASSUME NEW t \in Int
  PROVE  /\ StartOfDay(t) \in Int /\ EndOfDay(t) \in Int
         /\ StartOfDay(t) <= t /\ t <= EndOfDay(t)
         /\ StartOfDay(t) % DayLen = 0 /\ EndOfDay(t) = StartOfDay(t) + DayLen - 1
<1> DEFINE r == t % DayLen
<1>1. DayLen \in Nat \ {0}
  BY PlannerAssumption
<1>2. r \in 0..(DayLen - 1) /\ (t - r) % DayLen = 0
  BY <1>1, InstantInItsDay
<1>3. StartOfDay(t) = t - r /\ EndOfDay(t) = (t - r) + DayLen - 1
  BY DEF StartOfDay, EndOfDay
<1> HIDE DEF r
<1>4. StartOfDay(t) % DayLen = 0
  BY <1>2, <1>3
<1> QED BY <1>1, <1>2, <1>3, <1>4

LEMMA WeekSound ==
  ASSUME NEW t \in Int
  PROVE  StartOfWeek(t) \in Int /\ StartOfWeek(t) <= t
<1>1. DayLen * WeekLen \in Nat \ {0}
  BY PlannerAssumption
<1> DEFINE r == t % (DayLen * WeekLen)
<1>2. r \in 0..(DayLen * WeekLen - 1) /\ StartOfWeek(t) = t - r
  BY <1>1, InstantInItsDay DEF StartOfWeek
<1> HIDE DEF r
<1>3. r \in Int /\ r >= 0
  BY <1>1, <1>2
<1> QED BY <1>2, <1>3

LEMMA MonthSound ==
  ASSUME NEW t \in Int
  PROVE  StartOfMonth(t) \in Int /\ StartOfMonth(t) <= t
<1>1. DayLen * MonthLen \in Nat \ {0}
  BY PlannerAssumption
<1> DEFINE r == t % (DayLen * MonthLen)
<1>2. r \in 0..(DayLen * MonthLen - 1) /\ StartOfMonth(t) = t - r
  BY <1>1, InstantInItsDay DEF StartOfMonth
<1> HIDE DEF r
<1>3. r \in Int /\ r >= 0
  BY <1>1, <1>2
<1> QED BY <1>2, <1>3

LEMMA OneDaySound ==
  ASSUME NEW f, Sound(f), NEW t \in Int
  PROVE  Sound(OneDay(f, t))
<1>1. /\ StartOfDay(t) \in Int /\ EndOfDay(t) \in Int /\ StartOfDay(t) <= EndOfDay(t)
      /\ StartOfDay(t) % DayLen = 0 /\ EndOfDay(t) = StartOfDay(t) + DayLen - 1
  BY DaySound
<1>2. f \in Forms
  BY DEF Sound
<1>3. OneDay(f, t) = [f EXCEPT !.start = StartOfDay(t), !.end = EndOfDay(t), !.mode = "single"]
  BY DEF OneDay
<1> DEFINE g == [f EXCEPT !.start = StartOfDay(t), !.end = EndOfDay(t), !.mode = "single"]
<1>4. g \in Forms /\ g.start = StartOfDay(t) /\ g.end = EndOfDay(t)
  BY <1>1, <1>2 DEF Forms
<1> HIDE DEF g
<1> QED BY <1>1, <1>3, <1>4 DEF Sound, g

LEMMA PresetSound ==
  ASSUME NEW f, Sound(f), now \in Int, NEW key \in PresetKeys
  PROVE  Sound([f EXCEPT !.start = PresetWindow(key).start, !.end = PresetWindow(key).end,
                         !.mode = PresetMode(key)])
<1> DEFINE w == PresetWindow(key)
<1>1. DayLen \in Nat \ {0, 1}
  BY PlannerAssumption
<1>2. CASE key = "today"
  <2>1. w = [start |-> StartOfDay(now), end |-> EndOfDay(now)] /\ PresetMode(key) = "single"
    BY <1>2 DEF PresetWindow, PresetMode
  <2> HIDE DEF w
  <2>2. w.start \in Int /\ w.end \in Int /\ w.start <= w.end
        /\ w.start % DayLen = 0 /\ w.end = w.start + DayLen - 1
    BY <1>1, <2>1, DaySound
  <2> QED BY <2>1, <2>2 DEF Sound, Forms, w
<1>3. CASE key = "yesterday"
  <2>1. w = [start |-> StartOfDay(now) - DayLen, end |-> StartOfDay(now) - 1] /\ PresetMode(key) = "single"
    BY <1>3 DEF PresetWindow, PresetMode
  <2> HIDE DEF w
  <2>2. (StartOfDay(now) - DayLen) % DayLen = 0
    BY <1>1, DaySound, DayBefore
  <2>3. w.start \in Int /\ w.end \in Int /\ w.start <= w.end
        /\ w.start % DayLen = 0 /\ w.end = w.start + DayLen - 1
    BY <1>1, <2>1, <2>2, DaySound
  <2> QED BY <2>1, <2>3 DEF Sound, Forms, w
<1>4. CASE key \in {"this-week", "this-month", "last-week", "last-month"}
  <2>1. PresetMode(key) = "range"
    BY <1>4 DEF PresetMode
  <2>2. w \in {[start |-> StartOfWeek(now), end |-> EndOfDay(now)],
               [start |-> StartOfMonth(now), end |-> EndOfDay(now)],
               [start |-> StartOfWeek(StartOfWeek(now) - 1), end |-> StartOfWeek(now) - 1],
               [start |-> StartOfMonth(StartOfMonth(now) - 1), end |-> StartOfMonth(now) - 1]}
    BY <1>4 DEF PresetWindow
  <2> HIDE DEF w
  <2>3. CASE w \in {[start |-> StartOfWeek(now), end |-> EndOfDay(now)],
                    [start |-> StartOfMonth(now), end |-> EndOfDay(now)]}
    <3>1. w.start \in Int /\ w.end \in Int /\ w.start <= w.end
      BY <2>3, DaySound, WeekSound, MonthSound
    <3> QED BY <2>1, <3>1 DEF Sound, Forms, w
  <2>4. CASE w = [start |-> StartOfWeek(StartOfWeek(now) - 1), end |-> StartOfWeek(now) - 1]
    <3>1. StartOfWeek(now) - 1 \in Int
      BY WeekSound
    <3>2. w.start \in Int /\ w.end \in Int /\ w.start <= w.end
      BY <2>4, <3>1, WeekSound
    <3> QED BY <2>1, <3>2 DEF Sound, Forms, w
  <2>5. CASE w = [start |-> StartOfMonth(StartOfMonth(now) - 1), end |-> StartOfMonth(now) - 1]
    <3>1. StartOfMonth(now) - 1 \in Int
      BY MonthSound
    <3>2. w.start \in Int /\ w.end \in Int /\ w.start <= w.end
      BY <2>5, <3>1, MonthSound
    <3> QED BY <2>1, <3>2 DEF Sound, Forms, w
  <2> QED BY <2>2, <2>3, <2>4, <2>5
<1> QED BY <1>2, <1>3, <1>4 DEF PresetKeys

LEMMA RecalledSound ==
  ASSUME NEW f, Sound(f),
         NEW saved \in [label : Labels \cup {Blank}, destination : Destinations \cup {Blank}]
  PROVE  /\ Sound(Recalled(f, saved))
         /\ Recalled(f, saved).start = f.start /\ Recalled(f, saved).end = f.end
BY DEF Recalled, Sound, Forms

LEMMA FormInitially == PlannerInit => FormInv
<1> SUFFICES ASSUME PlannerInit PROVE FormInv
  OBVIOUS
<1> DEFINE f == [label |-> Blank, destination |-> Blank, mode |-> "single",
                 start |-> StartOfDay(now), end |-> EndOfDay(now)]
<1>1. now \in Int /\ form = Recalled(f, lastUsed)
  BY PlannerAssumption DEF PlannerInit
<1>2. lastUsed \in [label : Labels \cup {Blank}, destination : Destinations \cup {Blank}]
  BY PlannerAssumption DEF PlannerInit
<1>3. Sound(f)
  BY <1>1, DaySound, PlannerAssumption DEF Sound, Forms
<1> HIDE DEF f
<1> QED BY <1>1, <1>2, <1>3, RecalledSound DEF FormInv

LEMMA FormKept ==
  ASSUME FormInv, [PlannerNext]_plannerVars
  PROVE  FormInv'
<1>0. now \in Int /\ Sound(form) /\ form \in Forms /\ form.start \in Int /\ form.end \in Int
  BY DEF FormInv, Sound, Forms
<1>1. ASSUME NEW f, Sound(f), form' = f, UNCHANGED <<now, lastUsed>> PROVE FormInv'
  BY <1>1 DEF FormInv, Sound
<1>2. ASSUME NEW l \in Labels, ChooseLabel(l) PROVE FormInv'
  <2>1. Sound([form EXCEPT !.label = l])
    BY <1>0 DEF Sound, Forms
  <2> QED BY <1>1, <1>2, <2>1 DEF ChooseLabel, Fills
<1>3. ASSUME NEW t \in Picks, PickStart(t) PROVE FormInv'
  <2>1. t \in Int /\ EndOfDay(t) \in Int /\ t <= EndOfDay(t)
    BY DaySound, PlannerAssumption
  <2> DEFINE end == IF t > form.end THEN EndOfDay(t) ELSE form.end
  <2>2. end \in Int /\ t <= end
    BY <1>0, <2>1
  <2>3. form' = [form EXCEPT !.start = t, !.end = end] /\ form.mode = "range"
    BY <1>0, <1>3 DEF PickStart, Fills
  <2> HIDE DEF end
  <2>4. Sound([form EXCEPT !.start = t, !.end = end])
    BY <1>0, <2>1, <2>2, <2>3 DEF Sound, Forms
  <2> QED BY <1>1, <1>3, <2>3, <2>4 DEF PickStart, Fills
<1>4. ASSUME NEW t \in Picks, PickEnd(t) PROVE FormInv'
  <2>1. t \in Int /\ StartOfDay(t) \in Int /\ StartOfDay(t) <= t
    BY DaySound, PlannerAssumption
  <2> DEFINE start == IF t < form.start THEN StartOfDay(t) ELSE form.start
  <2>2. start \in Int /\ start <= t
    BY <1>0, <2>1
  <2>3. form' = [form EXCEPT !.start = start, !.end = t] /\ form.mode = "range"
    BY <1>0, <1>4 DEF PickEnd, Fills, Forms
  <2> HIDE DEF start
  <2>4. Sound([form EXCEPT !.start = start, !.end = t])
    BY <1>0, <2>1, <2>2, <2>3 DEF Sound, Forms
  <2> QED BY <1>1, <1>4, <2>3, <2>4 DEF PickEnd, Fills
<1>5. ASSUME NEW t \in Picks, PickDay(t) PROVE FormInv'
  <2>1. Sound(OneDay(form, t))
    BY <1>0, OneDaySound, PlannerAssumption
  <2> QED BY <1>1, <1>5, <2>1 DEF PickDay, Fills
<1>6. ASSUME NEW mode \in {"range", "single"}, SetManualMode(mode) PROVE FormInv'
  <2>1. Sound(OneDay(form, form.start))
    BY <1>0, OneDaySound
  <2>2. Sound([form EXCEPT !.mode = "range"])
    BY <1>0 DEF Sound, Forms
  <2> QED BY <1>1, <1>6, <2>1, <2>2 DEF SetManualMode, Fills
<1>7. ASSUME NEW key \in PresetKeys, ApplyDatePreset(key) PROVE FormInv'
  BY <1>0, <1>1, <1>7, PresetSound DEF ApplyDatePreset, Fills
<1>8. ASSUME NEW d \in Destinations \cup {Blank}, TypeDestination(d) PROVE FormInv'
  <2>1. Sound([form EXCEPT !.destination = d])
    BY <1>0 DEF Sound, Forms
  <2> QED BY <1>1, <1>8, <2>1 DEF TypeDestination
<1>9. CASE CustomRange
  <2>1. Sound([form EXCEPT !.mode = "range"])
    BY <1>0 DEF Sound, Forms
  <2> QED BY <1>1, <1>9, <2>1 DEF CustomRange
<1>10. CASE LoadArrives
  <2>1. \A l \in Labels : Sound([form EXCEPT !.label = l])
    BY <1>0 DEF Sound, Forms
  <2>2. UNCHANGED <<now, lastUsed>> /\ (form' = form \/ \E l \in Labels : form' = [form EXCEPT !.label = l])
    BY <1>10 DEF LoadArrives
  <2> QED BY <1>0, <1>1, <2>1, <2>2
<1>11. CASE QueueActionArrives
  <2>1. Sound(Recalled(form, lastUsed))
    BY <1>0, RecalledSound DEF FormInv
  <2> QED BY <1>0, <1>1, <1>11, <2>1 DEF QueueActionArrives
<1>12. CASE RunArrives
  <2>1. UNCHANGED <<now, form>>
    BY <1>12 DEF RunArrives
  <2>2. lastUsed' = lastUsed \/ lastUsed' = [label |-> form.label, destination |-> form.destination]
    BY <1>12 DEF RunArrives
  <2>3. form.label \in Labels \cup {Blank} /\ form.destination \in Destinations \cup {Blank}
    BY <1>0 DEF Forms
  <2> QED BY <2>1, <2>2, <2>3 DEF FormInv, Sound
<1>13. CASE \/ ClickPreview \/ ClickRun \/ ClickQueueAction \/ TimerFires \/ DebounceFires
            \/ \E r \in previews : PreviewArrives(r)
            \/ UNCHANGED plannerVars
  <2>1. UNCHANGED <<now, form, lastUsed>>
    BY <1>13 DEF ClickPreview, ClickRun, ClickQueueAction, TimerFires, DebounceFires, PreviewArrives,
                 plannerVars, plannerPage
  <2> QED BY <2>1 DEF FormInv, Sound
<1>14. CASE Midnight
  <2>1. UNCHANGED <<form, lastUsed>> /\ now' \in Int
    BY <1>0, <1>14, PlannerAssumption DEF Midnight, plannerPage
  <2> QED BY <2>1 DEF FormInv, Sound
<1> QED BY <1>2, <1>3, <1>4, <1>5, <1>6, <1>7, <1>8, <1>9, <1>10, <1>11, <1>12, <1>13, <1>14
        DEF PlannerNext, User

-----------------------------------------------------------------------------
(* The export page: what is asked *)

\* Requests are numbered; none is refused for its window or for want of a label.
AskedInv ==
  /\ sent \in Nat
  /\ \A r \in previews : r \in Requests /\ r.number <= sent /\ Accepted(r.body)
  /\ preview # None => preview.number \in Nat /\ preview.number <= sent
  /\ \A body \in running : Accepted(body)

LEMMA BodySound ==
  ASSUME FormInv, form.label # Blank
  PROVE  Body \in Bodies /\ Accepted(Body)
BY DEF FormInv, Sound, Forms, Body, Bodies, Accepted, WindowAccepted

\* previewExport: a request with the next number and the form as it is, if there is a label.
LEMMA Sending ==
  ASSUME FormInv, AskedInv, Sends
  PROVE  /\ sent' \in Nat /\ sent <= sent'
         /\ \A r \in previews' : r \in Requests /\ r.number <= sent' /\ Accepted(r.body)
         /\ form.label # Blank =>
              /\ previews' # {}
              /\ sent' = sent + 1 /\ \A r \in previews' : r.number = sent' => r.body = Body
<1>1. CASE form.label = Blank
  BY <1>1 DEF Sends, AskedInv
<1>2. CASE form.label # Blank
  <2> DEFINE new == [number |-> sent + 1, body |-> Body]
  <2>1. sent' = sent + 1 /\ previews' = previews \cup {new} /\ sent \in Nat
    BY <1>2 DEF Sends, AskedInv
  <2>2. new \in Requests /\ new.number = sent' /\ new.body = Body /\ Accepted(new.body)
    BY <1>2, <2>1, BodySound DEF Requests
  <2>3. \A r \in previews : r \in Requests /\ r.number \in Nat /\ r.number <= sent /\ Accepted(r.body)
    BY DEF AskedInv, Requests
  <2> HIDE DEF new
  <2> QED BY <2>1, <2>2, <2>3
<1> QED BY <1>1, <1>2

LEMMA AskedInitially == PlannerInit => AskedInv
BY DEF PlannerInit, AskedInv

LEMMA AskedKept ==
  ASSUME FormInv, AskedInv, [PlannerNext]_plannerVars
  PROVE  AskedInv'
<1>1. CASE TimerFires \/ DebounceFires \/ ClickPreview
  <2>1. Sends /\ UNCHANGED <<preview, running>>
    BY <1>1 DEF TimerFires, DebounceFires, ClickPreview
  <2>2. sent \in Nat /\ (preview # None => preview.number \in Nat /\ preview.number <= sent)
    BY DEF AskedInv
  <2>3. \A body \in running : Accepted(body)
    BY DEF AskedInv
  <2> QED BY <2>1, <2>2, <2>3, Sending DEF AskedInv
<1>2. ASSUME NEW r \in previews, PreviewArrives(r) PROVE AskedInv'
  BY <1>2 DEF PreviewArrives, Shows, AskedInv, Requests
<1>3. CASE ClickRun
  <2>1. running' = {Body} /\ UNCHANGED <<sent, previews, preview>> /\ form.label # Blank
    BY <1>3 DEF ClickRun
  <2> QED BY <2>1, BodySound DEF AskedInv
<1>4. CASE RunArrives
  BY <1>4 DEF RunArrives, AskedInv
<1>5. CASE \/ \E l \in Labels : ChooseLabel(l)
           \/ \E t \in Picks : PickStart(t) \/ PickEnd(t) \/ PickDay(t)
           \/ \E mode \in {"range", "single"} : SetManualMode(mode)
           \/ \E key \in PresetKeys : ApplyDatePreset(key)
           \/ \E d \in Destinations \cup {Blank} : TypeDestination(d)
           \/ CustomRange \/ ClickQueueAction \/ LoadArrives \/ QueueActionArrives
           \/ Midnight \/ UNCHANGED plannerVars
  <2>1. UNCHANGED <<sent, previews, preview, running>>
    BY <1>5, ZenonT(40) DEF ChooseLabel, PickStart, PickEnd, PickDay, SetManualMode, ApplyDatePreset, Fills,
                TypeDestination, CustomRange, ClickQueueAction, LoadArrives, QueueActionArrives,
                Midnight, plannerVars, plannerPage
  <2> QED BY <2>1, SMTT(40) DEF AskedInv
<1> QED BY <1>1, <1>2, <1>3, <1>4, <1>5 DEF PlannerNext, User

-----------------------------------------------------------------------------
(* The export page: what is shown *)

Answers(r) == r.number = sent => r.body = Body

\* With nothing scheduled, the request sent last asks for the form as it is, and it is under
\* way or shown, or another one is.  A job's cancellation that is under way changes nothing
\* of that: it ends in a page load, or in nothing.
ShownInv ==
  /\ pageLoads \in Nat
  /\ ~timer /\ ~typing /\ pageLoads = 0 /\ form.label # Blank =>
       /\ preview # None \/ previews # {}
       /\ \A r \in previews : Answers(r)
       /\ preview # None => Answers(preview)

LEMMA ShownInitially == PlannerInit => ShownInv
BY DEF PlannerInit, ShownInv

LEMMA ShownKept ==
  ASSUME FormInv, AskedInv, ShownInv, [PlannerNext]_plannerVars
  PROVE  ShownInv'
<1>0. pageLoads \in Nat /\ form \in Forms
  BY DEF ShownInv, FormInv, Sound
<1>1. CASE TimerFires \/ DebounceFires \/ ClickPreview
  <2>1. Sends /\ UNCHANGED <<form, pageLoads, preview>>
    BY <1>1 DEF TimerFires, DebounceFires, ClickPreview
  <2>2. CASE form.label = Blank
    BY <1>0, <2>1, <2>2 DEF ShownInv
  <2>3. CASE form.label # Blank
    <3>1. /\ previews' # {} /\ sent' = sent + 1
          /\ \A r \in previews' : r.number = sent' => r.body = Body
      BY <2>1, <2>3, Sending
    <3>2. sent \in Nat /\ (preview # None => preview.number \in Nat /\ preview.number <= sent)
      BY DEF AskedInv
    <3>3. preview # None => preview.number # sent'
      BY <3>1, <3>2
    <3>4. Body' = Body
      BY <2>1 DEF Body
    <3> QED BY <1>0, <2>1, <3>1, <3>3, <3>4 DEF ShownInv, Answers
  <2> QED BY <2>2, <2>3
<1>2. ASSUME NEW r \in previews, PreviewArrives(r) PROVE ShownInv'
  <2>1. /\ preview' = r /\ previews' = previews \ {r}
        /\ UNCHANGED <<form, pageLoads, timer, typing, sent>>
    BY <1>2 DEF PreviewArrives, Shows
  <2>2. r # None
    BY PlannerAssumption DEF AskedInv
  <2>3. Body' = Body
    BY <2>1 DEF Body
  <2> QED BY <1>0, <2>1, <2>2, <2>3 DEF ShownInv, Answers
<1>3. ASSUME NEW f, Fills(f) PROVE ShownInv'
  BY <1>0, <1>3 DEF Fills, Scheduled, ShownInv
<1>4. CASE \/ \E l \in Labels : ChooseLabel(l)
           \/ \E t \in Picks : PickStart(t) \/ PickEnd(t) \/ PickDay(t)
           \/ \E mode \in {"range", "single"} : SetManualMode(mode)
           \/ \E key \in PresetKeys : ApplyDatePreset(key)
  BY <1>3, <1>4 DEF ChooseLabel, PickStart, PickEnd, PickDay, SetManualMode, ApplyDatePreset
<1>5. CASE \E d \in Destinations \cup {Blank} : TypeDestination(d)
  BY <1>0, <1>5 DEF TypeDestination, ShownInv
<1>6. CASE CustomRange
  <2>1. form' = [form EXCEPT !.mode = "range"] /\ UNCHANGED <<pageLoads, timer, typing, sent, previews, preview>>
    BY <1>6 DEF CustomRange
  <2>2. Body' = Body /\ form'.label = form.label
    BY <1>0, <2>1 DEF Body, Forms
  <2> QED BY <2>1, <2>2 DEF ShownInv, Answers
<1>7. CASE LoadArrives
  <2>1. pageLoads' = pageLoads - 1 /\ pageLoads > 0
    BY <1>7 DEF LoadArrives
  <2>2. form'.label # Blank => timer'
    BY <1>7 DEF LoadArrives
  <2> QED BY <1>0, <2>1, <2>2 DEF ShownInv
<1>8. CASE QueueActionArrives
  <2>1. CASE pageLoads' = pageLoads + 1
    BY <1>0, <2>1 DEF ShownInv
  <2>2. CASE UNCHANGED <<form, pageLoads>>
    <3>1. UNCHANGED <<form, pageLoads, timer, typing, sent, previews, preview>>
      BY <1>8, <2>2 DEF QueueActionArrives
    <3>2. Body' = Body
      BY <3>1 DEF Body
    <3> QED BY <3>1, <3>2 DEF ShownInv, Answers
  <2> QED BY <1>8, <2>1, <2>2 DEF QueueActionArrives
<1>9. CASE ClickRun \/ ClickQueueAction \/ RunArrives \/ Midnight \/ UNCHANGED plannerVars
  <2>1. UNCHANGED <<form, pageLoads, timer, typing, sent, previews, preview>>
    BY <1>9 DEF ClickRun, ClickQueueAction, RunArrives, Midnight, plannerVars, plannerPage
  <2>2. Body' = Body
    BY <2>1 DEF Body
  <2> QED BY <2>1, <2>2 DEF ShownInv, Answers
<1> QED BY <1>1, <1>2, <1>4, <1>5, <1>6, <1>7, <1>8, <1>9 DEF PlannerNext, User

-----------------------------------------------------------------------------
\* Whatever pickers, presets and modes are mixed and whenever midnight comes, no preview and
\* no run is refused for its window or for want of a label (app.js, setManualWindow,
\* setManualMode, applyDatePreset; web.py, _manual_export_window).
THEOREM NothingRefused == PlannerSpec => []RequestsSound
<1>1. FormInv /\ AskedInv => RequestsSound
  <2> SUFFICES ASSUME FormInv, AskedInv PROVE RequestsSound
    OBVIOUS
  <2>1. form.start \in Int /\ DayLen \in Nat \ {0}
    BY PlannerAssumption DEF FormInv, Sound, Forms
  <2>2. form.mode = "single" => form.start = StartOfDay(form.start) /\ form.end = EndOfDay(form.start)
    BY <2>1 DEF FormInv, Sound, StartOfDay, EndOfDay
  <2> QED BY <2>2 DEF FormInv, Sound, AskedInv, RequestsSound
<1> QED BY FormInitially, FormKept, AskedInitially, AskedKept, <1>1, PTL DEF PlannerSpec

\* A page that is quiet shows a preview of the form as it stands, if the answer to the request
\* sent last came last (app.js, schedulePreview, previewExport, loadExportPage).
THEOREM PreviewKeepsUp == PlannerSpec => []PreviewCurrent
<1>1. ShownInv => PreviewCurrent
  BY DEF ShownInv, PreviewCurrent, Quiet, Answers
<1> QED BY FormInitially, FormKept, AskedInitially, AskedKept, ShownInitially, ShownKept, <1>1, PTL
        DEF PlannerSpec

-----------------------------------------------------------------------------
(* The schools page and the jobs *)

USE GroupsAssumption

-----------------------------------------------------------------------------
(* The page *)

\* Loads are numbered from 1 on; an edit that succeeded loads the tree again.
PageInv ==
  /\ asked \in Nat /\ tree.number \in Nat /\ tree.number <= asked
  /\ \A l \in loads : DOMAIN l = {"number", "shown"} /\ l.number \in Nat /\ l.number <= asked
  /\ \A r \in requests : "answer" \in DOMAIN r
  /\ \/ \E r \in requests : r.answer = "ok"
     \/ /\ \A l \in loads : l.number = asked => l.shown \in {Nothing, Served(data)}
        /\ tree.number = asked => tree.shown = Served(data)

LEMMA PageInitially == Init => PageInv
BY DEF Init, PageInv

LEMMA PageKeeps ==
  ASSUME PageInv, [Next]_vars
  PROVE  PageInv'
<1> USE DEF PageInv
<1>1. ASSUME NEW e \in Edits, Ask(e) PROVE PageInv'
  <2>1. /\ requests' = requests \cup {[edit |-> e, keys |-> KeysFor(e), number |-> acts, answer |-> "none"]}
        /\ UNCHANGED <<data, tree, loads, asked>>
    BY <1>1 DEF Ask
  <2>2. \A r \in requests' : "answer" \in DOMAIN r
    BY <2>1
  <2>3. requests \subseteq requests'
    BY <2>1
  <2> QED BY <2>1, <2>2, <2>3
<1>2. ASSUME NEW r \in requests, Serve(r) PROVE PageInv'
  <2>1. UNCHANGED <<tree, loads, asked>> /\ r.answer = "none"
    BY <1>2 DEF Serve
  <2>2. CASE Answered(r, "error") /\ UNCHANGED data
    BY <2>1, <2>2 DEF Answered
  <2>3. CASE Answered(r, "ok")
    <3> DEFINE s == [r EXCEPT !.answer = "ok"]
    <3>1. requests' = (requests \ {r}) \cup {s}
      BY <2>3 DEF Answered
    <3>2. "answer" \in DOMAIN s /\ s.answer = "ok"
      OBVIOUS
    <3> HIDE DEF s
    <3>3. s \in requests' /\ \A q \in requests' : q \in requests \/ q = s
      BY <3>1
    <3> QED BY <2>1, <3>2, <3>3
  <2> QED BY <1>2, <2>2, <2>3 DEF Serve
<1>3. ASSUME NEW r \in requests, Receive(r) PROVE PageInv'
  <2>1. requests' = requests \ {r} /\ UNCHANGED <<data, tree>>
    BY <1>3 DEF Receive
  <2>2. CASE r.answer = "ok"
    <3>1. asked' = asked + 1 /\ loads' = loads \cup {[number |-> asked + 1, shown |-> Nothing]}
      BY <1>3, <2>2 DEF Receive
    <3>2. \A l \in loads' : /\ DOMAIN l = {"number", "shown"} /\ l.number \in Nat /\ l.number <= asked'
                            /\ l.number = asked' => l.shown = Nothing
      BY <3>1
    <3> QED BY <2>1, <3>1, <3>2
  <2>3. CASE r.answer # "ok"
    <3>1. UNCHANGED <<loads, asked>>
      BY <1>3, <2>3 DEF Receive
    <3> QED BY <2>1, <2>3, <3>1
  <2> QED BY <2>2, <2>3
<1>4. ASSUME NEW l \in loads, ServeTree(l) PROVE PageInv'
  <2>1. /\ loads' = (loads \ {l}) \cup {[l EXCEPT !.shown = Served(data)]}
        /\ UNCHANGED <<data, tree, requests, asked>>
    BY <1>4 DEF ServeTree
  <2> DEFINE m == [l EXCEPT !.shown = Served(data)]
  <2>2. DOMAIN m = {"number", "shown"} /\ m.number = l.number /\ m.shown = Served(data)
    OBVIOUS
  <2> HIDE DEF m
  <2> QED BY <2>1, <2>2 DEF m
<1>5. ASSUME NEW l \in loads, ShowTree(l) PROVE PageInv'
  BY <1>5 DEF ShowTree
<1>6. CASE Tick \/ \E w \in Threads : LookUp(w) \/ Load(w) \/ Store(w) \/ Done(w)
  <2>1. UNCHANGED <<data, page>>
    BY <1>6 DEF Tick, LookUp, Load, Store, Done
  <2> QED BY <2>1 DEF page
<1>7. CASE UNCHANGED vars
  BY <1>7 DEF vars, page
<1> QED BY <1>1, <1>2, <1>3, <1>4, <1>5, <1>6, <1>7 DEF Next

-----------------------------------------------------------------------------
(* The worker *)

\* The groups were in the files at some time from the first instant given.
SeenFrom(first, groups) == \E t \in 0..clock : t >= first /\ <<t, groups>> \in past

\* What is on its way into the cache was read after it was asked for, and so was what the
\* cache holds; what a thread works with may come from a cache that was fresh then.
WorkerInv ==
  /\ clock \in Nat /\ <<clock, data.groups>> \in past
  /\ DOMAIN thread = Threads
  /\ cache # Nothing => cache.at \in Nat /\ SeenFrom(cache.at, cache.groups)
  /\ \A w \in Threads :
       /\ DOMAIN thread[w] = {"step", "since", "groups"}
       /\ thread[w].since \in Nat /\ thread[w].since <= clock
       /\ thread[w].step = "store" => SeenFrom(thread[w].since, thread[w].groups)
       /\ thread[w].step = "has" =>
            \E t \in 0..clock : t + TTL > thread[w].since /\ <<t, thread[w].groups>> \in past

LEMMA WorkerInitially == Init => WorkerInv
<1> SUFFICES ASSUME Init PROVE WorkerInv
  OBVIOUS
<1>1. \A w \in Threads : thread[w] = [step |-> "idle", since |-> 0, groups |-> Nothing]
  BY DEF Init, Idle
<1> QED BY <1>1 DEF Init, WorkerInv

\* Time goes on and groups are edited: what was seen stays seen.
LEMMA PastGrows ==
  ASSUME WorkerInv, clock' \in Nat, clock <= clock', past \subseteq past',
         <<clock', data'.groups>> \in past', UNCHANGED worker
  PROVE  WorkerInv'
BY DEF WorkerInv, SeenFrom, worker

\* One thread moves, and what it works with or is about to store was seen.
LEMMA ThreadMoves ==
  ASSUME WorkerInv, NEW w \in Threads, NEW new,
         thread' = [thread EXCEPT ![w] = new],
         DOMAIN new = {"step", "since", "groups"}, new.since \in Nat, new.since <= clock,
         new.step = "store" => SeenFrom(new.since, new.groups),
         new.step = "has" => \E t \in 0..clock : t + TTL > new.since /\ <<t, new.groups>> \in past,
         cache' # Nothing => cache'.at \in Nat /\ SeenFrom(cache'.at, cache'.groups),
         UNCHANGED <<data, bounds, past>>
  PROVE  WorkerInv'
<1>1. UNCHANGED <<clock, past, data>> /\ DOMAIN thread' = Threads
  BY DEF bounds, WorkerInv
<1>2. thread'[w] = new /\ \A v \in Threads \ {w} : thread'[v] = thread[v]
  BY DEF WorkerInv
<1>3. \A v \in Threads :
       /\ DOMAIN thread'[v] = {"step", "since", "groups"}
       /\ thread'[v].since \in Nat /\ thread'[v].since <= clock
       /\ thread'[v].step = "store" => SeenFrom(thread'[v].since, thread'[v].groups)
       /\ thread'[v].step = "has" =>
            \E t \in 0..clock : t + TTL > thread'[v].since /\ <<t, thread'[v].groups>> \in past
  <2> TAKE v \in Threads
  <2>1. CASE v = w
    BY <1>2, <2>1
  <2>2. CASE v # w
    BY <1>2, <2>2 DEF WorkerInv
  <2> QED BY <2>1, <2>2
<1> QED BY <1>1, <1>3 DEF WorkerInv, SeenFrom

LEMMA WorkerKeeps ==
  ASSUME WorkerInv, [Next]_vars
  PROVE  WorkerInv'
<1>0. clock \in Nat /\ <<clock, data.groups>> \in past
  BY DEF WorkerInv
<1>1. CASE \/ \E e \in Edits : Ask(e)
           \/ \E r \in requests : Receive(r)
           \/ \E l \in loads : ServeTree(l) \/ ShowTree(l)
           \/ UNCHANGED vars
  <2>1. UNCHANGED <<data, worker, clock, past>>
    BY <1>1 DEF Ask, Receive, ServeTree, ShowTree, vars, bounds
  <2> QED BY <1>0, <2>1, PastGrows
<1>2. ASSUME NEW r \in requests, Serve(r) PROVE WorkerInv'
  <2>1. UNCHANGED <<worker, clock>> /\ past \subseteq past' /\ <<clock', data'.groups>> \in past'
    BY <1>0, <1>2 DEF Serve, bounds
  <2> QED BY <1>0, <2>1, PastGrows
<1>3. CASE Tick
  BY <1>0, <1>3, PastGrows DEF Tick
<1>4. ASSUME NEW w \in Threads, LookUp(w) PROVE WorkerInv'
  <2>1. UNCHANGED <<data, cache, bounds, past>>
    BY <1>4 DEF LookUp
  <2>2. cache' # Nothing => cache'.at \in Nat /\ SeenFrom(cache'.at, cache'.groups)
    BY <2>1 DEF WorkerInv
  <2>3. CASE Fresh
    <3> DEFINE new == [step |-> "has", since |-> clock, groups |-> cache.groups]
    <3>1. thread' = [thread EXCEPT ![w] = new]
      BY <1>4, <2>3 DEF LookUp
    <3>2. \E t \in 0..clock : t + TTL > clock /\ <<t, cache.groups>> \in past
      BY <1>0, <2>3 DEF Fresh, WorkerInv, SeenFrom
    <3>3. DOMAIN new = {"step", "since", "groups"} /\ new.step = "has"
          /\ new.since \in Nat /\ new.since <= clock
          /\ \E t \in 0..clock : t + TTL > new.since /\ <<t, new.groups>> \in past
      BY <1>0, <3>2
    <3> HIDE DEF new
    <3> QED BY <2>1, <2>2, <3>1, <3>3, ThreadMoves
  <2>4. CASE ~Fresh
    <3> DEFINE new == [step |-> "load", since |-> clock, groups |-> Nothing]
    <3>1. thread' = [thread EXCEPT ![w] = new]
      BY <1>4, <2>4 DEF LookUp
    <3>2. DOMAIN new = {"step", "since", "groups"} /\ new.step = "load"
          /\ new.since \in Nat /\ new.since <= clock
      BY <1>0
    <3> HIDE DEF new
    <3> QED BY <2>1, <2>2, <3>1, <3>2, ThreadMoves
  <2> QED BY <2>3, <2>4
<1>5. ASSUME NEW w \in Threads, Load(w) \/ Store(w) \/ Done(w) PROVE WorkerInv'
  <2>1. /\ DOMAIN thread = Threads /\ DOMAIN thread[w] = {"step", "since", "groups"}
        /\ thread[w].since \in Nat /\ thread[w].since <= clock
    BY DEF WorkerInv
  <2>2. UNCHANGED <<data, bounds, past>>
    BY <1>5 DEF Load, Store, Done
  <2>3. CASE Load(w) /\ Loadable(data)
    <3> DEFINE new == [thread[w] EXCEPT !.step = "store", !.groups = data.groups]
    <3>1. UNCHANGED cache /\ thread' = [thread EXCEPT ![w] = new]
      BY <2>3 DEF Load
    <3>2. DOMAIN new = {"step", "since", "groups"} /\ new.step = "store"
          /\ new.since = thread[w].since /\ new.groups = data.groups
      BY <2>1
    <3>3. SeenFrom(thread[w].since, data.groups)
      BY <1>0, <2>1 DEF SeenFrom
    <3>4. cache' # Nothing => cache'.at \in Nat /\ SeenFrom(cache'.at, cache'.groups)
      BY <3>1 DEF WorkerInv
    <3> HIDE DEF new
    <3> QED BY <2>1, <2>2, <3>1, <3>2, <3>3, <3>4, ThreadMoves
  <2>4. CASE (Load(w) /\ ~Loadable(data)) \/ Done(w)
    <3> DEFINE new == [step |-> "idle", since |-> 0, groups |-> Nothing]
    <3>1. UNCHANGED cache /\ thread' = [thread EXCEPT ![w] = new]
      BY <2>4 DEF Load, Done, Idle
    <3>2. DOMAIN new = {"step", "since", "groups"} /\ new.step = "idle"
          /\ new.since \in Nat /\ new.since <= clock
      BY <1>0
    <3>3. cache' # Nothing => cache'.at \in Nat /\ SeenFrom(cache'.at, cache'.groups)
      BY <3>1 DEF WorkerInv
    <3> HIDE DEF new
    <3> QED BY <2>2, <3>1, <3>2, <3>3, ThreadMoves
  <2>5. CASE Store(w)
    <3> DEFINE new == [thread[w] EXCEPT !.step = "has"]
    <3>1. /\ cache' = [at |-> thread[w].since, groups |-> thread[w].groups]
          /\ thread' = [thread EXCEPT ![w] = new]
      BY <2>5 DEF Store
    <3>2. DOMAIN new = {"step", "since", "groups"} /\ new.step = "has"
          /\ new.since = thread[w].since /\ new.groups = thread[w].groups
      BY <2>1
    <3>3. SeenFrom(thread[w].since, thread[w].groups)
      BY <2>5 DEF Store, WorkerInv
    <3>4. \E t \in 0..clock : t + TTL > thread[w].since /\ <<t, thread[w].groups>> \in past
      BY <1>0, <2>1, <3>3 DEF SeenFrom
    <3>5. cache'.at \in Nat /\ SeenFrom(cache'.at, cache'.groups)
      BY <2>1, <3>1, <3>3
    <3> HIDE DEF new
    <3> QED BY <2>1, <2>2, <3>1, <3>2, <3>4, <3>5, ThreadMoves
  <2> QED BY <1>5, <2>3, <2>4, <2>5
<1> QED BY <1>1, <1>2, <1>3, <1>4, <1>5 DEF Next

-----------------------------------------------------------------------------
(* Types *)

LEMMA PutTyped ==
  ASSUME NEW S, NEW T, NEW f \in Tables(S, T), NEW k \in S, NEW x \in T
  PROVE  Put(f, k, x) \in Tables(S, T)
<1>1. PICK D \in SUBSET S : f \in [D -> T]
  BY DEF Tables
<1>2. Put(f, k, x) \in [D \cup {k} -> T]
  BY <1>1 DEF Put
<1> QED BY <1>2 DEF Tables

LEMMA DropTyped ==
  ASSUME NEW S, NEW T, NEW f \in Tables(S, T), NEW k
  PROVE  Drop(f, k) \in Tables(S, T)
<1>1. PICK D \in SUBSET S : f \in [D -> T]
  BY DEF Tables
<1>2. Drop(f, k) \in [D \ {k} -> T]
  BY <1>1 DEF Drop
<1> QED BY <1>2 DEF Tables

LEMMA TableTyped ==
  ASSUME NEW S, NEW T, NEW f \in Tables(S, T)
  PROVE  DOMAIN f \subseteq S /\ \A k \in DOMAIN f : f[k] \in T
BY DEF Tables

LEMMA EmptyTyped == ASSUME NEW S, NEW T PROVE <<>> \in Tables(S, T)
<1>1. <<>> \in [{} -> T]
  OBVIOUS
<1> QED BY <1>1 DEF Tables

LEMMA ServedTyped == ASSUME NEW d \in Data PROVE Served(d) \in Data
BY EmptyTyped DEF Served, Data, GroupTables

SchoolOps == {"create_school", "edit_school", "delete_school", "duplicate_school", "add_key", "delete_key"}
GroupOps == {"create_group", "delete_group"} \cup Toggles

\* What the page asks for names schools, keys and groups that can be.
EditTyped(e) ==
  /\ e.op \in SchoolOps \cup GroupOps
  /\ e.op \in SchoolOps => e.school \in Schools
  /\ e.op \in {"add_key", "delete_key"} => e.key \in Keys
  /\ e.op \in GroupOps => e.group \in Names

RequestsTyped ==
  \A r \in requests :
    /\ DOMAIN r = {"edit", "keys", "number", "answer"}
    /\ EditTyped(r.edit) /\ r.keys \subseteq Keys /\ r.answer \in {"none", "ok", "error"}

KeysKept(d) == \A g \in DOMAIN d.groups : d.groups[g].keys # {} \/ Keyless(g)

LoadsTyped ==
  \A l \in loads : /\ DOMAIN l = {"number", "shown"} /\ l.number \in 1..asked
                   /\ l.shown = Nothing \/ l.shown \in Data

\* TypeOK, and the types of what is on its way.
TypeInv ==
  /\ TypeOK /\ RequestsTyped /\ LoadsTyped /\ asked \in Nat /\ DOMAIN thread = Threads

LEMMA EditsTyped ==
  ASSUME tree.shown \in Data, NEW e \in Edits
  PROVE  EditTyped(e) /\ KeysFor(e) \subseteq Keys
<1> DEFINE keysOf == Shown.keysOf
<1> DEFINE groups == Shown.groups
<1>1. keysOf \in Tables(Schools, SUBSET Keys) /\ groups \in Tables(Names, [keys : SUBSET Keys, on : BOOLEAN])
  BY DEF Shown, Data, GroupTables
<1>2. DOMAIN keysOf \subseteq Schools /\ \A s \in DOMAIN keysOf : keysOf[s] \subseteq Keys
  BY <1>1, TableTyped
<1>3. DOMAIN groups \subseteq Names
  BY <1>1, TableTyped
<1>4. \A s \in DOMAIN keysOf : KeysFor(e) \subseteq Keys \/ e.school # s
  BY <1>2 DEF KeysFor
<1>5. e.op # "create_group" => KeysFor(e) = {}
  BY DEF KeysFor
<1> USE DEF EditTyped, SchoolOps, GroupOps, Toggles
<1>6. ASSUME NEW s \in Schools, NEW op \in {"create_school", "edit_school", "delete_school", "duplicate_school"},
             e = Edit(op, s, Nothing, Nothing)
      PROVE  EditTyped(e) /\ KeysFor(e) \subseteq Keys
  <2>1. e.op = op /\ e.school = s
    BY <1>6 DEF Edit
  <2> QED BY <1>5, <2>1
<1>7. ASSUME NEW s \in DOMAIN keysOf, NEW k \in Keys, NEW op \in {"add_key", "delete_key"},
             e = Edit(op, s, k, Nothing)
      PROVE  EditTyped(e) /\ KeysFor(e) \subseteq Keys
  <2>1. e.op = op /\ e.school = s /\ e.key = k
    BY <1>7 DEF Edit
  <2> QED BY <1>2, <1>5, <2>1
<1>8. ASSUME NEW s \in DOMAIN keysOf, NEW g \in Names, e = Edit("create_group", s, Nothing, g)
      PROVE  EditTyped(e) /\ KeysFor(e) \subseteq Keys
  <2>1. e.op = "create_group" /\ e.school = s /\ e.group = g
    BY <1>8 DEF Edit
  <2> QED BY <1>4, <2>1
<1>9. ASSUME NEW g \in DOMAIN groups, NEW op \in {"delete_group"} \cup Toggles,
             e = Edit(op, Nothing, Nothing, g)
      PROVE  EditTyped(e) /\ KeysFor(e) \subseteq Keys
  <2>1. e.op = op /\ e.group = g
    BY <1>9 DEF Edit
  <2> QED BY <1>3, <1>5, <2>1
<1>10. CASE e \in SchoolEdits
  <2>1. CASE \E s \in Schools : e = Edit("create_school", s, Nothing, Nothing)
    BY <1>6, <2>1
  <2>2. CASE \E op \in {"edit_school", "delete_school", "duplicate_school"}, s \in DOMAIN keysOf :
               e = Edit(op, s, Nothing, Nothing)
    BY <1>2, <1>6, <2>2
  <2>3. \/ e \in {Edit("create_school", s, Nothing, Nothing) : s \in Schools}
        \/ e \in {Edit(op, s, Nothing, Nothing) :
                    op \in {"edit_school", "delete_school", "duplicate_school"}, s \in DOMAIN keysOf}
    BY <1>10 DEF SchoolEdits
  <2> HIDE DEF keysOf
  <2> QED BY <2>1, <2>2, <2>3
<1>11. CASE e \in KeyEdits
  <2>1. PICK s \in DOMAIN keysOf :
          e \in {Edit("add_key", s, k, Nothing) : k \in Keys}
                \cup {Edit("delete_key", s, k, Nothing) : k \in keysOf[s]}
    BY <1>11 DEF KeyEdits
  <2> HIDE DEF keysOf
  <2> QED BY <1>2, <1>7, <2>1
<1>12. CASE e \in GroupEdits
  <2>1. CASE \E s \in DOMAIN keysOf, g \in Names : e = Edit("create_group", s, Nothing, g)
    BY <1>8, <2>1
  <2>2. CASE \E g \in DOMAIN groups : e \in {Edit("delete_group", Nothing, Nothing, g),
                                             Edit(IF groups[g].on THEN "disable_group" ELSE "enable_group", Nothing, Nothing, g)}
    <3>1. PICK g \in DOMAIN groups : \/ e = Edit("delete_group", Nothing, Nothing, g)
                                     \/ e = Edit(IF groups[g].on THEN "disable_group" ELSE "enable_group", Nothing, Nothing, g)
      BY <2>2
    <3> HIDE DEF groups
    <3> QED BY <1>9, <3>1
  <2>3. \/ e \in {Edit("create_group", s, Nothing, g) : s \in DOMAIN keysOf, g \in Names}
        \/ \E g \in DOMAIN groups :
             e \in {Edit("delete_group", Nothing, Nothing, g),
                    Edit(IF groups[g].on THEN "disable_group" ELSE "enable_group", Nothing, Nothing, g)}
    BY <1>12 DEF GroupEdits
  <2> HIDE DEF keysOf, groups
  <2> QED BY <2>1, <2>2, <2>3
<1> QED BY <1>10, <1>11, <1>12 DEF Edits

LEMMA SchoolsTyped ==
  ASSUME NEW e, EditTyped(e), e.op \in SchoolOps, NEW d \in Data, NEW new \in EditedSchools(e, d)
  PROVE  new \in Tables(Schools, SUBSET Keys)
<1>1. d.keysOf \in Tables(Schools, SUBSET Keys) /\ e.school \in Schools
  BY DEF Data, EditTyped
<1>2. DOMAIN d.keysOf \subseteq Schools /\ \A s \in DOMAIN d.keysOf : d.keysOf[s] \in SUBSET Keys
  BY <1>1, TableTyped
<1>3. CASE e.op = "create_school"
  <2>1. new = Put(d.keysOf, e.school, {})
    BY <1>3 DEF EditedSchools
  <2> QED BY <1>1, <2>1, PutTyped
<1>4. CASE e.op # "create_school" /\ e.school \in DOMAIN d.keysOf
  <2>1. CASE e.op = "edit_school"
    <3>1. new = d.keysOf
      BY <1>4, <2>1 DEF EditedSchools
    <3> QED BY <1>1, <3>1
  <2>2. CASE e.op = "delete_school"
    <3>1. new = Drop(d.keysOf, e.school)
      BY <1>4, <2>2 DEF EditedSchools
    <3> QED BY <1>1, <3>1, DropTyped
  <2>3. CASE e.op = "duplicate_school"
    <3>1. PICK s \in Schools : new = Put(d.keysOf, s, d.keysOf[e.school])
      BY <1>4, <2>3 DEF EditedSchools
    <3> QED BY <1>1, <1>2, <1>4, <3>1, PutTyped
  <2>4. CASE e.op = "add_key"
    <3>1. new = Put(d.keysOf, e.school, d.keysOf[e.school] \cup {e.key}) /\ e.key \in Keys
      BY <1>4, <2>4 DEF EditedSchools, EditTyped
    <3>2. d.keysOf[e.school] \cup {e.key} \in SUBSET Keys
      BY <1>2, <1>4, <3>1
    <3> QED BY <1>1, <3>1, <3>2, PutTyped
  <2>5. CASE e.op = "delete_key"
    <3>1. new = Put(d.keysOf, e.school, d.keysOf[e.school] \ {e.key})
      BY <1>4, <2>5 DEF EditedSchools
    <3>2. d.keysOf[e.school] \ {e.key} \in SUBSET Keys
      BY <1>2, <1>4
    <3> QED BY <1>1, <3>1, <3>2, PutTyped
  <2> QED BY <1>4, <2>1, <2>2, <2>3, <2>4, <2>5 DEF SchoolOps
<1>5. e.op # "create_school" => e.school \in DOMAIN d.keysOf
  BY DEF EditedSchools
<1> QED BY <1>3, <1>4, <1>5

LEMMA GroupsTyped ==
  ASSUME NEW r, EditTyped(r.edit), r.edit.op \in GroupOps, r.keys \subseteq Keys,
         NEW d \in Data, KeysKept(d), NEW new \in EditedGroups(r, d)
  PROVE  /\ new \in GroupTables
         /\ \A g \in DOMAIN new : new[g].keys # {} \/ Keyless(g)
<1> DEFINE g == r.edit.group
<1> DEFINE T == [keys : SUBSET Keys, on : BOOLEAN]
<1>1. d.groups \in Tables(Names, T) /\ g \in Names
  BY DEF Data, GroupTables, EditTyped
<1>2. DOMAIN d.groups \subseteq Names /\ \A n \in DOMAIN d.groups : d.groups[n] \in T
  <2> HIDE DEF T
  <2> QED BY <1>1, TableTyped
<1>3. CASE r.edit.op = "create_group"
  <2> DEFINE x == [keys |-> r.keys, on |-> TRUE]
  <2>1. new = Put(d.groups, g, x) /\ r.keys # {}
    BY <1>3 DEF EditedGroups, Toggles
  <2>2. x \in T /\ x.keys # {}
    BY <2>1
  <2> HIDE DEF x, T, g
  <2>3. new \in Tables(Names, T)
    BY <1>1, <2>1, <2>2, PutTyped
  <2> QED BY <2>1, <2>2, <2>3 DEF Put, KeysKept, GroupTables, T
<1>4. CASE r.edit.op = "delete_group"
  <2>1. new = Drop(d.groups, g)
    BY <1>4 DEF EditedGroups, Toggles
  <2> HIDE DEF T, g
  <2>2. new \in Tables(Names, T)
    BY <1>1, <2>1, DropTyped
  <2> QED BY <2>1, <2>2 DEF Drop, KeysKept, GroupTables, T
<1>5. CASE r.edit.op \in Toggles
  <2> DEFINE x == [d.groups[g] EXCEPT !.on = r.edit.op = "enable_group"]
  <2>1. new \in {Put(d.groups, g, x)} /\ g \in DOMAIN d.groups
    BY <1>5 DEF EditedGroups, Toggles
  <2>2. x \in T /\ x.keys = d.groups[g].keys
    BY <1>1, <1>2, <2>1
  <2> HIDE DEF x, T, g
  <2>3. new \in Tables(Names, T)
    BY <1>1, <2>1, <2>2, PutTyped
  <2> QED BY <2>1, <2>2, <2>3 DEF Put, KeysKept, GroupTables, T
<1> QED BY <1>3, <1>4, <1>5 DEF GroupOps

LEMMA EditedTyped ==
  ASSUME NEW r, EditTyped(r.edit), r.keys \subseteq Keys,
         NEW d \in Data, KeysKept(d), NEW new \in Edited(r, d)
  PROVE  new \in Data /\ KeysKept(new)
<1>1. CASE r.edit.op \in GroupOps
  <2>1. PICK groups \in EditedGroups(r, d) : new = [d EXCEPT !.groups = groups]
    BY <1>1 DEF Edited, GroupOps, Toggles
  <2>2. groups \in GroupTables /\ \A g \in DOMAIN groups : groups[g].keys # {} \/ Keyless(g)
    BY <1>1, GroupsTyped
  <2>3. new \in Data /\ new.groups = groups
    BY <2>1, <2>2 DEF Data
  <2> QED BY <2>2, <2>3 DEF KeysKept
<1>2. CASE r.edit.op \in SchoolOps
  <2>1. PICK keysOf \in EditedSchools(r.edit, d) : new = [d EXCEPT !.keysOf = keysOf]
    BY <1>2 DEF Edited, SchoolOps, Toggles
  <2>2. keysOf \in Tables(Schools, SUBSET Keys)
    BY <1>2, SchoolsTyped
  <2>3. new \in Data /\ new.groups = d.groups
    BY <2>1, <2>2 DEF Data
  <2> QED BY <2>3 DEF KeysKept
<1> QED BY <1>1, <1>2 DEF EditTyped

LEMMA TypesInitially == Init => TypeInv
<1> SUFFICES ASSUME Init PROVE TypeInv
  OBVIOUS
<1>1. Served(data) \in Data /\ data = Established
  BY ServedTyped DEF Init
<1>2. \A w \in Threads : thread[w].step = "idle"
  BY DEF Init, Idle
<1>3. \A g \in DOMAIN data.groups : data.groups[g].keys # {} \/ Keyless(g)
  BY <1>1 DEF Keyless
<1>4. tree.number = 1 /\ tree.shown = Served(data) /\ asked = 1
  BY DEF Init
<1>5. clock \in 0..MaxClock /\ acts \in 0..MaxActs
  BY DEF Init
<1>6. loading \in BOOLEAN /\ requests = {} /\ loads = {} /\ DOMAIN thread = Threads
  BY DEF Init
<1> QED BY <1>1, <1>2, <1>3, <1>4, <1>5, <1>6 DEF TypeInv, TypeOK, RequestsTyped, LoadsTyped

LEMMA TypesKept ==
  ASSUME TypeInv, WorkerInv, [Next]_vars
  PROVE  TypeInv'
<1> USE DEF TypeInv, TypeOK, RequestsTyped, LoadsTyped
<1>1. ASSUME NEW e \in Edits, Ask(e) PROVE TypeInv'
  <2>1. EditTyped(e) /\ KeysFor(e) \subseteq Keys
    BY EditsTyped
  <2>2. UNCHANGED <<data, tree, loading, loads, asked, thread, clock>> /\ acts' \in 0..MaxActs
    BY <1>1 DEF Ask, Acts, worker
  <2>3. RequestsTyped'
    BY <1>1, <2>1 DEF Ask
  <2> QED BY <2>2, <2>3
<1>2. ASSUME NEW r \in requests, Serve(r) PROVE TypeInv'
  <2>1. UNCHANGED <<tree, loading, loads, asked, thread, clock, acts>>
    BY <1>2 DEF Serve, worker, bounds
  <2>2. EditTyped(r.edit) /\ r.keys \subseteq Keys /\ KeysKept(data)
    BY DEF KeysKept
  <2>3. data' \in Data /\ KeysKept(data)'
    BY <1>2, <2>2, EditedTyped DEF Serve, KeysKept
  <2>4. RequestsTyped'
    BY <1>2 DEF Serve, Answered
  <2> QED BY <2>1, <2>3, <2>4 DEF KeysKept
<1>3. ASSUME NEW r \in requests, Receive(r) PROVE TypeInv'
  <2>1. UNCHANGED <<data, tree, thread, clock, acts>> /\ requests' \subseteq requests
    BY <1>3 DEF Receive, worker, bounds
  <2>2. asked' \in {asked, asked + 1}
    BY <1>3 DEF Receive
  <2>6. loading' \in BOOLEAN
    <3>1. CASE r.answer = "ok"
      BY <1>3, <3>1 DEF Receive
    <3>2. CASE r.answer # "ok"
      BY <1>3, <3>2 DEF Receive
    <3> QED BY <3>1, <3>2
  <2>3. LoadsTyped'
    BY <1>3 DEF Receive
  <2>4. RequestsTyped'
    BY <2>1
  <2>5. tree.number \in 1..asked'
    BY <2>2
  <2> QED BY <2>1, <2>2, <2>3, <2>4, <2>5, <2>6
<1>4. ASSUME NEW l \in loads, ServeTree(l) PROVE TypeInv'
  <2> DEFINE m == [l EXCEPT !.shown = Served(data)]
  <2>1. DOMAIN m = {"number", "shown"} /\ m.number = l.number /\ m.shown \in Data
    BY ServedTyped
  <2>2. loads' = (loads \ {l}) \cup {m}
        /\ UNCHANGED <<data, tree, loading, requests, asked, thread, clock, acts>>
    BY <1>4 DEF ServeTree, worker, bounds
  <2> HIDE DEF m
  <2> QED BY <2>1, <2>2
<1>5. ASSUME NEW l \in loads, ShowTree(l) PROVE TypeInv'
  BY <1>5 DEF ShowTree, worker, bounds
<1>6. ASSUME NEW w \in Threads, LookUp(w) \/ Load(w) \/ Store(w) \/ Done(w) PROVE TypeInv'
  <2>1. UNCHANGED <<data, page, bounds>>
    BY <1>6 DEF LookUp, Load, Store, Done
  <2>2. \E new : thread' = [thread EXCEPT ![w] = new] /\ new.step \in {"idle", "load", "store", "has"}
    <3>1. CASE LookUp(w)
      <4> DEFINE new == IF Fresh THEN [step |-> "has", since |-> clock, groups |-> cache.groups]
                        ELSE [step |-> "load", since |-> clock, groups |-> Nothing]
      <4>1. thread' = [thread EXCEPT ![w] = new] /\ new.step \in {"load", "has"}
        BY <3>1 DEF LookUp
      <4> QED BY <4>1
    <3>2. CASE Load(w) /\ Loadable(data)
      <4> DEFINE new == [thread[w] EXCEPT !.step = "store", !.groups = data.groups]
      <4>1. "step" \in DOMAIN thread[w]
        BY DEF WorkerInv
      <4>2. thread' = [thread EXCEPT ![w] = new] /\ new.step = "store"
        BY <3>2, <4>1 DEF Load
      <4> QED BY <4>2
    <3>3. CASE Store(w)
      <4> DEFINE new == [thread[w] EXCEPT !.step = "has"]
      <4>1. "step" \in DOMAIN thread[w]
        BY DEF WorkerInv
      <4>2. thread' = [thread EXCEPT ![w] = new] /\ new.step = "has"
        BY <3>3, <4>1 DEF Store
      <4> QED BY <4>2
    <3>4. CASE (Load(w) /\ ~Loadable(data)) \/ Done(w)
      BY <3>4 DEF Load, Done, Idle
    <3> QED BY <1>6, <3>1, <3>2, <3>3, <3>4
  <2> QED BY <2>1, <2>2 DEF page, bounds
<1>7. CASE Tick
  BY <1>7 DEF Tick, page, worker
<1>8. CASE UNCHANGED vars
  BY <1>8 DEF vars, page, worker, bounds
<1> QED BY <1>1, <1>2, <1>3, <1>4, <1>5, <1>6, <1>7, <1>8 DEF Next

-----------------------------------------------------------------------------
\* When nothing is under way the page shows what is in the files, if the load it began last
\* ended last (app.js, loadTree; web.py, api_tree).
THEOREM PageKeepsUp == Spec => []TreeCurrent
<1>1. PageInv => TreeCurrent
  BY DEF PageInv, TreeCurrent
<1> QED BY PageInitially, PageKeeps, <1>1, PTL DEF Spec

\* A job works with groups that were in the files less than TTL before it asked for them,
\* however many threads share the cache (worker.py, _load_config).
THEOREM JobsKeepUp == Spec => []JobsSeeEdits
<1>1. WorkerInv => JobsSeeEdits
  BY DEF WorkerInv, JobsSeeEdits
<1> QED BY WorkerInitially, WorkerKeeps, <1>1, PTL DEF Spec

\* The data and what is on its way have their types, and the page makes no group without a
\* key (web.py, the routes of schools, keys and groups).
THEOREM TypeCorrect == Spec => []TypeOK
<1>1. TypeInv => TypeOK
  BY DEF TypeInv
<1> QED BY TypesInitially, TypesKept, WorkerInitially, WorkerKeeps, <1>1, PTL DEF Spec

=============================================================================
