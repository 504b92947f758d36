----------------------------- MODULE CronWidget -----------------------------
(***************************************************************************)
(* The widget in which the schedule of a test is chosen (jquery-cron.js):  *)
(* a period, and the selects that it takes to say when; every change       *)
(* writes a cron expression into a hidden input, which is what is posted.  *)
(*                                                                         *)
(* Saving by the widget itself, custom values and the effects of           *)
(* gentleSelect are options that no page of the system uses.               *)
(***************************************************************************)
EXTENDS WebPage

CONSTANT Sampled    \* bound: of what a select offers, these numbers

ASSUME CronAssumption == {0, 1, 2, 12} \subseteq Sampled /\ Sampled \subseteq Nat

VARIABLES
    cronForm,    \* [period, selects]: what is chosen, in the hidden selects too
    cronValue    \* the hidden input: minute, hour, day, month, day of the week

cronVars == <<cronForm, cronValue>>

-----------------------------------------------------------------------------
\* What the selects offer.  The quote that should end the style of the months is
\* missing, and the first of them goes into the attribute.
CronOptions ==
    [mins |-> 0..59, hour |-> 0..23, min |-> 0..59, dom |-> 1..31,
     month |-> 2..12, dow |-> 0..6]

CronSelects == DOMAIN CronOptions

\* The selects that a period shows.
ToDisplay ==
    [hour |-> {"mins"}, day |-> {"hour", "min"}, week |-> {"dow", "hour", "min"},
     month |-> {"dom", "hour", "min"}, year |-> {"dom", "month", "hour", "min"}]

Periods == DOMAIN ToDisplay

ASSUME PeriodAssumption == None \notin Periods

\* The positions that hold a number in an expression of each period.
Combinations ==
    [hour |-> {1}, day |-> {1, 2}, week |-> {1, 2, 5}, month |-> {1, 2, 3},
     year |-> {1, 2, 3, 4}]

\* The period of an expression, or None if it is out of range or no combination.
GetCronType(cron) ==
    LET numbers == {i \in 1..5 : cron[i] # None}
        least == <<0, 0, 1, 1, 0>>
        most == <<59, 23, 31, 12, 6>>
        types == {p \in Periods : Combinations[p] = numbers}
    IN  IF types # {} /\ \A i \in numbers : cron[i] \in least[i]..most[i]
        THEN CHOOSE p \in types : TRUE ELSE None

\* Mutant: the day of the week is not read.
WeekWithoutDay(f) ==
    LET read(s, periods) == IF f.period \in periods THEN f.selects[s] ELSE None
    IN  <<IF f.period = "hour" THEN f.selects["mins"] ELSE f.selects["min"],
          read("hour", Periods \ {"hour"}), read("dom", {"month", "year"}),
          read("month", {"year"}), None>>

\* The expression that the selects say, "*" being None.
GetCurrentValue(f) ==
    LET read(s, periods) == IF f.period \in periods THEN f.selects[s] ELSE None
    IN  <<IF f.period = "hour" THEN f.selects["mins"] ELSE f.selects["min"],
          read("hour", Periods \ {"hour"}), read("dom", {"month", "year"}),
          read("month", {"year"}), read("dow", {"week"})>>

\* Shows an expression: the selects of its period take their numbers from it.
SetCronValue(f, cron) ==
    LET t == GetCronType(cron)
        v == [mins |-> cron[1], min |-> cron[1], hour |-> cron[2],
              dom |-> cron[3], month |-> cron[4], dow |-> cron[5]]
    IN  IF t = None THEN f
        ELSE [period |-> t,
              selects |-> [s \in CronSelects |->
                 IF s \in ToDisplay[t] THEN v[s] ELSE f.selects[s]]]

-----------------------------------------------------------------------------
\* A change of any select writes the hidden input.
SomethingChanged(f) ==
    /\ cronForm' = f
    /\ cronValue' = GetCurrentValue(f)

PeriodChanged(period) == SomethingChanged([cronForm EXCEPT !.period = period])

ChangeCronSelect(s, n) ==
    /\ s \in ToDisplay[cronForm.period]
    /\ n \in CronOptions[s] \intersect Sampled
    /\ SomethingChanged([cronForm EXCEPT !.selects[s] = n])

\* The selects as they are built show their first options.
FirstOptions ==
    [s \in CronSelects |-> CHOOSE n \in CronOptions[s] :
                              \A m \in CronOptions[s] : n <= m]

\* The page starts the widget with "0 12 * * *".
CronInit ==
    /\ cronForm = SetCronValue([period |-> "hour", selects |-> FirstOptions],
                               <<0, 12, None, None, None>>)
    /\ cronValue = GetCurrentValue(cronForm)

CronNext ==
    \/ \E p \in Periods : PeriodChanged(p)
    \/ \E s \in CronSelects, n \in Sampled : ChangeCronSelect(s, n)

CronSpec == CronInit /\ [][CronNext]_cronVars

-----------------------------------------------------------------------------
(***************************************************************************)
(* Properties.                                                             *)
(***************************************************************************)

Displayed(f) == [s \in ToDisplay[f.period] |-> f.selects[s]]

\* The expression that is posted is one the widget accepts, and shows again as
\* the same period and the same choices, whatever the widget held before: the
\* scheduler runs the test when the user was told it would.
CronReadsBack ==
    LET again == SetCronValue([period |-> "hour", selects |-> FirstOptions], cronValue)
    IN  /\ GetCronType(cronValue) # None
        /\ again.period = cronForm.period
        /\ Displayed(again) = Displayed(cronForm)
=============================================================================
