------------------------------ MODULE PwmPanel ------------------------------
(***************************************************************************)
(* What pwm/pwm.c promises: six settings, enable, frequency and duty cycle *)
(* of two PWM outputs, each behind a minor of its own.  One file is open   *)
(* at a time.  A write through it changes the setting of its minor and no  *)
(* other, and a read shows the setting once per open or write.             *)
(*                                                                         *)
(* Calls that overlap share a buffer, and while a call is inside, another  *)
(* one may disturb it.  An undisturbed write of a number from 0 to 255     *)
(* sets that number, and an undisturbed read shows the setting as it is    *)
(* when it ends; nothing more is said of what a disturbed call sets or     *)
(* shows, nor of what a number out of the range sets.                      *)
(***************************************************************************)
EXTENDS Integers

CONSTANTS Threads, Values

Settings == 0 .. 5
Minors   == 0 .. 6   \* 6 stands for every minor without a setting
Enables  == {0, 3}
Reloads  == {1, 4}
Duties   == {2, 5}
NoFile   == -1
Unshown  == [minor |-> NoFile, raw |-> 0, scaled |-> 0]
Garbled  == [minor |-> -2, raw |-> 0, scaled |-> 0]   \* some text or other

VARIABLES
  setting,    \* per setting: its value, 1 or 0 for an enable
  open,       \* minor of the open file, or NoFile
  writing,    \* threads inside write()
  reading,    \* threads inside read()
  asked,      \* per thread: the value it writes
  disturbed,  \* threads whose call another call has disturbed
  text,       \* "none" before the first write, then "due" or "given"
  shown       \* what the last read() of a text showed, since the open

vars == <<setting, open, writing, reading, asked, disturbed, text, shown>>

inside == writing \cup reading

Legal(m) == IF m \in Enables THEN {0, 1} ELSE 0 .. 255

\* The setting that an undisturbed write of v may leave.
Wanted(m, v) ==
  IF v \notin 0 .. 255 THEN Legal(m)
  ELSE IF m \in Enables THEN {IF v = 0 THEN 0 ELSE 1}
  ELSE {v}

\* The frequency is 32 kHz over 256 times the setting, in Hz; the duty cycle
\* is in percent.  Neither is shown for a setting of 0.
Shown(m) ==
  [minor  |-> m,
   raw    |-> IF m \in Settings THEN setting[m] ELSE 0,
   scaled |-> CASE m \in Reloads /\ setting[m] # 0 -> 32000 \div (256 * setting[m])
                [] m \in Duties -> (100 * setting[m]) \div 256
                [] OTHER -> 0]

Offered == IF text = "none" THEN "none" ELSE "due"

Init ==
  /\ setting = [m \in Settings |-> 0]
  /\ open = NoFile
  /\ writing = {}
  /\ reading = {}
  /\ asked = [t \in Threads |-> 0]
  /\ disturbed = {}
  /\ text = "none"
  /\ shown = Unshown

\* A call may disturb those of the other threads.
Disturb(others) ==
  \E now \in SUBSET others : disturbed' = disturbed \cup now

Open(m) ==
  /\ open = NoFile
  /\ open' = m
  /\ text' = Offered
  /\ UNCHANGED <<setting, writing, reading, asked, disturbed, shown>>

\* A refused open() makes the text due again.
Refuse ==
  /\ open # NoFile
  /\ text' = Offered
  /\ Disturb(inside)
  /\ UNCHANGED <<setting, open, writing, reading, asked, shown>>

Close ==
  /\ open # NoFile
  /\ inside = {}
  /\ open' = NoFile
  /\ shown' = Unshown
  /\ UNCHANGED <<setting, writing, reading, asked, disturbed, text>>

BeginWrite(t, v) ==
  /\ open # NoFile
  /\ t \notin inside
  /\ writing' = writing \cup {t}
  /\ asked' = [asked EXCEPT ![t] = v]
  /\ UNCHANGED <<setting, open, reading, disturbed, text, shown>>

\* The first write makes the text due before it returns.
ProceedWrite(t) ==
  /\ t \in writing
  /\ text' = IF text = "none" THEN "due" ELSE text
  /\ Disturb(inside \ {t})
  /\ UNCHANGED <<setting, open, writing, reading, asked, shown>>

EndWrite(t) ==
  /\ t \in writing
  /\ writing' = writing \ {t}
  /\ asked' = [asked EXCEPT ![t] = 0]
  /\ \E now \in SUBSET (inside \ {t}) : disturbed' = (disturbed \cup now) \ {t}
  /\ IF open \in Settings
     THEN \E n \in IF t \in disturbed THEN Legal(open) ELSE Wanted(open, asked[t]) :
            setting' = [setting EXCEPT ![open] = n]
     ELSE UNCHANGED setting
  /\ text' = "due"
  /\ UNCHANGED <<open, reading, shown>>

BeginRead(t) ==
  /\ open # NoFile
  /\ t \notin inside
  /\ text = "due"
  /\ reading' = reading \cup {t}
  /\ Disturb(inside)
  /\ UNCHANGED <<setting, open, writing, asked, text, shown>>

ProceedRead(t) ==
  /\ t \in reading
  /\ text' \in {text, "given"}
  /\ Disturb(inside \ {t})
  /\ UNCHANGED <<setting, open, writing, reading, asked, shown>>

EndRead(t) ==
  /\ t \in reading
  /\ reading' = reading \ {t}
  /\ shown' = IF t \in disturbed THEN Garbled ELSE Shown(open)
  /\ \E now \in SUBSET (inside \ {t}) : disturbed' = (disturbed \cup now) \ {t}
  /\ text' = "given"
  /\ UNCHANGED <<setting, open, writing, asked>>

Next ==
  \/ \E m \in Minors : Open(m)
  \/ Refuse
  \/ Close
  \/ \E t \in Threads :
       \/ \E v \in Values : BeginWrite(t, v)
       \/ ProceedWrite(t) \/ EndWrite(t)
       \/ BeginRead(t) \/ ProceedRead(t) \/ EndRead(t)

Spec == Init /\ [][Next]_vars

=============================================================================
