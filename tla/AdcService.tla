----------------------------- MODULE AdcService -----------------------------
(***************************************************************************)
(* What adc/adc.c promises its users, without registers, flags or wait     *)
(* queues: read() on minor m gives one value of channel m converted after  *)
(* the call, or -EFAULT, and then one end of file; the button prints every *)
(* channel once, in order.  One user is served at a time.                  *)
(***************************************************************************)
EXTENDS Integers

CONSTANTS Readers, ADC_NUMCHANNELS

Channels  == 0 .. ADC_NUMCHANNELS - 1
NoFile    == -1
Off       == -2    \* no scan
Requested == -1    \* button pressed, scan not started

Nothing  == [chan |-> -1, fresh |-> FALSE]
Empty(s) == [status |-> s, value |-> Nothing]
Value(c) == [status |-> "value", value |-> [chan |-> c, fresh |-> TRUE]]

VARIABLES
  minor,    \* per thread: the minor it has open, or NoFile
  f_pos,    \* per thread: 1 when its next read() is the end of file
  result,   \* per thread: what its last read() returned
  calling,  \* the threads inside read()
  scan,     \* Off, Requested, or the channel being converted for the button
  printed   \* per channel: channel of the value the last scan printed for it

vars == <<minor, f_pos, result, calling, scan, printed>>

Idle == calling = {} /\ scan = Off

Init ==
  /\ minor = [r \in Readers |-> NoFile]
  /\ f_pos = [r \in Readers |-> 0]
  /\ result = [r \in Readers |-> Empty("none")]
  /\ calling = {}
  /\ scan = Off
  /\ printed = [c \in Channels |-> -1]

Open(r, m) ==
  /\ minor[r] = NoFile
  /\ minor' = [minor EXCEPT ![r] = m]
  /\ f_pos' = [f_pos EXCEPT ![r] = 0]
  /\ UNCHANGED <<result, calling, scan, printed>>

Release(r) ==
  /\ minor[r] # NoFile
  /\ r \notin calling
  /\ minor' = [minor EXCEPT ![r] = NoFile]
  /\ f_pos' = [f_pos EXCEPT ![r] = 0]
  /\ result' = [result EXCEPT ![r] = Empty("none")]
  /\ UNCHANGED <<calling, scan, printed>>

EndOfFile(r) ==
  /\ minor[r] # NoFile
  /\ r \notin calling
  /\ f_pos[r] = 1
  /\ f_pos' = [f_pos EXCEPT ![r] = 0]
  /\ result' = [result EXCEPT ![r] = Empty("eof")]
  /\ UNCHANGED <<minor, calling, scan, printed>>

Call(r) ==
  /\ minor[r] # NoFile
  /\ Idle
  /\ f_pos[r] = 0
  /\ calling' = {r}
  /\ result' = [result EXCEPT ![r] = Empty("none")]
  /\ UNCHANGED <<minor, f_pos, scan, printed>>

Return(r) ==
  /\ r \in calling
  /\ calling' = calling \ {r}
  /\ \/ /\ result' = [result EXCEPT ![r] = Value(minor[r])]
        /\ f_pos' = [f_pos EXCEPT ![r] = 1]
     \/ /\ result' = [result EXCEPT ![r] = Empty("fault")]
        /\ UNCHANGED f_pos
  /\ UNCHANGED <<minor, scan, printed>>

Press ==
  /\ Idle
  /\ scan' = Requested
  /\ UNCHANGED <<minor, f_pos, result, calling, printed>>

ScanStart ==
  /\ scan = Requested
  /\ scan' = 0
  /\ printed' = [c \in Channels |-> -1]
  /\ UNCHANGED <<minor, f_pos, result, calling>>

PrintOne ==
  /\ scan \in Channels
  /\ printed' = [printed EXCEPT ![scan] = scan]
  /\ scan' = IF scan + 1 \in Channels THEN scan + 1 ELSE Off
  /\ UNCHANGED <<minor, f_pos, result, calling>>

Next ==
  \/ Press
  \/ ScanStart
  \/ PrintOne
  \/ \E r \in Readers :
       \/ \E m \in Channels : Open(r, m)
       \/ Release(r)
       \/ EndOfFile(r)
       \/ Call(r)
       \/ Return(r)

Spec == Init /\ [][Next]_vars

\* Every read() returns and every scan ends.
Fairness ==
  /\ WF_vars(ScanStart)
  /\ WF_vars(PrintOne)
  /\ \A r \in Readers : WF_vars(Return(r))

FairSpec == Spec /\ Fairness

=============================================================================
