------------------------------ MODULE PwmProofs ------------------------------
(***************************************************************************)
(* Theorems about the PWM driver, for every number of threads and files    *)
(* and every set of values: its types, the registers it writes back, and   *)
(* that it implements the panel of PwmPanel.                               *)
(***************************************************************************)
EXTENDS PwmDriver, TLAPS

\* One file is open at most, and a call keeps its file open.
OneFile ==
  /\ deviceIsOpen = 0 => \A f \in Files : ~IsOpen(f)
  /\ \A f, g \in Files : IsOpen(f) /\ IsOpen(g) => f = g
  /\ \A t \in Inside : IsOpen(call[t].file)

PwmInv == TypeOK /\ OneFile /\ SnapshotsAgree

-----------------------------------------------------------------------------

\* Eight bits are left of a value, and one of an enable.
LEMMA FieldsFit ==
  ASSUME NEW v \in Int, NEW a \in {0, 1}, NEW b \in {0, 1}
  PROVE  v % 256 \in 0 .. 255 /\ Toggled(a, b, v) \in {0, 1}
<1>1. v % 256 \in 0 .. 255
  OBVIOUS
<1>2. Toggled(a, b, v) \in {0, 1}
  BY DEF Toggled
<1> QED
  BY <1>1, <1>2

\* The records of a thread that is in no call have their types.
LEMMA AllClearType == AllClear \in [{1, 2} -> Registers]
BY DEF AllClear, Cleared, Registers

LEMMA UnshownType == Unshown \in Texts
BY DEF Unshown, Texts

LEMMA NoCallType == NoCall \in Calls
<1>1. (CHOOSE f \in Files : TRUE) \in Files
  BY ConstantsAssumption
<1> QED
  BY <1>1, AllClearType, UnshownType DEF NoCall, Calls

\* What WithField makes of a register is a register.
LEMMA WithFieldType ==
  ASSUME NEW m \in 0 .. 5, NEW v \in Int, reg \in [{1, 2} -> Registers],
         NEW first \in [{1, 2} -> Registers]
  PROVE  WithField(m, first, v) \in Registers
<1> DEFINE r == first[Register(m)]
           now == reg[Register(m)]
<1>1. Register(m) \in {1, 2}
  BY DEF Register
<1>2. r \in Registers /\ now \in Registers
  BY <1>1
<1>3. v % 256 \in 0 .. 255 /\ Toggled(now.enable, r.enable, v) \in {0, 1}
  BY <1>2, FieldsFit DEF Registers
<1>4. CASE m \in {0, 3}
  BY <1>2, <1>3, <1>4 DEF WithField, Registers
<1>5. CASE m \in {1, 4}
  BY <1>2, <1>3, <1>5 DEF WithField, Registers
<1>6. CASE m \in {2, 5}
  BY <1>2, <1>3, <1>6 DEF WithField, Registers
<1> QED
  BY <1>4, <1>5, <1>6

\* It differs in the field of minor m only.
LEMMA WithFieldAgrees ==
  ASSUME NEW m \in 0 .. 5, NEW v \in Int, reg \in [{1, 2} -> Registers],
         NEW first \in [{1, 2} -> Registers], AgreeButFor(m, first, reg)
  PROVE  AgreeButFor(m, reg, [reg EXCEPT ![Register(m)] = WithField(m, first, v)])
<1> DEFINE p == Register(m)
           r == first[p]
           now == reg[p]
           new == WithField(m, first, v)
<1>1. p \in {1, 2} /\ (p = 1 <=> m \in {0, 1, 2}) /\ (p = 2 <=> m \in {3, 4, 5})
  BY DEF Register
<1>2. r \in Registers /\ now \in Registers
  BY <1>1
<1>3. /\ m # 3 * p - 3 => r.enable = now.enable
      /\ m # 3 * p - 2 => r.freq = now.freq
      /\ m # 3 * p - 1 => r.duty = now.duty
  BY <1>1 DEF AgreeButFor
<1>4. CASE m \in {0, 3}
  <2>1. new.freq = now.freq /\ new.duty = now.duty
    BY <1>2, <1>4 DEF WithField, Registers
  <2> QED
    BY <1>1, <1>4, <2>1 DEF AgreeButFor
<1>5. CASE m \in {1, 4}
  <2>1. new.enable = r.enable /\ new.duty = r.duty
    BY <1>2, <1>5 DEF WithField, Registers
  <2> QED
    BY <1>1, <1>3, <1>5, <2>1 DEF AgreeButFor
<1>6. CASE m \in {2, 5}
  <2>1. new.enable = r.enable /\ new.freq = r.freq
    BY <1>2, <1>6 DEF WithField, Registers
  <2> QED
    BY <1>1, <1>3, <1>6, <2>1 DEF AgreeButFor
<1> QED
  BY <1>4, <1>5, <1>6

\* Two snapshots that each agree with now agree with each other's result.
LEMMA AgreementComposes ==
  ASSUME NEW m \in Int, NEW a, NEW b, NEW c,
         AgreeButFor(m, a, b), AgreeButFor(m, b, c)
  PROVE  AgreeButFor(m, a, c)
BY DEF AgreeButFor

-----------------------------------------------------------------------------
(* Arithmetic, and the texts.                                               *)

\* A quotient is known by its remainder.
LEMMA QuotientIsUnique ==
  ASSUME NEW a \in Nat, NEW d \in Nat \ {0}, NEW k \in Nat, NEW e \in 0 .. d - 1, a = d * k + e
  PROVE  a \div d = k
OBVIOUS

\* Dividing by a reload value and then by 256 is dividing by their product.
LEMMA DivisionsCompose ==
  ASSUME NEW a \in Nat, NEW r \in 1 .. 255
  PROVE  (a \div r) \div 256 = a \div (256 * r)
<1> DEFINE q == a \div r
           s == a % r
           k == q \div 256
           u == q % 256
<1>1. q \in Nat /\ s \in 0 .. r - 1 /\ a = r * q + s
  OBVIOUS
<1>2. k \in Nat /\ u \in 0 .. 255 /\ q = 256 * k + u
  BY <1>1
<1> HIDE DEF q, s, k, u
<1>3. a = (256 * r) * k + (r * u + s)
  BY <1>1, <1>2
<1>4. r * u + s \in 0 .. 256 * r - 1
  BY <1>1, <1>2
<1>5. a \div (256 * r) = k
  BY <1>2, <1>3, <1>4, QuotientIsUnique
<1> QED
  BY <1>5 DEF k, q

\* A text has its type.
LEMMA TextType ==
  ASSUME TypeOK, NEW m \in Minors
  PROVE  ShownText(m) \in Texts
<1> DEFINE r == reg[Register(m)]
<1>1. r \in Registers
  BY DEF TypeOK, Register, Minors
<1>2. r.enable \in 0 .. 255 /\ r.freq \in 0 .. 255 /\ r.duty \in 0 .. 255
  BY <1>1 DEF Registers
<1>3. ASSUME r.freq # 0 PROVE map_freq(r.freq) \in 0 .. 125
  <2>1. r.freq \in 1 .. 255
    BY <1>2, <1>3
  <2>2. \A d \in Nat : d >= 256 => 32000 \div d \in 0 .. 125
    OBVIOUS
  <2>3. 256 * r.freq \in Nat /\ 256 * r.freq >= 256
    BY <2>1
  <2> QED
    BY <2>1, <2>2, <2>3, DivisionsCompose DEF map_freq
<1>4. map_duty(r.duty) \in 0 .. 125
  BY <1>2 DEF map_duty
<1> HIDE DEF r
<1>5. CASE m \in {0, 3}
  BY <1>2, <1>5 DEF r, ShownText, Texts
<1>6. CASE m \in {1, 4}
  BY <1>2, <1>3, <1>6 DEF r, ShownText, Texts
<1>7. CASE m \in {2, 5}
  BY <1>2, <1>4, <1>7 DEF r, ShownText, Texts
<1>8. CASE m = 6
  BY <1>8 DEF ShownText, Texts, Minors
<1> QED
  BY <1>5, <1>6, <1>7, <1>8 DEF Minors

-----------------------------------------------------------------------------

\* What sscanf finds is an int.
LEMMA ParsedType ==
  ASSUME NEW number \in Values \cup {0}, NEW v \in Parsed(number)
  PROVE  v \in Int
<1>1. \A n \in Values \cup Mixtures \cup {-1, 0} : n \in Int
  BY ConstantsAssumption
<1>2. v \in Values \cup Mixtures \cup {-1, 0}
  BY DEF Parsed
<1> QED
  BY <1>1, <1>2

\* The invariant holds at the start.
LEMMA PwmInvInit == Init => PwmInv
<1> SUFFICES ASSUME Init PROVE PwmInv
  OBVIOUS
<1>1. call \in [Threads -> Calls]
  BY NoCallType DEF Init
<1>2. TypeOK
  <2>1. reg \in [{1, 2} -> Registers] /\ shown \in Texts
    BY AllClearType, UnshownType DEF Init
  <2>2. minor \in [Files -> Minors \cup {NoFile}] /\ pc \in [Threads -> {"idle", "copy", "parse", "put"}]
    BY DEF Init
  <2>3. deviceIsOpen \in 0 .. 1 /\ writes \in 0 .. MaxWrites
    BY ConstantsAssumption DEF Init
  <2>4. disturbed \subseteq Threads
    BY DEF Init
  <2> QED
    BY <1>1, <2>1, <2>2, <2>3, <2>4 DEF Init, TypeOK
<1>3. Inside = {}
  BY DEF Init, Inside, Writing, Reading, In
<1>4. OneFile /\ SnapshotsAgree
  BY <1>3 DEF Init, OneFile, IsOpen, SnapshotsAgree, Inside
<1> QED
  BY <1>2, <1>4 DEF PwmInv

\* A step that leaves the registers, the files and the calls alone, but for
\* calls that end or go on, keeps the invariant if it keeps the types.
LEMMA CallsGoOn ==
  ASSUME PwmInv, TypeOK', UNCHANGED <<reg, device>>,
         Writing' \subseteq Writing, Inside' \subseteq Inside,
         \A t \in Inside' : call'[t] = call[t]
  PROVE  PwmInv'
<1>1. OneFile'
  BY DEF PwmInv, OneFile, IsOpen, device
<1>2. SnapshotsAgree'
  BY DEF PwmInv, SnapshotsAgree, Inside, device
<1> QED
  BY <1>1, <1>2 DEF PwmInv

\* Every step of the driver keeps the invariant.
LEMMA PwmInvNext == PwmInv /\ [Next]_vars => PwmInv'
<1> SUFFICES ASSUME PwmInv, [Next]_vars PROVE PwmInv'
  OBVIOUS
<1>0. TypeOK /\ OneFile /\ SnapshotsAgree
  BY DEF PwmInv
<1>1. ASSUME NEW f \in Files, NEW m \in Minors, DeviceOpen(f, m) PROVE PwmInv'
  <2>0. disturbed' \subseteq Threads /\ Message_Ptr' = "byte" /\ Inside' = Inside /\ Writing' = Writing
    BY <1>0, <1>1 DEF DeviceOpen, TypeOK, Inside, Writing, Reading, In, calls
  <2>1. CASE NotOpen
    <3>1. \A g \in Files : ~IsOpen(g)
      BY <1>0, <2>1 DEF NotOpen, OneFile
    <3>2. Inside = {}
      BY <1>0, <3>1 DEF OneFile, TypeOK, Calls, Inside, Writing, Reading, In
    <3>3. deviceIsOpen' = 1 /\ minor' = [minor EXCEPT ![f] = m]
      BY <1>1, <2>1 DEF DeviceOpen, NotOpen
    <3>4. TypeOK'
      BY <1>0, <1>1, <2>0, <3>3 DEF DeviceOpen, TypeOK, calls
    <3>5. \A g \in Files : IsOpen(g)' => g = f
      BY <1>0, <3>1, <3>3 DEF IsOpen, TypeOK
    <3>6. OneFile'
      BY <2>0, <3>2, <3>3, <3>5 DEF OneFile
    <3>7. SnapshotsAgree'
      BY <2>0, <3>2 DEF SnapshotsAgree, Inside
    <3> QED
      BY <3>4, <3>6, <3>7 DEF PwmInv
  <2>2. CASE ~NotOpen
    <3>1. UNCHANGED <<reg, device, call>>
      BY <1>1, <2>2 DEF DeviceOpen, calls
    <3>2. TypeOK'
      BY <1>0, <1>1, <2>0, <3>1 DEF DeviceOpen, TypeOK, device, calls
    <3> QED
      BY <2>0, <3>1, <3>2, CallsGoOn
  <2> QED
    BY <2>1, <2>2
<1>2. ASSUME NEW f \in Files, DeviceRelease(f) PROVE PwmInv'
  <2>1. \A g \in Files : IsOpen(g) => g = f
    BY <1>0, <1>2 DEF DeviceRelease, OneFile
  <2>2. Inside = {} /\ Inside' = {}
    <3>1. \A t \in Inside : call[t].file = f
      BY <1>0, <2>1 DEF OneFile, TypeOK, Calls, Inside, Writing, Reading, In
    <3> QED
      BY <1>2, <3>1 DEF DeviceRelease, Inside, Writing, Reading, In, calls
  <2>3. deviceIsOpen = 1 /\ deviceIsOpen' = 0
    BY <1>0, <1>2 DEF DeviceRelease, OneFile, TypeOK
  <2>4. TypeOK'
    <3>1. Unshown \in Texts
      BY DEF Unshown, Texts
    <3> QED
      BY <1>0, <1>2, <2>3, <3>1 DEF DeviceRelease, TypeOK, buffer, calls
  <2>5. \A g \in Files : ~IsOpen(g)'
    BY <1>0, <1>2, <2>1 DEF DeviceRelease, IsOpen, TypeOK
  <2>6. OneFile' /\ SnapshotsAgree'
    BY <2>2, <2>5 DEF OneFile, SnapshotsAgree, Inside
  <2> QED
    BY <2>4, <2>6 DEF PwmInv
<1>3. ASSUME NEW t \in Threads, NEW f \in Files, ReadBegin(t, f) PROVE PwmInv'
  <2> DEFINE c == ReadCall(f)
  <2>1. pc' = [pc EXCEPT ![t] = "put"] /\ call' = [call EXCEPT ![t] = c] /\ IsOpen(f)
        /\ UNCHANGED <<reg, device>>
    BY <1>3 DEF ReadBegin
  <2>2. ShownText(minor[f]) \in Texts
    BY <1>0, <2>1, TextType DEF IsOpen, TypeOK
  <2>3. c \in Calls /\ c.file = f
    BY <2>2, AllClearType DEF ReadCall, Calls
  <2> HIDE DEF c
  <2>4. TypeOK'
    <3>1. call' \in [Threads -> Calls] /\ pc' \in [Threads -> {"idle", "copy", "parse", "put"}]
      BY <1>0, <2>1, <2>3 DEF TypeOK
    <3>2. disturbed' \subseteq Threads
      BY <1>0, <1>3 DEF ReadBegin, TypeOK, In
    <3> QED
      BY <1>0, <1>3, <3>1, <3>2 DEF ReadBegin, TypeOK, device
  <2>5. Inside' = Inside \cup {t} /\ Writing' = Writing /\ t \notin Inside
    BY <1>0, <1>3, <2>1 DEF ReadBegin, Inside, Writing, Reading, In, TypeOK
  <2>6. call'[t].file = f /\ \A u \in Inside : call'[u] = call[u]
    BY <1>0, <2>1, <2>3, <2>5 DEF TypeOK
  <2>7. OneFile'
    BY <1>0, <2>1, <2>5, <2>6 DEF OneFile, IsOpen, device
  <2>8. SnapshotsAgree'
    BY <1>0, <2>1, <2>5, <2>6 DEF SnapshotsAgree, Inside, device
  <2> QED
    BY <2>4, <2>7, <2>8 DEF PwmInv
<1>4. ASSUME NEW t \in Threads, ReadPut(t) PROVE PwmInv'
  <2>1. TypeOK'
    BY <1>0, <1>4 DEF ReadPut, TypeOK, Reading, In, device, calls
  <2>2. UNCHANGED <<reg, device, call, Writing, Inside>>
    BY <1>4 DEF ReadPut, Inside, Writing, Reading, In, calls
  <2> QED
    BY <2>1, <2>2, CallsGoOn
<1>5. ASSUME NEW t \in Threads, ReadEnd(t) PROVE PwmInv'
  <2>1. pc' = [pc EXCEPT ![t] = "idle"] /\ call' = [call EXCEPT ![t] = NoCall]
    BY <1>5 DEF ReadEnd
  <2>2. TypeOK'
    <3>1. call' \in [Threads -> Calls] /\ pc' \in [Threads -> {"idle", "copy", "parse", "put"}]
      BY <1>0, <2>1, NoCallType DEF TypeOK
    <3>2. shown' \in Texts
      <4>1. Garbled \in Texts
        BY DEF Garbled, Texts
      <4>2. call[t].text \in Texts
        BY <1>0 DEF TypeOK, Calls
      <4> QED
        BY <1>5, <4>1, <4>2 DEF ReadEnd
    <3>3. disturbed' \subseteq Threads
      BY <1>0, <1>5 DEF ReadEnd, TypeOK, Reading, In
    <3> QED
      BY <1>0, <1>5, <3>1, <3>2, <3>3 DEF ReadEnd, TypeOK, device
  <2>3. Writing' = Writing /\ Inside' = Inside \ {t}
    BY <1>0, <1>5, <2>1 DEF ReadEnd, Inside, Writing, Reading, In, TypeOK
  <2>4. \A u \in Inside' : call'[u] = call[u]
    BY <1>0, <2>1, <2>3 DEF TypeOK, Inside, Writing, Reading, In
  <2> QED
    BY <1>5, <2>2, <2>3, <2>4, CallsGoOn DEF ReadEnd
<1>6. ASSUME NEW t \in Threads, NEW f \in Files, NEW v \in Values, WriteBegin(t, f, v)
      PROVE PwmInv'
  <2> DEFINE c == WriteCall(f, v)
  <2>1. pc' = [pc EXCEPT ![t] = "copy"] /\ call' = [call EXCEPT ![t] = c] /\ IsOpen(f)
        /\ UNCHANGED <<reg, device>>
    BY <1>6 DEF WriteBegin
  <2>2. reg \in [{1, 2} -> Registers]
    BY <1>0 DEF TypeOK
  <2>3. c \in Calls /\ c.file = f /\ c.reg = reg
    BY <2>2, UnshownType DEF WriteCall, Calls
  <2> HIDE DEF c
  <2>4. TypeOK'
    <3>1. call' \in [Threads -> Calls] /\ pc' \in [Threads -> {"idle", "copy", "parse", "put"}]
      BY <1>0, <2>1, <2>3 DEF TypeOK
    <3>2. writes' \in 0 .. MaxWrites
      BY <1>0, <1>6, ConstantsAssumption DEF WriteBegin, TypeOK
    <3> QED
      BY <1>0, <1>6, <3>1, <3>2 DEF WriteBegin, TypeOK, device, buffer
  <2>5. Inside' = Inside \cup {t} /\ Writing' = Writing \cup {t} /\ t \notin Inside
    BY <1>0, <1>6, <2>1 DEF WriteBegin, Inside, Writing, Reading, In, TypeOK
  <2>6. call'[t].file = f /\ call'[t].reg = reg /\ \A u \in Inside : call'[u] = call[u]
    BY <1>0, <2>1, <2>3, <2>5 DEF TypeOK, Inside, Writing, Reading, In
  <2>7. OneFile'
    BY <1>0, <2>1, <2>5, <2>6 DEF OneFile, IsOpen, device
  <2>8. AgreeButFor(minor[f], reg, reg)
    BY DEF AgreeButFor
  <2>9. SnapshotsAgree'
    BY <1>0, <2>1, <2>5, <2>6, <2>8 DEF SnapshotsAgree, Inside, device
  <2> QED
    BY <2>4, <2>7, <2>9 DEF PwmInv
<1>7. ASSUME NEW t \in Threads, WriteCopy(t) PROVE PwmInv'
  <2>1. TypeOK'
    <3>1. call[t].number \in Values \cup {0}
      BY <1>0 DEF TypeOK, Calls
    <3>2. disturbed' \subseteq Threads
      BY <1>0, <1>7 DEF WriteCopy, TypeOK, In
    <3>3. Message' \in {Begun(v) : v \in Values \cup {0}}
      BY <1>7, <3>1 DEF WriteCopy
    <3> QED
      BY <1>0, <1>7, <3>2, <3>3 DEF WriteCopy, TypeOK, device
  <2>2. Writing' = Writing /\ Inside' = Inside /\ UNCHANGED <<reg, device, call>>
    BY <1>0, <1>7 DEF WriteCopy, Inside, Writing, Reading, In, TypeOK
  <2> QED
    BY <2>1, <2>2, CallsGoOn
<1>8. ASSUME NEW t \in Threads, WriteParse(t) PROVE PwmInv'
  <2> DEFINE m == minor[call[t].file]
             first == call[t].reg
  <2>1. t \in Writing /\ t \in Inside /\ call[t].file \in Files /\ first \in [{1, 2} -> Registers]
    BY <1>0, <1>8 DEF WriteParse, Inside, Writing, In, TypeOK, Calls
  <2>2. m \in 0 .. 6 /\ AgreeButFor(m, first, reg)
    BY <1>0, <2>1 DEF OneFile, IsOpen, SnapshotsAgree, TypeOK, Minors
  <2>3. PICK v \in Parsed(call[t].number) :
          reg' = IF OutOfRange(v) \/ m = 6 THEN reg
                 ELSE [reg EXCEPT ![Register(m)] = WithField(m, first, v)]
    BY <1>8 DEF WriteParse
  <2>4. v \in Int
    BY <1>0, ParsedType DEF TypeOK, Calls
  <2>5. reg' \in [{1, 2} -> Registers] /\ AgreeButFor(m, reg, reg')
    <3>1. CASE reg' = reg
      BY <1>0, <3>1 DEF TypeOK, AgreeButFor
    <3>2. CASE m # 6 /\ reg' = [reg EXCEPT ![Register(m)] = WithField(m, first, v)]
      <4>1. m \in 0 .. 5
        BY <2>2, <3>2
      <4>2. Register(m) \in {1, 2} /\ WithField(m, first, v) \in Registers
        BY <1>0, <2>1, <2>4, <4>1, WithFieldType DEF Register, TypeOK
      <4>3. AgreeButFor(m, reg, reg')
        BY <1>0, <2>1, <2>2, <2>4, <3>2, <4>1, WithFieldAgrees DEF TypeOK
      <4> QED
        BY <1>0, <3>2, <4>2, <4>3 DEF TypeOK
    <3> QED
      BY <2>3, <3>1, <3>2
  <2>6. Writing' = Writing \ {t} /\ Inside' = Inside \ {t}
    BY <1>0, <1>8 DEF WriteParse, Inside, Writing, Reading, In, TypeOK
  <2>7. UNCHANGED device /\ \A u \in Inside' : call'[u] = call[u]
    BY <1>0, <1>8, <2>6 DEF WriteParse, TypeOK, Inside, Writing, Reading, In
  <2>8. TypeOK'
    <3>1. pc' \in [Threads -> {"idle", "copy", "parse", "put"}]
      BY <1>0, <1>8 DEF WriteParse, TypeOK
    <3>2. call' \in [Threads -> Calls]
      BY <1>0, <1>8, NoCallType DEF WriteParse, TypeOK
    <3>3. disturbed' \subseteq Threads
      BY <1>0, <1>8 DEF WriteParse, TypeOK, Inside, Writing, Reading, In
    <3> QED
      BY <1>0, <1>8, <2>5, <3>1, <3>2, <3>3 DEF WriteParse, TypeOK, device
  <2>9. OneFile'
    BY <1>0, <2>6, <2>7 DEF OneFile, IsOpen, device
  <2>10. ASSUME NEW u \in Writing' PROVE AgreeButFor(minor[call[u].file], call[u].reg, reg')
    <3>1. u \in Writing /\ call[u].file \in Files /\ call[u].file = call[t].file
      BY <1>0, <2>1, <2>6 DEF OneFile, TypeOK, Calls, Inside, Writing, In
    <3>2. AgreeButFor(m, call[u].reg, reg)
      BY <1>0, <3>1 DEF SnapshotsAgree
    <3> QED
      BY <2>2, <2>5, <3>1, <3>2, AgreementComposes
  <2>11. SnapshotsAgree'
    BY <2>7, <2>10 DEF SnapshotsAgree, Inside, device
  <2> QED
    BY <2>8, <2>9, <2>11 DEF PwmInv
<1>9. ASSUME UNCHANGED vars PROVE PwmInv'
  <2>1. TypeOK'
    BY <1>0, <1>9 DEF vars, device, buffer, calls, TypeOK
  <2>2. UNCHANGED <<reg, device, call, Writing, Inside>>
    BY <1>9 DEF vars, calls, Inside, Writing, Reading, In
  <2> QED
    BY <2>1, <2>2, CallsGoOn
<1> QED
  BY <1>1, <1>2, <1>3, <1>4, <1>5, <1>6, <1>7, <1>8, <1>9 DEF Next, ReadNothing

\* The invariant holds in every state.
LEMMA PwmInvHolds == Spec => []PwmInv
BY PwmInvInit, PwmInvNext, PTL DEF Spec

\* The registers and the statics keep their types whatever is written: a
\* value out of range is cut to its field, as the range check never rejects it.
THEOREM TypeCorrect == Spec => []TypeOK
<1>1. PwmInv => TypeOK
  BY DEF PwmInv
<1> QED
  BY <1>1, PwmInvHolds, PTL

\* The registers that device_write read before it slept in get_user are still
\* good to put back, because the device is opened once: whatever other calls
\* did meanwhile, they did it to the same field.
THEOREM StaleRegistersLoseNothing == Spec => []SnapshotsAgree
<1>1. PwmInv => SnapshotsAgree
  BY DEF PwmInv
<1> QED
  BY <1>1, PwmInvHolds, PTL

-----------------------------------------------------------------------------
(* The driver as a panel.                                                   *)


\* A call that no other has disturbed finds what it left: a write the registers
\* as it read them first, and in Message the bytes that it has copied; a read
\* the setting as it was when it wrote the text.
AloneInv ==
  /\ disturbed \subseteq Inside
  /\ \A t \in Writing \ disturbed :
       /\ call[t].reg = reg
       /\ pc[t] = "parse" => Message = Begun(call[t].number)
  /\ \A t \in Reading \ disturbed : call[t].text = ShownText(minor[call[t].file])

\* Message is empty until the first write, and Message_Ptr then at a byte.
TextInv ==
  /\ \A t \in In({"parse", "put"}) : Message # Empty
  /\ Message = Empty => Message_Ptr = "byte"

\* A file is open when the device is.
OpenInv == deviceIsOpen # 0 => \E f \in Files : IsOpen(f)

\* Only a write has a number.
IdleInv == \A t \in Threads : pc[t] \in {"idle", "put"} => call[t].number = 0

PanelInv == PwmInv /\ AloneInv /\ TextInv /\ OpenInv /\ IdleInv

-----------------------------------------------------------------------------
(* The mapping.                                                             *)

\* The minors, three to a register.
LEMMA ThirdFacts ==
  /\ 0 \div 3 = 0 /\ 1 \div 3 = 0 /\ 2 \div 3 = 0
  /\ 3 \div 3 = 1 /\ 4 \div 3 = 1 /\ 5 \div 3 = 1
  /\ 0 % 3 = 0 /\ 1 % 3 = 1 /\ 2 % 3 = 2
  /\ 3 % 3 = 0 /\ 4 % 3 = 1 /\ 5 % 3 = 2
OBVIOUS

\* What the settings are, one by one.
LEMMA SettingFacts ==
  /\ DOMAIN Setting = 0 .. 5
  /\ Setting[0] = reg[1].enable /\ Setting[3] = reg[2].enable
  /\ Setting[1] = reg[1].freq   /\ Setting[4] = reg[2].freq
  /\ Setting[2] = reg[1].duty   /\ Setting[5] = reg[2].duty
BY ThirdFacts DEF Setting

\* The open file is the one there is.
LEMMA OpenFacts ==
  ASSUME OneFile
  PROVE  /\ \A f \in Files : IsOpen(f) => OpenMinor = minor[f] /\ OpenMinor # NoFile
         /\ (\A f \in Files : ~IsOpen(f)) => OpenMinor = NoFile
<1>1. ASSUME NEW f \in Files, IsOpen(f) PROVE OpenMinor = minor[f] /\ OpenMinor # NoFile
  <2> DEFINE g == CHOOSE h \in Files : IsOpen(h)
  <2>1. g \in Files /\ IsOpen(g)
    BY <1>1
  <2>2. g = f
    BY <1>1, <2>1 DEF OneFile
  <2> QED
    BY <1>1, <2>2 DEF OpenMinor, IsOpen
<1> QED
  BY <1>1 DEF OpenMinor

\* A write that ends changes one setting.
LEMMA EndSetsOne ==
  ASSUME NEW m \in 0 .. 5, NEW v \in Int, TypeOK, NEW first \in [{1, 2} -> Registers],
         AgreeButFor(m, first, reg),
         reg' = [reg EXCEPT ![Register(m)] = WithField(m, first, v)]
  PROVE  Setting' = [Setting EXCEPT ![m] = IF m \in {0, 3}
                                           THEN Toggled(reg[Register(m)].enable, first[Register(m)].enable, v)
                                           ELSE v % 256]
<1> DEFINE p == Register(m)
           new == WithField(m, first, v)
           n == IF m \in {0, 3} THEN Toggled(reg[p].enable, first[p].enable, v) ELSE v % 256
<1>1. p \in {1, 2} /\ (p = 1 <=> m \in {0, 1, 2}) /\ (p = 2 <=> m \in {3, 4, 5})
  BY DEF Register
<1>2. reg[p] \in Registers /\ first[p] \in Registers
  BY <1>1 DEF TypeOK
<1>3. AgreeButFor(m, reg, reg')
  BY WithFieldAgrees DEF TypeOK
<1>4. reg'[p] = new
  BY <1>1 DEF TypeOK
<1>5. /\ m \in {0, 3} => new.enable = n
      /\ m \in {1, 4} => new.freq = n
      /\ m \in {2, 5} => new.duty = n
  <2>1. CASE m \in {0, 3}
    BY <1>2, <2>1 DEF WithField, Registers
  <2>2. CASE m \in {1, 4}
    BY <1>2, <2>2 DEF WithField, Registers
  <2>3. CASE m \in {2, 5}
    BY <1>2, <2>3 DEF WithField, Registers
  <2> QED
    BY <2>1, <2>2, <2>3
<1>6. /\ DOMAIN Setting' = 0 .. 5
      /\ Setting'[0] = reg'[1].enable /\ Setting'[3] = reg'[2].enable
      /\ Setting'[1] = reg'[1].freq   /\ Setting'[4] = reg'[2].freq
      /\ Setting'[2] = reg'[1].duty   /\ Setting'[5] = reg'[2].duty
  BY ThirdFacts DEF Setting
<1> HIDE DEF new, n
<1>7. Setting'[m] = n
  BY <1>1, <1>4, <1>5, <1>6
<1>8. \A i \in (0 .. 5) \ {m} : Setting'[i] = Setting[i]
  BY <1>3, <1>6, SettingFacts DEF AgreeButFor
<1>9. Setting' = [Setting EXCEPT ![m] = n]
  <2>1. Setting = [i \in 0 .. 5 |-> Setting[i]] /\ Setting' = [i \in 0 .. 5 |-> Setting'[i]]
    BY DEF Setting
  <2> QED
    BY <1>7, <1>8, <2>1
<1> QED
  BY <1>9 DEF n

-----------------------------------------------------------------------------
(* The invariant.                                                           *)

\* It holds at the start.
LEMMA PanelInvInit == Init => PanelInv
<1> SUFFICES ASSUME Init PROVE PanelInv
  OBVIOUS
<1>1. PwmInv
  BY PwmInvInit
<1>2. Inside = {} /\ Writing = {} /\ Reading = {} /\ In({"parse", "put"}) = {}
  BY DEF Init, Inside, Writing, Reading, In
<1>3. AloneInv
  BY <1>2 DEF AloneInv, Init
<1>4. TextInv /\ OpenInv /\ IdleInv
  BY <1>2 DEF Init, TextInv, OpenInv, IdleInv, NoCall
<1> QED
  BY <1>1, <1>3, <1>4 DEF PanelInv

\* What a read shows depends on the registers only.
LEMMA SameText ==
  ASSUME NEW m, UNCHANGED reg
  PROVE  ShownText(m)' = ShownText(m)
BY DEF ShownText

\* A step in which calls go on or end, and others may be disturbed, leaves an
\* undisturbed call undisturbed if the registers stay and it keeps its bytes.
LEMMA AloneStays ==
  ASSUME AloneInv, UNCHANGED <<reg, minor>>, disturbed' \subseteq Inside',
         \A t \in Writing' \ disturbed' :
           /\ t \in Writing \ disturbed /\ call'[t] = call[t]
           /\ pc'[t] = "parse" => pc[t] = "parse" /\ Message' = Message,
         \A t \in Reading' \ disturbed' : t \in Reading \ disturbed /\ call'[t] = call[t]
  PROVE  AloneInv'
<1>1. \A m : ShownText(m)' = ShownText(m)
  BY SameText
<1>2. ASSUME NEW t \in Reading' \ disturbed'
      PROVE  call'[t].text = ShownText(minor[call[t].file])'
  BY <1>1, <1>2 DEF AloneInv, ShownText
<1>3. ASSUME NEW t \in Writing' \ disturbed'
      PROVE  call'[t].reg = reg' /\ (pc'[t] = "parse" => Message' = Begun(call'[t].number))
  BY <1>3 DEF AloneInv
<1> QED
  BY <1>2, <1>3 DEF AloneInv, ShownText, Begun

\* Every step of the driver keeps it.
LEMMA PanelInvNext == PanelInv /\ [Next]_vars => PanelInv'
<1> SUFFICES ASSUME PanelInv, [Next]_vars PROVE PanelInv'
  OBVIOUS
<1>0. PwmInv /\ PwmInv' /\ TypeOK /\ OneFile
  BY PwmInvNext DEF PanelInv, PwmInv
<1>a. AloneInv /\ TextInv /\ OpenInv
  BY DEF PanelInv
<1>b. IdleInv'
  <2>1. IdleInv
    BY DEF PanelInv
  <2>2. NoCall.number = 0 /\ \A f : ReadCall(f).number = 0
    BY DEF NoCall, ReadCall
  <2>3. CASE UNCHANGED <<pc, call>>
    BY <2>1, <2>3 DEF IdleInv
  <2>4. CASE \E t \in Threads, f \in Files : ReadBegin(t, f)
    BY <1>0, <2>1, <2>2, <2>4 DEF ReadBegin, IdleInv, TypeOK
  <2>5. CASE \E t \in Threads : ReadEnd(t) \/ WriteParse(t)
    <3>1. PICK t \in Threads : pc' = [pc EXCEPT ![t] = "idle"] /\ call' = [call EXCEPT ![t] = NoCall]
      BY <2>5 DEF ReadEnd, WriteParse
    <3> QED
      BY <1>0, <2>1, <2>2, <3>1 DEF IdleInv, TypeOK
  <2>6. CASE \E t \in Threads, f \in Files, v \in Values : WriteBegin(t, f, v)
    <3>1. PICK t \in Threads, f \in Files, v \in Values : WriteBegin(t, f, v)
      BY <2>6
    <3>2. pc' = [pc EXCEPT ![t] = "copy"] /\ call' = [call EXCEPT ![t] = WriteCall(f, v)]
      BY <3>1 DEF WriteBegin
    <3> QED
      BY <1>0, <2>1, <3>2 DEF IdleInv, TypeOK
  <2>7. CASE \E t \in Threads : WriteCopy(t)
    BY <1>0, <2>1, <2>7 DEF WriteCopy, IdleInv, TypeOK
  <2>8. CASE \E f \in Files : (\E m \in Minors : DeviceOpen(f, m)) \/ DeviceRelease(f)
    BY <2>3, <2>8 DEF DeviceOpen, DeviceRelease, calls
  <2>9. CASE \E t \in Threads : ReadPut(t)
    BY <2>3, <2>9 DEF ReadPut, calls
  <2>10. CASE UNCHANGED vars
    BY <2>3, <2>10 DEF vars, calls
  <2> QED
    BY <2>4, <2>5, <2>6, <2>7, <2>8, <2>9, <2>10 DEF Next, ReadNothing
<1>c. SUFFICES AloneInv' /\ TextInv' /\ OpenInv'
  BY <1>0, <1>b DEF PanelInv
<1>1. ASSUME NEW f \in Files, NEW m \in Minors, DeviceOpen(f, m) PROVE AloneInv' /\ TextInv' /\ OpenInv'
  <2>1. /\ UNCHANGED <<reg, pc, call, Message>>
        /\ Message_Ptr' = "byte" /\ disturbed' = disturbed \cup Reading
    BY <1>1 DEF DeviceOpen, calls
  <2>2. Inside' = Inside /\ Writing' = Writing /\ Reading' = Reading
        /\ In({"parse", "put"})' = In({"parse", "put"})
    BY <2>1 DEF Inside, Writing, Reading, In
  <2>3. AloneInv'
    <3>1. disturbed' \subseteq Inside'
      BY <1>a, <2>1, <2>2 DEF AloneInv, Inside
    <3> QED
      BY <1>a, <2>1, <2>2, <3>1 DEF AloneInv, Begun
  <2>4. TextInv'
    BY <1>a, <2>1, <2>2 DEF TextInv, Empty
  <2>5. CASE NotOpen
    <3>1. IsOpen(f)'
      BY <1>0, <1>1, <2>5 DEF DeviceOpen, IsOpen, TypeOK, Minors, NoFile
    <3> QED
      BY <2>3, <2>4, <3>1 DEF OpenInv
  <2>6. CASE ~NotOpen
    BY <1>a, <1>1, <2>3, <2>4, <2>6 DEF DeviceOpen, OpenInv, IsOpen, device
  <2> QED
    BY <2>5, <2>6
<1>2. ASSUME NEW f \in Files, DeviceRelease(f) PROVE AloneInv' /\ TextInv' /\ OpenInv'
  <2>1. UNCHANGED <<reg, pc, call, Message, Message_Ptr, disturbed>>
    BY <1>2 DEF DeviceRelease, calls, buffer
  <2>2. Inside = {}
    <3>1. \A g \in Files : IsOpen(g) => g = f
      BY <1>0, <1>2 DEF DeviceRelease, OneFile
    <3>2. \A t \in Inside : call[t].file = f
      BY <1>0, <3>1 DEF OneFile, TypeOK, Calls, Inside, Writing, Reading, In
    <3> QED
      BY <1>2, <3>2 DEF DeviceRelease
  <2>3. Inside' = {} /\ Writing' = {} /\ Reading' = {} /\ In({"parse", "put"})' = In({"parse", "put"})
    BY <2>1, <2>2 DEF Inside, Writing, Reading, In
  <2>4. AloneInv' /\ TextInv'
    BY <1>a, <2>1, <2>2, <2>3 DEF AloneInv, TextInv, Empty
  <2>5. deviceIsOpen' = 0
    BY <1>0, <1>2 DEF DeviceRelease, OneFile, TypeOK
  <2> QED
    BY <2>4, <2>5 DEF OpenInv
<1>3. ASSUME NEW t \in Threads, NEW f \in Files, ReadBegin(t, f) PROVE AloneInv' /\ TextInv' /\ OpenInv'
  <2>1. /\ UNCHANGED <<reg, minor, deviceIsOpen, Message_Ptr>> /\ Message' = Whole
        /\ pc' = [pc EXCEPT ![t] = "put"] /\ pc[t] = "idle"
        /\ call' = [call EXCEPT ![t] = ReadCall(f)]
        /\ disturbed' = disturbed \cup In({"parse", "put"})
    BY <1>3 DEF ReadBegin, device
  <2>2. Writing' = Writing /\ Reading' = Reading \cup {t} /\ t \notin Inside
    BY <1>0, <2>1 DEF Inside, Writing, Reading, In, TypeOK
  <2>3. disturbed' \subseteq Inside'
    BY <1>a, <2>1, <2>2 DEF AloneInv, Inside, Writing, Reading, In
  <2>4. ASSUME NEW u \in Writing' \ disturbed'
        PROVE  call'[u].reg = reg' /\ pc'[u] # "parse"
    <3>1. u \in Writing \ disturbed /\ u # t /\ u \in Threads /\ pc[u] # "parse"
      BY <2>1, <2>2, <2>4 DEF Inside, Writing, Reading, In
    <3> QED
      BY <1>0, <1>a, <2>1, <3>1 DEF AloneInv, TypeOK
  <2>5. ASSUME NEW u \in Reading' \ disturbed'
        PROVE  call'[u].text = ShownText(minor[call[u].file])'
    <3>1. u = t
      BY <2>1, <2>2, <2>5 DEF Reading, In
    <3>2. call'[t].text = ShownText(minor[f]) /\ call'[t].file = f
      BY <1>0, <2>1 DEF ReadCall, TypeOK
    <3> QED
      BY <2>1, <3>1, <3>2 DEF ShownText
  <2>6. AloneInv'
    BY <2>3, <2>4, <2>5 DEF AloneInv
  <2>7. TextInv'
    BY <2>1 DEF TextInv, Whole, Empty
  <2> QED
    BY <1>a, <2>1, <2>6, <2>7 DEF OpenInv, IsOpen
<1>4. ASSUME NEW t \in Threads, ReadPut(t) PROVE AloneInv' /\ TextInv' /\ OpenInv'
  <2>1. /\ UNCHANGED <<reg, minor, deviceIsOpen, Message, pc, call>>
        /\ disturbed' = disturbed \cup (Reading \ {t}) /\ pc[t] = "put"
    BY <1>4 DEF ReadPut, device, calls
  <2>2. Inside' = Inside /\ Writing' = Writing /\ Reading' = Reading
        /\ In({"parse", "put"})' = In({"parse", "put"})
    BY <2>1 DEF Inside, Writing, Reading, In
  <2>3. disturbed' \subseteq Inside'
    BY <1>a, <2>1, <2>2 DEF AloneInv, Inside
  <2>4. AloneInv'
    BY <1>a, <2>1, <2>2, <2>3, AloneStays
  <2>5. Message # Empty
    BY <1>a, <2>1 DEF TextInv, In
  <2>6. TextInv'
    BY <2>1, <2>5 DEF TextInv, Empty
  <2> QED
    BY <1>a, <2>1, <2>4, <2>6 DEF OpenInv, IsOpen
<1>5. ASSUME NEW t \in Threads, ReadEnd(t) PROVE AloneInv' /\ TextInv' /\ OpenInv'
  <2>1. /\ UNCHANGED <<reg, minor, deviceIsOpen, Message>> /\ pc[t] = "put"
        /\ pc' = [pc EXCEPT ![t] = "idle"] /\ call' = [call EXCEPT ![t] = NoCall]
        /\ disturbed' = (disturbed \cup Reading) \ {t}
    BY <1>5 DEF ReadEnd, device
  <2>2. Inside' = Inside \ {t} /\ Writing' = Writing /\ Reading' = Reading \ {t} /\ t \notin Writing
    BY <1>0, <2>1 DEF Inside, Writing, Reading, In, TypeOK
  <2>3. disturbed' \subseteq Inside'
    BY <1>a, <2>1, <2>2 DEF AloneInv, Inside
  <2>4. \A u \in Threads \ {t} : call'[u] = call[u] /\ pc'[u] = pc[u]
    BY <1>0, <2>1 DEF TypeOK
  <2>5. \A u \in Writing' \ disturbed' : u \in Writing \ disturbed /\ u \in Threads \ {t}
    BY <2>1, <2>2 DEF Writing, In
  <2>6. Reading' \ disturbed' = {}
    BY <2>1, <2>2
  <2>7. AloneInv'
    BY <1>a, <2>1, <2>3, <2>4, <2>5, <2>6, AloneStays
  <2>8. Message # Empty
    BY <1>a, <2>1 DEF TextInv, In
  <2>9. TextInv'
    BY <2>1, <2>8 DEF TextInv, Empty
  <2> QED
    BY <1>a, <2>1, <2>7, <2>9 DEF OpenInv, IsOpen
<1>6. ASSUME NEW t \in Threads, NEW f \in Files, NEW v \in Values, WriteBegin(t, f, v)
      PROVE AloneInv' /\ TextInv' /\ OpenInv'
  <2>1. /\ UNCHANGED <<reg, minor, deviceIsOpen, Message, Message_Ptr, disturbed>> /\ pc[t] = "idle"
        /\ pc' = [pc EXCEPT ![t] = "copy"] /\ call' = [call EXCEPT ![t] = WriteCall(f, v)]
    BY <1>6 DEF WriteBegin, device, buffer
  <2>2. Writing' = Writing \cup {t} /\ Reading' = Reading /\ t \notin Inside
        /\ In({"parse", "put"})' = In({"parse", "put"})
    BY <1>0, <2>1 DEF Inside, Writing, Reading, In, TypeOK
  <2>3. disturbed' \subseteq Inside'
    BY <1>a, <2>1, <2>2 DEF AloneInv, Inside
  <2>4. \A u \in Threads \ {t} : call'[u] = call[u] /\ pc'[u] = pc[u]
    BY <1>0, <2>1 DEF TypeOK
  <2>5. call'[t].reg = reg /\ pc'[t] = "copy"
    BY <1>0, <2>1 DEF TypeOK, WriteCall
  <2>6. ASSUME NEW u \in Writing' \ disturbed'
        PROVE  call'[u].reg = reg' /\ (pc'[u] = "parse" => Message' = Begun(call'[u].number))
    <3>1. CASE u = t
      BY <2>1, <2>5, <3>1
    <3>2. CASE u # t
      <4>1. u \in Writing \ disturbed /\ u \in Threads \ {t}
        BY <2>1, <2>2, <2>6, <3>2 DEF Writing, In
      <4> QED
        BY <1>a, <2>1, <2>4, <4>1 DEF AloneInv
    <3> QED
      BY <3>1, <3>2
  <2>7. ASSUME NEW u \in Reading' \ disturbed'
        PROVE  call'[u].text = ShownText(minor[call[u].file])'
    <3>1. u \in Reading \ disturbed /\ u \in Threads \ {t}
      BY <2>1, <2>2, <2>7 DEF Inside, Reading, In
    <3> QED
      BY <1>a, <2>1, <2>4, <3>1 DEF AloneInv, ShownText
  <2>8. AloneInv'
    BY <2>3, <2>6, <2>7 DEF AloneInv, Begun
  <2>9. TextInv'
    BY <1>a, <2>1, <2>2 DEF TextInv, Empty
  <2> QED
    BY <1>a, <2>1, <2>8, <2>9 DEF OpenInv, IsOpen
<1>7. ASSUME NEW t \in Threads, WriteCopy(t) PROVE AloneInv' /\ TextInv' /\ OpenInv'
  <2>1. /\ UNCHANGED <<reg, minor, deviceIsOpen, Message_Ptr, call>> /\ pc[t] = "copy"
        /\ pc' = [pc EXCEPT ![t] = "parse"] /\ Message' = Begun(call[t].number)
        /\ disturbed' = disturbed \cup In({"parse", "put"})
    BY <1>7 DEF WriteCopy, device
  <2>2. Writing' = Writing /\ Reading' = Reading /\ t \in Writing
    BY <1>0, <2>1 DEF Writing, Reading, In, TypeOK
  <2>3. disturbed' \subseteq Inside'
    BY <1>a, <2>1, <2>2 DEF AloneInv, Inside, Writing, Reading, In
  <2>4. ASSUME NEW u \in Writing' \ disturbed'
        PROVE  call'[u].reg = reg' /\ (pc'[u] = "parse" => Message' = Begun(call'[u].number))
    <3>1. u \in Writing \ disturbed /\ u \in Threads /\ pc[u] # "parse"
      BY <2>1, <2>2, <2>4 DEF Writing, In
    <3>2. call'[u].reg = reg'
      BY <1>a, <2>1, <3>1 DEF AloneInv
    <3>3. pc'[u] = "parse" => u = t
      BY <1>0, <2>1, <3>1 DEF TypeOK
    <3> QED
      BY <2>1, <3>2, <3>3
  <2>5. Reading' \ disturbed' = {}
    BY <2>1, <2>2 DEF Reading, In
  <2>6. AloneInv'
    BY <2>3, <2>4, <2>5 DEF AloneInv, Begun
  <2>7. Message' # Empty
    BY <2>1 DEF Begun, Empty
  <2>8. TextInv'
    BY <2>7 DEF TextInv, Empty
  <2> QED
    BY <1>a, <2>1, <2>6, <2>8 DEF OpenInv, IsOpen
<1>8. ASSUME NEW t \in Threads, WriteParse(t) PROVE AloneInv' /\ TextInv' /\ OpenInv'
  <2>1. /\ UNCHANGED <<minor, deviceIsOpen>> /\ Message' = Whole
        /\ pc' = [pc EXCEPT ![t] = "idle"]
        /\ disturbed' = (disturbed \cup Inside) \ {t}
    BY <1>8 DEF WriteParse, device
  <2>2. Inside' = Inside \ {t} /\ Writing' \subseteq Inside' /\ Reading' \subseteq Inside'
    BY <1>0, <1>8, <2>1 DEF WriteParse, Inside, Writing, Reading, In, TypeOK
  <2>3. disturbed' = Inside'
    BY <1>a, <2>1, <2>2 DEF AloneInv
  <2>4. AloneInv'
    BY <2>2, <2>3 DEF AloneInv
  <2>5. TextInv'
    BY <2>1 DEF TextInv, Whole, Empty
  <2> QED
    BY <1>a, <2>1, <2>4, <2>5 DEF OpenInv, IsOpen
<1>9. ASSUME UNCHANGED vars PROVE AloneInv' /\ TextInv' /\ OpenInv'
  <2>1. UNCHANGED <<reg, minor, deviceIsOpen, Message, Message_Ptr, pc, call, disturbed>>
    BY <1>9 DEF vars, device, buffer, calls
  <2>2. Inside' = Inside /\ Writing' = Writing /\ Reading' = Reading
        /\ In({"parse", "put"})' = In({"parse", "put"})
    BY <2>1 DEF Inside, Writing, Reading, In
  <2>3. AloneInv'
    <3>1. disturbed' \subseteq Inside'
      BY <1>a, <2>1, <2>2 DEF AloneInv
    <3> QED
      BY <1>a, <2>1, <2>2, <3>1, AloneStays
  <2> QED
    BY <1>a, <2>1, <2>2, <2>3 DEF TextInv, OpenInv, Empty, IsOpen
<1> QED
  BY <1>1, <1>2, <1>3, <1>4, <1>5, <1>6, <1>7, <1>8, <1>9 DEF Next, ReadNothing

-----------------------------------------------------------------------------
(* The refinement.                                                          *)

\* What a read shows is what the panel says of the setting.
LEMMA TextShowsSetting ==
  ASSUME TypeOK, NEW m \in Minors
  PROVE  ShownText(m) = Panel!Shown(m)
<1> DEFINE r == reg[Register(m)]
<1>1. Register(m) \in {1, 2} /\ (Register(m) = 1 <=> m < 3)
  BY DEF Register, Minors
<1>2. r \in Registers
  BY <1>1 DEF TypeOK
<1>3. m \in {0, 3} => Setting[m] = r.enable
  BY <1>1, SettingFacts
<1>4. m \in {1, 4} => Setting[m] = r.freq
  BY <1>1, SettingFacts
<1>5. m \in {2, 5} => Setting[m] = r.duty
  BY <1>1, SettingFacts
<1>6. r.freq \in 0 .. 255 /\ r.duty \in 0 .. 255
  BY <1>2 DEF Registers
<1>7. r.freq # 0 => map_freq(r.freq) = 32000 \div (256 * r.freq)
  <2>1. ASSUME r.freq # 0 PROVE r.freq \in 1 .. 255
    BY <1>6, <2>1
  <2> QED
    BY <2>1, DivisionsCompose DEF map_freq
<1>8. map_duty(r.duty) = (100 * r.duty) \div 256 /\ map_duty(0) = 0
  BY <1>6 DEF map_duty
<1> HIDE DEF r
<1>9. CASE m \in {0, 3}
  BY <1>3, <1>9 DEF r, ShownText, Panel!Shown, Panel!Settings, Panel!Reloads, Panel!Duties
<1>10. CASE m \in {1, 4}
  BY <1>4, <1>7, <1>10 DEF r, ShownText, Panel!Shown, Panel!Settings, Panel!Reloads, Panel!Duties
<1>11. CASE m \in {2, 5}
  BY <1>5, <1>8, <1>11 DEF r, ShownText, Panel!Shown, Panel!Settings, Panel!Reloads, Panel!Duties
<1>12. CASE m = 6
  BY <1>12 DEF ShownText, Panel!Shown, Panel!Settings, Panel!Reloads, Panel!Duties
<1> QED
  BY <1>9, <1>10, <1>11, <1>12 DEF Minors

\* What an undisturbed write leaves is the value it asks for, encoded.
LEMMA ToggledEncodes ==
  ASSUME NEW e \in {0, 1}, NEW v \in Int
  PROVE  Toggled(e, e, v) = IF v > 0 THEN 1 ELSE 0
<1>1. CASE v > 0
  <2>1. -v < 0
    BY <1>1
  <2>2. (e + e + 1) % 2 = 1
    OBVIOUS
  <2> QED
    BY <1>1, <2>1, <2>2 DEF Toggled
<1>2. CASE ~(v > 0)
  <2>1. ~(-v < 0)
    BY <1>2
  <2>2. (e + e + 0) % 2 = 0
    OBVIOUS
  <2> QED
    BY <1>2, <2>1, <2>2 DEF Toggled
<1> QED
  BY <1>1, <1>2

\* The end of a write is a step of the panel.
LEMMA ParseEnds ==
  ASSUME PanelInv, PanelInv', NEW t \in Threads, WriteParse(t)
  PROVE  Panel!EndWrite(t)
<1> DEFINE m == minor[call[t].file]
           first == call[t].reg
           number == call[t].number
<1>0. PwmInv /\ PwmInv' /\ TypeOK /\ OneFile /\ OneFile'
  BY DEF PanelInv, PwmInv
<1>1. /\ t \in Writing /\ t \in Inside /\ Writing' = Writing \ {t} /\ Reading' = Reading /\ t \notin Reading
      /\ call[t].file \in Files /\ first \in [{1, 2} -> Registers] /\ number \in Values \cup {0}
  BY <1>0 DEF WriteParse, Inside, Writing, Reading, In, TypeOK, Calls
<1>2. m \in 0 .. 6 /\ IsOpen(call[t].file) /\ AgreeButFor(m, first, reg)
  BY <1>0, <1>1 DEF OneFile, IsOpen, PwmInv, SnapshotsAgree, TypeOK, Minors
<1>3. OpenMinor = m
  BY <1>0, <1>1, <1>2, OpenFacts
<1>4. OpenMinor' = OpenMinor /\ shown' = shown
  BY DEF WriteParse, OpenMinor, IsOpen, device
<1>5. [u \in Threads |-> call[u].number]' = [[u \in Threads |-> call[u].number] EXCEPT ![t] = 0]
  <2>1. call' = [call EXCEPT ![t] = NoCall] /\ NoCall.number = 0
    BY DEF WriteParse, NoCall
  <2>2. \A u \in Threads : call'[u].number = IF u = t THEN 0 ELSE call[u].number
    BY <1>0, <2>1 DEF TypeOK
  <2> QED
    BY <2>2
<1>6. TextState' = "due"
  <2>1. Message' # Empty /\ Message_Ptr' = "byte"
    BY DEF WriteParse, Whole, Empty
  <2> QED
    BY <2>1 DEF TextState
<1>7. PICK v \in Parsed(number) :
         reg' = IF OutOfRange(v) \/ m = 6 THEN reg
                ELSE [reg EXCEPT ![Register(m)] = WithField(m, first, v)]
  BY DEF WriteParse
<1>8. v \in Int
  BY <1>1, ParsedType
<1>9. ~OutOfRange(v)
  BY <1>8 DEF OutOfRange
<1>10. t \notin disturbed => v = number /\ first = reg
  <2>1. ASSUME t \notin disturbed PROVE first = reg /\ Message = Begun(number)
    BY <1>1, <2>1 DEF PanelInv, AloneInv, WriteParse
  <2> QED
    BY <2>1 DEF Parsed
<1>11. IF m \in Panel!Settings
       THEN \E n \in IF t \in disturbed THEN Panel!Legal(m) ELSE Panel!Wanted(m, number) :
              Setting' = [Setting EXCEPT ![m] = n]
       ELSE Setting' = Setting
  <2>1. CASE m = 6
    <3>1. reg' = reg
      BY <1>7, <2>1
    <3> QED
      BY <2>1, <3>1 DEF Setting, Panel!Settings
  <2>2. CASE m \in 0 .. 5
    <3> DEFINE e == reg[Register(m)].enable
               f == first[Register(m)].enable
               n == IF m \in {0, 3} THEN Toggled(e, f, v) ELSE v % 256
    <3>1. reg' = [reg EXCEPT ![Register(m)] = WithField(m, first, v)]
      BY <1>7, <1>9, <2>2
    <3>2. Setting' = [Setting EXCEPT ![m] = n]
      BY <1>0, <1>1, <1>2, <1>8, <2>2, <3>1, EndSetsOne
    <3>3. e \in {0, 1} /\ f \in {0, 1}
      BY <1>0, <1>1 DEF TypeOK, Registers, Register
    <3> HIDE DEF e, f, m, first, number
    <3>4. n \in Panel!Legal(m)
      BY <1>8, <3>3, FieldsFit DEF Panel!Legal, Panel!Enables
    <3>5. ASSUME t \notin disturbed PROVE n \in Panel!Wanted(m, number)
      <4>1. v = number /\ f = e
        BY <1>10, <3>5 DEF e, f
      <4>2. CASE number \notin 0 .. 255
        BY <3>4, <4>2 DEF Panel!Wanted
      <4>3. CASE number \in 0 .. 255 /\ m \in {0, 3}
        <5>1. n = IF number > 0 THEN 1 ELSE 0
          BY <3>3, <4>1, <4>3, ToggledEncodes
        <5>2. n = IF number = 0 THEN 0 ELSE 1
          BY <4>3, <5>1
        <5> QED
          BY <4>3, <5>2 DEF Panel!Wanted, Panel!Enables
      <4>4. CASE number \in 0 .. 255 /\ m \notin {0, 3}
        <5>1. n = number
          BY <4>1, <4>4
        <5> QED
          BY <4>4, <5>1 DEF Panel!Wanted, Panel!Enables
      <4> QED
        BY <4>2, <4>3, <4>4
    <3> QED
      BY <2>2, <3>2, <3>4, <3>5 DEF Panel!Settings
  <2> QED
    BY <1>2, <2>1, <2>2
<1>12. \E now \in SUBSET (Panel!inside \ {t}) : disturbed' = (disturbed \cup now) \ {t}
  <2>1. Panel!inside = Inside
    BY DEF Panel!inside, Inside
  <2>2. disturbed' = (disturbed \cup (Inside \ {t})) \ {t}
    BY DEF WriteParse
  <2> QED
    BY <2>1, <2>2
<1> QED
  BY <1>1, <1>3, <1>4, <1>5, <1>6, <1>11, <1>12 DEF Panel!EndWrite

\* The driver starts as the panel does.
LEMMA PanelStarts == Init => Panel!Init
<1> SUFFICES ASSUME Init PROVE Panel!Init
  OBVIOUS
<1>1. Setting = [m \in Panel!Settings |-> 0]
  <2>1. \A m \in 0 .. 5 : Setting[m] = 0
    BY SettingFacts DEF Init, AllClear, Cleared
  <2>2. Setting = [m \in 0 .. 5 |-> Setting[m]]
    BY DEF Setting
  <2> QED
    BY <2>1, <2>2 DEF Panel!Settings
<1>2. OpenMinor = Panel!NoFile
  BY DEF Init, OpenMinor, IsOpen, NoFile, Panel!NoFile
<1>3. [t \in Threads |-> call[t].number] = [t \in Threads |-> 0]
  BY DEF Init, NoCall
<1>4. TextState = "none" /\ Writing = {} /\ Reading = {}
  BY DEF Init, TextState, Writing, Reading, In
<1> QED
  BY <1>1, <1>2, <1>3, <1>4 DEF Init, Panel!Init, Panel!Unshown, Panel!NoFile, Unshown, NoFile

\* An open() is a step of the panel.
LEMMA OpenSteps ==
  ASSUME PanelInv, NEW f \in Files, NEW m \in Minors, DeviceOpen(f, m)
  PROVE  Panel!Open(m) \/ Panel!Refuse
<1>0. TypeOK /\ OneFile /\ OpenInv /\ AloneInv
  BY DEF PanelInv, PwmInv
<1>1. /\ Setting' = Setting /\ Writing' = Writing /\ Reading' = Reading
      /\ UNCHANGED <<call, shown>> /\ disturbed' = disturbed \cup Reading
  BY DEF DeviceOpen, Setting, Writing, Reading, In, calls
<1>2. TextState' = Panel!Offered
  BY DEF DeviceOpen, TextState, Panel!Offered
<1>3. CASE NotOpen
  <2>1. \A g \in Files : ~IsOpen(g)
    BY <1>0, <1>3 DEF OneFile, NotOpen
  <2>2. OpenMinor = NoFile
    BY <1>0, <2>1, OpenFacts
  <2>3. minor' = [minor EXCEPT ![f] = m]
    BY <1>3 DEF DeviceOpen
  <2>4. minor'[f] = m /\ \A g \in Files : IsOpen(g)' <=> g = f
    BY <1>0, <2>1, <2>3 DEF IsOpen, TypeOK, Minors, NoFile
  <2>5. OpenMinor' = m
    <3>1. \A g \in Files : minor'[g] # NoFile <=> g = f
      BY <2>4 DEF IsOpen
    <3>2. (CHOOSE g \in Files : minor'[g] # NoFile) = f
      BY <3>1
    <3> QED
      BY <2>4, <3>1, <3>2 DEF OpenMinor, IsOpen
  <2>6. Inside = {}
    BY <1>0, <2>1 DEF OneFile, TypeOK, Calls, Inside, Writing, Reading, In
  <2>7. disturbed' = disturbed
    BY <1>1, <2>6 DEF Inside
  <2> QED
    BY <1>1, <1>2, <2>2, <2>5, <2>7 DEF Panel!Open, NoFile, Panel!NoFile
<1>4. CASE ~NotOpen
  <2>1. PICK g \in Files : IsOpen(g)
    BY <1>0, <1>4 DEF OpenInv, NotOpen
  <2>2. OpenMinor # NoFile
    BY <1>0, <2>1, OpenFacts
  <2>3. OpenMinor' = OpenMinor
    BY <1>4 DEF DeviceOpen, OpenMinor, IsOpen, device
  <2>4. Panel!Disturb(Panel!inside)
    BY <1>1 DEF Panel!Disturb, Panel!inside
  <2> QED
    BY <1>1, <1>2, <2>2, <2>3, <2>4 DEF Panel!Refuse, NoFile, Panel!NoFile
<1> QED
  BY <1>3, <1>4

\* The start of a read is a step of the panel.
LEMMA ReadBegins ==
  ASSUME PanelInv, NEW t \in Threads, NEW f \in Files, ReadBegin(t, f)
  PROVE  Panel!BeginRead(t)
<1>0. TypeOK /\ OneFile
  BY DEF PanelInv, PwmInv
<1>1. OpenMinor # NoFile
  BY <1>0, OpenFacts DEF ReadBegin
<1>2. /\ UNCHANGED <<reg, minor, shown, Message_Ptr>> /\ Message' = Whole /\ pc[t] = "idle"
      /\ pc' = [pc EXCEPT ![t] = "put"] /\ call' = [call EXCEPT ![t] = ReadCall(f)]
      /\ disturbed' = disturbed \cup In({"parse", "put"})
  BY DEF ReadBegin, device
<1>3. Setting' = Setting /\ OpenMinor' = OpenMinor
  BY <1>2 DEF Setting, OpenMinor, IsOpen
<1>4. TextState = "due" /\ TextState' = "due"
  BY <1>0, <1>2 DEF ReadBegin, AtEnd, TextState, TypeOK, Whole, Empty
<1>5. Writing' = Writing /\ Reading' = Reading \cup {t} /\ t \notin Inside
  BY <1>0, <1>2 DEF Inside, Writing, Reading, In, TypeOK
<1>6. Panel!inside = Inside
  BY DEF Panel!inside, Inside
<1>7. Panel!Disturb(Panel!inside)
  BY <1>2, <1>6 DEF Panel!Disturb, Inside, Writing, Reading, In
<1>8. [u \in Threads |-> call[u].number]' = [u \in Threads |-> call[u].number]
  <2>1. call[t].number = 0
    BY <1>2 DEF PanelInv, IdleInv
  <2>2. \A u \in Threads : call'[u].number = call[u].number
    BY <1>0, <1>2, <2>1 DEF ReadCall, TypeOK
  <2> QED
    BY <2>2
<1> QED
  BY <1>1, <1>2, <1>3, <1>4, <1>5, <1>6, <1>7, <1>8 DEF Panel!BeginRead, NoFile, Panel!NoFile

\* So is its end.
LEMMA ReadEnds ==
  ASSUME PanelInv, NEW t \in Threads, ReadEnd(t)
  PROVE  Panel!EndRead(t)
<1>0. TypeOK /\ OneFile /\ AloneInv /\ TextInv
  BY DEF PanelInv, PwmInv
<1>1. /\ UNCHANGED <<reg, minor, Message>> /\ pc[t] = "put" /\ Message_Ptr' = "end"
      /\ pc' = [pc EXCEPT ![t] = "idle"] /\ call' = [call EXCEPT ![t] = NoCall]
      /\ shown' = (IF t \in disturbed THEN Garbled ELSE call[t].text)
      /\ disturbed' = (disturbed \cup Reading) \ {t}
  BY DEF ReadEnd, device
<1>2. t \in Reading /\ t \in Inside /\ Reading' = Reading \ {t} /\ Writing' = Writing
  BY <1>0, <1>1 DEF Inside, Writing, Reading, In, TypeOK
<1>3. Setting' = Setting /\ OpenMinor' = OpenMinor
  BY <1>1 DEF Setting, OpenMinor, IsOpen
<1>4. TextState' = "given"
  <2>1. Message' # Empty
    BY <1>0, <1>1 DEF TextInv, In
  <2> QED
    BY <1>1, <2>1 DEF TextState
<1>5. shown' = IF t \in disturbed THEN Panel!Garbled ELSE Panel!Shown(OpenMinor)
  <2>1. call[t].file \in Files /\ IsOpen(call[t].file)
    BY <1>0, <1>2 DEF OneFile, TypeOK, Calls
  <2>2. OpenMinor = minor[call[t].file] /\ minor[call[t].file] \in Minors
    BY <1>0, <2>1, OpenFacts DEF IsOpen, TypeOK
  <2>3. ShownText(OpenMinor) = Panel!Shown(OpenMinor)
    BY <1>0, <2>2, TextShowsSetting
  <2>4. t \notin disturbed => call[t].text = Panel!Shown(OpenMinor)
    BY <1>0, <1>2, <2>2, <2>3 DEF AloneInv
  <2> QED
    BY <1>1, <2>4 DEF Garbled, Panel!Garbled
<1>6. \E now \in SUBSET (Panel!inside \ {t}) : disturbed' = (disturbed \cup now) \ {t}
  <2>1. disturbed' = (disturbed \cup (Reading \ {t})) \ {t}
    BY <1>1
  <2>2. Reading \ {t} \in SUBSET (Panel!inside \ {t})
    BY DEF Panel!inside
  <2> QED
    BY <2>1, <2>2
<1>7. [u \in Threads |-> call[u].number]' = [u \in Threads |-> call[u].number]
  <2>1. call[t].number = 0 /\ NoCall.number = 0
    BY <1>1 DEF PanelInv, IdleInv, NoCall
  <2>2. \A u \in Threads : call'[u].number = call[u].number
    BY <1>0, <1>1, <2>1 DEF TypeOK
  <2> QED
    BY <2>2
<1> QED
  BY <1>2, <1>3, <1>4, <1>5, <1>6, <1>7 DEF Panel!EndRead

\* The start of a write is a step of the panel.
LEMMA WriteBegins ==
  ASSUME PanelInv, NEW f \in Files, NEW t \in Threads, NEW v \in Values, WriteBegin(t, f, v)
  PROVE  Panel!BeginWrite(t, v)
<1>0. TypeOK /\ OneFile
  BY DEF PanelInv, PwmInv
<1>1. OpenMinor # NoFile
  BY <1>0, OpenFacts DEF WriteBegin
<1>2. /\ UNCHANGED <<shown, Message, Message_Ptr, reg, minor, disturbed>>
      /\ pc' = [pc EXCEPT ![t] = "copy"] /\ pc[t] = "idle"
      /\ call' = [call EXCEPT ![t] = WriteCall(f, v)]
  BY DEF WriteBegin, device, buffer
<1>3. Setting' = Setting /\ OpenMinor' = OpenMinor /\ TextState' = TextState
  BY <1>2 DEF Setting, OpenMinor, IsOpen, TextState
<1>4. Writing' = Writing \cup {t} /\ Reading' = Reading /\ t \notin Panel!inside
  BY <1>0, <1>2 DEF Panel!inside, Writing, Reading, In, TypeOK
<1>5. [u \in Threads |-> call[u].number]' = [[u \in Threads |-> call[u].number] EXCEPT ![t] = v]
  <2>1. \A u \in Threads : call'[u].number = IF u = t THEN v ELSE call[u].number
    BY <1>0, <1>2 DEF TypeOK, WriteCall
  <2> QED
    BY <2>1
<1> QED
  BY <1>1, <1>2, <1>3, <1>4, <1>5 DEF Panel!BeginWrite, NoFile, Panel!NoFile

\* The first bytes of a write are a step of the panel.
LEMMA WriteProceeds ==
  ASSUME PanelInv, NEW t \in Threads, WriteCopy(t)
  PROVE  Panel!ProceedWrite(t)
<1>0. TypeOK /\ TextInv
  BY DEF PanelInv, PwmInv
<1>1. /\ UNCHANGED <<reg, minor, call, shown, Message_Ptr>> /\ Message' # Empty /\ pc[t] = "copy"
      /\ pc' = [pc EXCEPT ![t] = "parse"] /\ disturbed' = disturbed \cup In({"parse", "put"})
  BY DEF WriteCopy, device, Begun, Empty
<1>2. Setting' = Setting /\ OpenMinor' = OpenMinor
  BY <1>1 DEF Setting, OpenMinor, IsOpen
<1>3. Writing' = Writing /\ Reading' = Reading /\ t \in Writing
  BY <1>0, <1>1 DEF Writing, Reading, In, TypeOK
<1>4. Panel!Disturb(Panel!inside \ {t})
  <2>1. In({"parse", "put"}) \in SUBSET (Panel!inside \ {t})
    BY <1>1 DEF Panel!inside, Writing, Reading, In
  <2> QED
    BY <1>1, <2>1 DEF Panel!Disturb
<1>5. TextState' = IF TextState = "none" THEN "due" ELSE TextState
  <2>1. CASE Message = Empty
    BY <1>0, <1>1, <2>1 DEF TextInv, TextState
  <2>2. CASE Message # Empty
    BY <1>1, <2>2 DEF TextState
  <2> QED
    BY <2>1, <2>2
<1> QED
  BY <1>1, <1>2, <1>3, <1>4, <1>5 DEF Panel!ProceedWrite

\* So are the first bytes of a read.
LEMMA ReadProceeds ==
  ASSUME PanelInv, NEW t \in Threads, ReadPut(t)
  PROVE  Panel!ProceedRead(t)
<1>0. TypeOK /\ TextInv
  BY DEF PanelInv, PwmInv
<1>1. /\ UNCHANGED <<reg, minor, pc, call, shown, Message>> /\ pc[t] = "put"
      /\ Message_Ptr = "byte" /\ Message_Ptr' \in {"byte", "end"}
      /\ disturbed' = disturbed \cup (Reading \ {t})
  BY DEF ReadPut, device, calls
<1>2. Setting' = Setting /\ OpenMinor' = OpenMinor /\ Writing' = Writing /\ Reading' = Reading
      /\ t \in Reading
  BY <1>1 DEF Setting, OpenMinor, IsOpen, Writing, Reading, In
<1>3. Panel!Disturb(Panel!inside \ {t})
  <2>1. Reading \ {t} \in SUBSET (Panel!inside \ {t})
    BY DEF Panel!inside
  <2> QED
    BY <1>1, <2>1 DEF Panel!Disturb
<1>4. TextState' \in {TextState, "given"}
  <2>1. Message # Empty
    BY <1>0, <1>1 DEF TextInv, In
  <2> QED
    BY <1>1, <2>1 DEF TextState
<1> QED
  BY <1>1, <1>2, <1>3, <1>4 DEF Panel!ProceedRead

\* Every step of the driver is a step of the panel, or none.
LEMMA PanelSteps == PanelInv /\ PanelInv' /\ [Next]_vars => [Panel!Next]_(Panel!vars)
<1> SUFFICES ASSUME PanelInv, PanelInv', [Next]_vars PROVE [Panel!Next]_(Panel!vars)
  OBVIOUS
<1>0. TypeOK /\ OneFile
  BY DEF PanelInv, PwmInv
<1>1. ASSUME NEW f \in Files, NEW m \in Minors, DeviceOpen(f, m) PROVE Panel!Next
  <2>1. m \in Panel!Minors
    BY DEF Minors, Panel!Minors
  <2> QED
    BY <1>1, <2>1, OpenSteps DEF Panel!Next
<1>2. ASSUME NEW f \in Files, DeviceRelease(f) PROVE Panel!Next
  <2>1. IsOpen(f) /\ \A g \in Files : IsOpen(g) => g = f
    BY <1>0, <1>2 DEF DeviceRelease, OneFile
  <2>2. Inside = {}
    <3>1. \A t \in Inside : call[t].file = f
      BY <1>0, <2>1 DEF OneFile, TypeOK, Calls, Inside, Writing, Reading, In
    <3> QED
      BY <1>2, <3>1 DEF DeviceRelease
  <2>3. Panel!inside = {} /\ Writing' = Writing /\ Reading' = Reading
    BY <1>2, <2>2 DEF DeviceRelease, Panel!inside, Inside, Writing, Reading, In, calls
  <2>4. OpenMinor # NoFile
    BY <1>0, <2>1, OpenFacts
  <2>5. \A g \in Files : ~IsOpen(g)'
    BY <1>0, <1>2, <2>1 DEF DeviceRelease, IsOpen, TypeOK
  <2>6. OpenMinor' = NoFile
    BY <2>5 DEF OpenMinor
  <2>7. Setting' = Setting /\ TextState' = TextState /\ UNCHANGED <<call, disturbed>> /\ shown' = Unshown
    BY <1>2 DEF DeviceRelease, Setting, TextState, calls, buffer
  <2>8. Panel!Close
    BY <2>3, <2>4, <2>6, <2>7 DEF Panel!Close, Panel!Unshown, Unshown, NoFile, Panel!NoFile
  <2> QED
    BY <2>8 DEF Panel!Next
<1>3. ASSUME NEW t \in Threads, NEW f \in Files, ReadBegin(t, f) PROVE Panel!Next
  BY <1>3, ReadBegins DEF Panel!Next
<1>4. ASSUME NEW t \in Threads, ReadPut(t) PROVE Panel!Next
  BY <1>4, ReadProceeds DEF Panel!Next
<1>5. ASSUME NEW t \in Threads, ReadEnd(t) PROVE Panel!Next
  BY <1>5, ReadEnds DEF Panel!Next
<1>6. ASSUME NEW t \in Threads, NEW f \in Files, NEW v \in Values, WriteBegin(t, f, v) PROVE Panel!Next
  BY <1>6, WriteBegins DEF Panel!Next
<1>7. ASSUME NEW t \in Threads, WriteCopy(t) PROVE Panel!Next
  BY <1>7, WriteProceeds DEF Panel!Next
<1>8. ASSUME NEW t \in Threads, WriteParse(t) PROVE Panel!Next
  BY <1>8, ParseEnds DEF Panel!Next
<1>9. ASSUME UNCHANGED vars PROVE UNCHANGED Panel!vars
  BY <1>9 DEF vars, device, buffer, calls, Panel!vars, Setting, OpenMinor, IsOpen, Writing, Reading, In, TextState
<1> QED
  BY <1>1, <1>2, <1>3, <1>4, <1>5, <1>6, <1>7, <1>8, <1>9 DEF Next, ReadNothing

\* Threads that share the open file, and sleep in the middle of read() and
\* write(), never cost a setting other than the one of its minor; a write of 0
\* to 255 that nothing disturbs sets the value it was given, and a read that
\* nothing disturbs shows what is set.
THEOREM DriverImplementsPanel == Spec => ImplementsPanel
<1>1. Spec => []PanelInv
  BY PanelInvInit, PanelInvNext, PTL DEF Spec
<1> QED
  BY <1>1, PanelStarts, PanelSteps, PTL DEF Spec, ImplementsPanel, Panel!Spec

=============================================================================
