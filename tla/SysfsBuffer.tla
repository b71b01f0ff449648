----------------------------- MODULE SysfsBuffer -----------------------------
(***************************************************************************)
(* The sysfs files of peek_and_poke/freddy.c and                           *)
(* peek_and_poke_kmod/peekpoke.c, in modules that are loaded and removed   *)
(* as ModuleLife says.  sysfs_store puts what is written into a static     *)
(* buffer, and peekpoke.c first executes it as a command; sysfs_show       *)
(* returns the buffer up to its first NUL.  Nothing is locked, and threads *)
(* are preempted between any two accesses to the statics.                  *)
(*                                                                         *)
(* Of a text the model keeps its size, its author and whether it begins    *)
(* with a command that writes a register.                                  *)
(***************************************************************************)
EXTENDS ModuleLife

CONSTANTS
  Threads,             \* threads that write and read the files
  Sizes,               \* the sizes of their texts
  sysfs_max_data_size

ASSUME SizesAssumption ==
  /\ sysfs_max_data_size \in Nat \ {0}
  /\ Sizes \subseteq Nat \ {0}

VARIABLES
  sysfs_buffer,      \* per cell: NUL or the author of the byte
  used_buffer_size,
  call,              \* per thread: its place in sysfs_store
  register,          \* the author of the last command that wrote a register
  last               \* the text of the last store, if nothing disturbed it

sysfs      == <<sysfs_buffer, used_buffer_size, call, register, last>>
sysfsVars  == <<vars, sysfs>>

Cells == 0 .. sysfs_max_data_size
NUL   == "nul"
Ours  == "module"     \* the author of the text a module is loaded with

ASSUME ThreadsAssumption == NUL \notin Threads

Text(author, size, pokes) == [author |-> author, size |-> size, pokes |-> pokes]
Unknown == Text(Ours, -1, FALSE)
Idle    == [place |-> "idle", rest |-> 0, size |-> 0, pokes |-> FALSE, alone |-> FALSE]

SmallerOf(a, b) == IF a < b THEN a ELSE b

\* "HelloWorld!\n" in freddy.c, nothing in peekpoke.c.
InitialSize == IF module = "freddy" THEN SmallerOf(12, sysfs_max_data_size) ELSE 0

Loaded(size) == [i \in Cells |-> IF i < size THEN Ours ELSE NUL]

SysfsInit ==
  /\ Init
  /\ sysfs_buffer = Loaded(InitialSize)
  /\ used_buffer_size = 0
  /\ call = [t \in Threads |-> Idle]
  /\ register = NUL
  /\ last = Text(Ours, InitialSize, FALSE)

-----------------------------------------------------------------------------
(* sysfs_store, for the part of a text that is still to be written.         *)

Active(t) == call[t].place \in {"entered", "sized", "copied"}

\* The file is there.
Reachable == module \in {"peekpoke", "freddy"} /\ "group" \in held

\* The kernel calls sysfs_store with a page that holds the text; peekpoke.c
\* executes the command in it.
StoreEnter(t, size) ==
  /\ Reachable
  /\ \/ call[t].place = "idle" /\ size \in Sizes
     \/ call[t].place = "again" /\ size = call[t].rest
  /\ Runs
  /\ \E pokes \in BOOLEAN :
       /\ register' = IF module = "peekpoke" /\ pokes THEN t ELSE register
       /\ call' = [u \in Threads |->
                     IF u = t THEN [place |-> "entered", rest |-> size, size |-> 0, pokes |-> pokes,
                                    alone |-> \A v \in Threads : ~Active(v)]
                     ELSE [call[u] EXCEPT !.alone = FALSE]]
  /\ last' = Unknown
  /\ UNCHANGED <<module, state, step, held, leaked, refs, user, sysfs_buffer, used_buffer_size>>

\* Deviation: the comparison forgets the byte for the NUL.
ClampedLate(count) == SmallerOf(count, sysfs_max_data_size + 1)

Clamped(count) == SmallerOf(count, sysfs_max_data_size)

StoreSize(t) ==
  /\ call[t].place = "entered"
  /\ Runs
  /\ used_buffer_size' = Clamped(call[t].rest)
  /\ call' = [call EXCEPT ![t].place = "sized", ![t].size = Clamped(call[t].rest)]
  /\ UNCHANGED <<module, state, step, held, leaked, refs, user, sysfs_buffer, register, last>>

\* The static is read again, or its value is still at hand.
SizeSeen(t) == {call[t].size, used_buffer_size}

\* memcpy.  If the size is more than was written it takes the NUL that ends the
\* page's text and what is behind it: zeros, or the tail of an earlier write.
StoreCopy(t) ==
  /\ call[t].place = "sized"
  /\ Runs
  /\ \E size \in SizeSeen(t), tail \in {t, NUL} :
       sysfs_buffer' = [i \in Cells |-> CASE i >= size                      -> sysfs_buffer[i]
                                          [] i < size /\ i < call[t].rest  -> t
                                          [] i < size /\ i = call[t].rest  -> NUL
                                          [] i < size /\ i > call[t].rest  -> tail]
  /\ call' = [call EXCEPT ![t].place = "copied"]
  /\ UNCHANGED <<module, state, step, held, leaked, refs, user, used_buffer_size, register, last>>

\* Deviation: the NUL is left out.
Unterminated(size) == sysfs_buffer

Terminated(size) == [sysfs_buffer EXCEPT ![size] = NUL]

\* The NUL and the result.  If that is less than was written, the writer may
\* write the rest, as echo does, or leave it.
StoreReturn(t) ==
  /\ call[t].place = "copied"
  /\ Runs
  /\ \E size \in SizeSeen(t) : sysfs_buffer' = Terminated(size)
  /\ \E result \in SizeSeen(t) :
       \/ /\ result < call[t].rest
          /\ call' = [call EXCEPT ![t] = [Idle EXCEPT !.place = "again", !.rest = call[t].rest - result]]
       \/ call' = [call EXCEPT ![t] = Idle]
  /\ last' = IF call[t].alone THEN Text(t, call[t].size, call[t].pokes) ELSE last
  /\ UNCHANGED <<module, state, step, held, leaked, refs, user, used_buffer_size, register>>

\* The writer does without the rest.
GiveUpRest(t) ==
  /\ call[t].place = "again"
  /\ call' = [call EXCEPT ![t] = Idle]
  /\ UNCHANGED <<vars, sysfs_buffer, used_buffer_size, register, last>>

-----------------------------------------------------------------------------
(* sysfs_show, and the life of the module.                                  *)

\* What sprintf copies, up to the first NUL.
ShownText ==
  LET end == CHOOSE n \in Cells : sysfs_buffer[n] = NUL /\ \A i \in 0 .. n - 1 : sysfs_buffer[i] # NUL
  IN  [i \in 1 .. end |-> sysfs_buffer[i - 1]]

Show == Reachable /\ Runs /\ UNCHANGED <<module, state, step, held, leaked, refs, user, sysfs>>

\* insmod brings the statics as they were compiled, and nobody has the file open.
Reloaded ==
  /\ sysfs_buffer' = Loaded(InitialSize)
  /\ used_buffer_size' = 0
  /\ call' = [t \in Threads |-> Idle]
  /\ last' = Text(Ours, InitialSize, FALSE)
  /\ UNCHANGED register

\* kobject_put waits for the calls of its attributes.
Life ==
  /\ state = "unloading" /\ ExitPlan[step] = "kobject" => \A t \in Threads : ~Active(t)
  /\ Next
  /\ IF state = "absent" /\ state' = "loading" THEN Reloaded ELSE UNCHANGED sysfs

SysfsNext ==
  \/ Life
  \/ Show
  \/ \E t \in Threads :
       \/ \E size \in Sizes \cup {call[t].rest} : StoreEnter(t, size)
       \/ StoreSize(t) \/ StoreCopy(t) \/ StoreReturn(t) \/ GiveUpRest(t)

SysfsSpec == SysfsInit /\ [][SysfsNext]_sysfsVars

-----------------------------------------------------------------------------

\* However stores are preempted and whatever sizes they take from one another,
\* the buffer has a NUL at its end, so that sysfs_show stays inside it.
StaysTerminated == sysfs_buffer[sysfs_max_data_size] = NUL /\ used_buffer_size \in Cells

\* After a store that no other overlapped the file shows its text, up to the
\* size of the buffer and with nothing of an older one, and if it is a command
\* to write a register no other command has come after it.
ShowsLast ==
  last # Unknown =>
    /\ ShownText = [i \in 1 .. last.size |-> last.author]
    /\ module = "peekpoke" /\ last.pokes => register = last.author

=============================================================================
