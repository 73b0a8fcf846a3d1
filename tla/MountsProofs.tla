---------------------------- MODULE MountsProofs ----------------------------
(***************************************************************************)
(* Mount contexts of any number of processes, nested to any depth.         *)
(***************************************************************************)
EXTENDS Mounts, TLAPS

Kinds == {"idle", "mount", "reread", "inside", "open", "exit", "umount", "cli"}

\* The types, in parts: what a process knows, the history, and flags.
ProcOK == /\ pc \in [Procs -> Kinds]
          /\ want \in [Procs -> Modes]
          /\ view \in [Procs -> Mnts]
          /\ status \in [Procs -> Modes \cup {"none"}]
          /\ file \in [Procs -> {"none", "device", "under"}]
NestOK == /\ depth \in Int /\ level \in [Procs -> Int]
          /\ found \in [Procs -> Mnts] /\ left \in [Procs -> Mnts]
          /\ base \in Mnts
FlagOK == disturbed \in BOOLEAN /\ failed \in BOOLEAN /\ told \in BOOLEAN
MntOK == mnt \in Mnts /\ origin \in {"nowhere", "home", "elsewhere"}

LEMMA TypeParts == TypeOK <=> ProcOK /\ NestOK /\ FlagOK /\ MntOK
  BY DEF TypeOK, ProcOK, NestOK, FlagOK, MntOK, Kinds

LEMMA MntsFacts ==
  /\ Nowhere \in Mnts /\ Nowhere.at = "nowhere"
  /\ \A m \in Modes : Home(m) \in Mnts /\ Home(m).at = "home" /\ Home(m).mode = m
  /\ \A v \in Mnts : /\ v.at \in {"nowhere", "home", "elsewhere"}
                     /\ v.at = "nowhere" <=> v = Nowhere
                     /\ v # Nowhere => v.mode \in Modes
                     /\ v.mode = "none" <=> v = Nowhere
                     /\ v.at = "home" => v = Home(v.mode)
  BY DEF Mnts, Nowhere, Home, Modes

LEMMA MountToFacts ==
  ASSUME NEW v \in Mnts, NEW m \in Modes
  PROVE  /\ MountTo(v, m) \in Mnts
         /\ MountTo(v, m).mode = m
         /\ MountTo(v, m).at = IF v = Nowhere THEN "home" ELSE v.at
         /\ v.at = "home" => MountTo(v, m) = Home(m)
  BY DEF Mnts, Modes, Nowhere, Home, MountTo

\* What a command does, whichever way it ends.
Ran(v, m) == MountCommand(v, m) \/ NoCommand(v, m) \/ CommandFails(v, m)

LEMMA CommandCases ==
  ASSUME NEW v \in Mnts, NEW m \in Modes, mnt \in Mnts, Ran(v, m)
  PROVE  \/ mnt' = mnt
         \/ /\ ~Nothing(v, m) /\ Possible(v, m)
            /\ mnt' = MountTo(v, m)
  BY DEF Ran, MountCommand, NoCommand, CommandFails

\* Every step, by the process that takes it.
Step(p) == \/ \E m \in Modes : Check(p, m) \/ CliMount(p, m)
           \/ Mount(p) \/ Reread(p) \/ Open(p) \/ Leave(p)
           \/ Restore(p) \/ Recheck(p) \/ Umount(p)
           \/ CliMounts(p) \/ CliUnmount(p)
           \/ Killed(p)

LEMMA NextCases == Next <=> \E p \in Procs : Step(p)
  BY DEF Next, Step
-----------------------------------------------------------------------------
LEMMA InitInv == Init => IInv
<1> SUFFICES ASSUME Init PROVE IInv
  OBVIOUS
<1>1. TypeOK
  <2>1. ProcOK BY MntsFacts DEF Init, ProcOK, Kinds, Modes
  <2>2. NestOK BY MntsFacts DEF Init, NestOK
  <2>3. FlagOK BY DEF Init, FlagOK
  <2>4. MntOK BY MntsFacts DEF Init, MntOK
  <2> QED BY <2>1, <2>2, <2>3, <2>4, TypeParts
<1>2. FileInv BY DEF Init, FileInv
<1>3. OriginInv BY DEF Init, OriginInv
<1>4. NestedInv BY DEF Init, NestedInv, LevelInv, ContextInv, ChainInv
<1>5. IdleInv BY DEF Init, IdleInv
<1> QED BY <1>1, <1>2, <1>3, <1>4, <1>5 DEF IInv
-----------------------------------------------------------------------------
(* Types.                                                                  *)

LEMMA RanType ==
  ASSUME NEW v \in Mnts, NEW m \in Modes, mnt \in Mnts, failed \in BOOLEAN, Ran(v, m)
  PROVE  mnt' \in Mnts /\ failed' \in BOOLEAN
<1>1. mnt' \in Mnts
  BY MountToFacts, CommandCases
<1>2. failed' \in BOOLEAN
  BY DEF Ran, MountCommand, NoCommand, CommandFails
<1> QED BY <1>1, <1>2

LEMMA EndsType ==
  ASSUME NEW p \in Procs, ProcOK, NestOK, Ends(p)
  PROVE  ProcOK' /\ NestOK'
<1>1. ProcOK'
  BY MntsFacts DEF Ends, Goto, ProcOK, Kinds, Modes
<1>2. NestOK'
  BY MntsFacts DEF Ends, NestOK
<1> QED BY <1>1, <1>2

LEMMA TypeStep == ASSUME TypeOK, Next PROVE TypeOK'
<1> PICK p \in Procs : Step(p)
  BY NextCases
<1>0. ProcOK /\ NestOK /\ FlagOK /\ MntOK
  BY TypeParts
<1> SUFFICES ProcOK' /\ NestOK' /\ FlagOK' /\ MntOK'
  BY TypeParts DEF TypeOK, ProcOK, NestOK, FlagOK, MntOK, Kinds
<1> USE <1>0 DEF context, nesting, Goto, Acts
<1>1. ASSUME NEW m \in Modes, Check(p, m) PROVE ProcOK' /\ NestOK' /\ FlagOK' /\ MntOK'
  <2>1. IsMounted \in Modes \cup {"none"}
    BY MntsFacts DEF IsMounted, MntOK
  <2>2. ProcOK'
    BY <1>1, <2>1 DEF Check, ProcOK, MntOK, Kinds
  <2>3. NestOK'
    BY <1>1 DEF Check, NestOK, MntOK
  <2>4. FlagOK' /\ MntOK'
    BY <1>1 DEF Check, FlagOK, MntOK
  <2> QED BY <2>2, <2>3, <2>4
<1>2. ASSUME NEW m \in Modes, CliMount(p, m)
      PROVE  ProcOK' /\ NestOK' /\ FlagOK' /\ MntOK'
  BY <1>2 DEF CliMount, ProcOK, NestOK, FlagOK, MntOK, Kinds
<1>3. ASSUME Mount(p) PROVE ProcOK' /\ NestOK' /\ FlagOK' /\ MntOK'
  <2>1. view[p] \in Mnts /\ want[p] \in Modes /\ Ran(view[p], want[p])
    BY <1>3 DEF Mount, ProcOK, Ran
  <2>2. mnt' \in Mnts /\ failed' \in BOOLEAN
    BY <2>1, RanType DEF MntOK, FlagOK
  <2>3. ProcOK'
    BY <1>3 DEF Mount, ProcOK, Kinds
  <2>4. NestOK'
    BY <1>3, <2>2 DEF Mount, NestOK
  <2>5. FlagOK' /\ MntOK'
    BY <1>3, <2>2 DEF Mount, FlagOK, MntOK
  <2> QED BY <2>3, <2>4, <2>5
<1>4. ASSUME Reread(p) \/ Open(p) \/ Leave(p) \/ CliUnmount(p)
      PROVE  ProcOK' /\ NestOK' /\ FlagOK' /\ MntOK'
  <2>1. ProcOK'
    BY <1>4 DEF Reread, Open, Leave, CliUnmount, ProcOK, MntOK, Kinds
  <2>2. NestOK' /\ MntOK'
    BY <1>4 DEF Reread, Open, Leave, CliUnmount, NestOK, MntOK
  <2>3. FlagOK'
    BY <1>4 DEF Reread, Open, Leave, CliUnmount, FlagOK
  <2> QED BY <2>1, <2>2, <2>3
<1>5. ASSUME Restore(p) PROVE ProcOK' /\ NestOK' /\ FlagOK' /\ MntOK'
  <2>1. view[p] \in Mnts /\ status[p] \in Modes /\ Ran(view[p], status[p])
    BY <1>5 DEF Restore, ProcOK, Ran
  <2>2. mnt' \in Mnts /\ failed' \in BOOLEAN
    BY <2>1, RanType DEF MntOK, FlagOK
  <2>3. FlagOK' /\ MntOK'
    BY <1>5, <2>2 DEF Restore, FlagOK, MntOK
  <2> QED BY <1>5, <2>3, EndsType DEF Restore
<1>6. ASSUME Recheck(p) PROVE ProcOK' /\ NestOK' /\ FlagOK' /\ MntOK'
  <2>1. FlagOK' /\ MntOK'
    BY <1>6 DEF Recheck, FlagOK, MntOK
  <2>2. CASE Ends(p)
    BY <2>1, <2>2, EndsType
  <2>3. CASE Goto(p, "umount") /\ UNCHANGED <<context, view, file, nesting, left>>
    BY <2>1, <2>3 DEF ProcOK, NestOK, Kinds
  <2> QED BY <1>6, <2>2, <2>3 DEF Recheck
<1>7. ASSUME Umount(p) PROVE ProcOK' /\ NestOK' /\ FlagOK' /\ MntOK'
  <2>1. FlagOK' /\ MntOK'
    BY <1>7, MntsFacts DEF Umount, FlagOK, MntOK
  <2> QED BY <1>7, <2>1, EndsType DEF Umount
<1>8. ASSUME CliMounts(p) PROVE ProcOK' /\ NestOK' /\ FlagOK' /\ MntOK'
  <2>1. view[p] \in Mnts /\ want[p] \in Modes /\ Ran(view[p], want[p])
    BY <1>8 DEF CliMounts, ProcOK, Ran
  <2>2. mnt' \in Mnts /\ failed' \in BOOLEAN
    BY <2>1, RanType DEF MntOK, FlagOK
  <2>3. FlagOK' /\ MntOK'
    BY <1>8, <2>2 DEF CliMounts, FlagOK, MntOK
  <2> QED BY <1>8, <2>3, EndsType DEF CliMounts
<1>9. ASSUME Killed(p) PROVE ProcOK' /\ NestOK' /\ FlagOK' /\ MntOK'
  <2>1. FlagOK' /\ MntOK'
    BY <1>9 DEF Killed, FlagOK, MntOK
  <2> QED BY <1>9, <2>1, EndsType DEF Killed
<1> QED BY <1>1, <1>2, <1>3, <1>4, <1>5, <1>6, <1>7, <1>8, <1>9 DEF Step
-----------------------------------------------------------------------------
(* Open files keep the device where it is.                                 *)

LEMMA RanKeepsFiles ==
  ASSUME TypeOK, FileInv, NEW v \in Mnts, NEW m \in Modes, Ran(v, m),
         NEW q \in Procs, file[q] = "device"
  PROVE  /\ mnt'.at = "home"
         /\ want[q] = "rw" => mnt'.mode = "rw"
<1>1. mnt \in Mnts
  BY DEF TypeOK
<1>2. mnt.at = "home" /\ (want[q] = "rw" => mnt.mode = "rw")
  BY DEF FileInv
<1>3. CASE mnt' = mnt
  BY <1>2, <1>3
<1>4. CASE Possible(v, m) /\ mnt' = MountTo(v, m)
  <2>1. v.at = "home" /\ (m = "ro" => ~Writing)
    BY <1>2, <1>4, MntsFacts DEF Possible
  <2>2. mnt' = Home(m)
    BY <1>4, <2>1, MountToFacts
  <2>3. want[q] = "rw" => m = "rw"
    BY <2>1 DEF Writing, Modes
  <2> QED BY <2>2, <2>3, MntsFacts
<1> QED BY <1>1, <1>3, <1>4, CommandCases

LEMMA EndsFile ==
  ASSUME TypeOK, NEW p \in Procs, Ends(p)
  PROVE  /\ file' = [file EXCEPT ![p] = "none"] /\ file'[p] = "none"
         /\ \A q \in Procs \ {p} :
              /\ file'[q] = file[q] /\ want'[q] = want[q] /\ pc'[q] = pc[q]
              /\ status'[q] = status[q] /\ level'[q] = level[q]
         /\ pc'[p] = "idle" /\ level'[p] = 0
  BY DEF Ends, Goto, TypeOK

LEMMA FileStep == ASSUME TypeOK, FileInv, Next PROVE FileInv'
<1> PICK p \in Procs : Step(p)
  BY NextCases
<1> USE DEF context
<1>1. ASSUME NEW m \in Modes, Check(p, m) \/ CliMount(p, m) PROVE FileInv'
  BY <1>1 DEF Check, CliMount, Goto, TypeOK, FileInv
<1>2. ASSUME Mount(p) PROVE FileInv'
  <2>1. view[p] \in Mnts /\ want[p] \in Modes /\ Ran(view[p], want[p])
    BY <1>2 DEF Mount, TypeOK, Ran
  <2>2. \A q \in Procs : file[q] = "device" =>
          mnt'.at = "home" /\ (want[q] = "rw" => mnt'.mode = "rw")
    BY <2>1, RanKeepsFiles
  <2> QED BY <1>2, <2>2 DEF Mount, Goto, TypeOK, FileInv
<1>3. ASSUME Reread(p) \/ Leave(p) \/ CliUnmount(p) PROVE FileInv'
  BY <1>3 DEF Reread, Leave, CliUnmount, InBody, Goto, TypeOK, FileInv
<1>4. ASSUME Open(p) PROVE FileInv'
  BY <1>4 DEF Open, Goto, TypeOK, FileInv
<1>5. ASSUME Restore(p) \/ CliMounts(p) PROVE FileInv'
  <2>1. PICK m \in Modes : Ran(view[p], m)
    BY <1>5 DEF Restore, CliMounts, TypeOK, Ran
  <2>2. \A q \in Procs : file[q] = "device" =>
          mnt'.at = "home" /\ (want[q] = "rw" => mnt'.mode = "rw")
    BY <2>1, RanKeepsFiles DEF TypeOK
  <2> QED BY <1>5, <2>2, EndsFile DEF Restore, CliMounts, FileInv
<1>6. ASSUME Recheck(p) PROVE FileInv'
  <2>1. CASE Ends(p)
    BY <1>6, <2>1, EndsFile DEF Recheck, FileInv
  <2>2. CASE Goto(p, "umount") /\ UNCHANGED <<context, view, file, nesting, left>>
    BY <1>6, <2>2 DEF Recheck, Goto, TypeOK, FileInv
  <2> QED BY <1>6, <2>1, <2>2 DEF Recheck
<1>7. ASSUME Umount(p) PROVE FileInv'
  <2>1. mnt' = mnt \/ \A q \in Procs : file[q] # "device"
    BY <1>7 DEF Umount, Busy
  <2> QED BY <1>7, <2>1, EndsFile DEF Umount, FileInv
<1>8. ASSUME Killed(p) PROVE FileInv'
  BY <1>8, EndsFile DEF Killed, FileInv
<1> QED BY <1>1, <1>2, <1>3, <1>4, <1>5, <1>6, <1>7, <1>8 DEF Step
LEMMA IdleStep == ASSUME TypeOK, IdleInv, Next PROVE IdleInv'
<1> PICK p \in Procs : Step(p)
  BY NextCases
<1> USE DEF nesting, IdleInv
<1>1. ASSUME NEW m \in Modes, Check(p, m) PROVE IdleInv'
  BY <1>1 DEF Check, Goto, TypeOK
<1>2. ASSUME NEW m \in Modes, CliMount(p, m) PROVE IdleInv'
  BY <1>2 DEF CliMount, Goto, TypeOK
<1>3. ASSUME Mount(p) \/ Reread(p) \/ Open(p) \/ Leave(p) \/ CliUnmount(p) PROVE IdleInv'
  BY <1>3 DEF Mount, Reread, Open, Leave, CliUnmount, InBody, Goto, TypeOK
<1>4. ASSUME Ends(p) PROVE IdleInv'
  BY <1>4, EndsFile
<1>5. ASSUME Restore(p) \/ Umount(p) \/ CliMounts(p) \/ Killed(p) PROVE IdleInv'
  BY <1>4, <1>5 DEF Restore, Umount, CliMounts, Killed
<1>6. ASSUME Recheck(p) PROVE IdleInv'
  <2>1. CASE Goto(p, "umount") /\ UNCHANGED nesting
    BY <1>6, <2>1 DEF Recheck, Goto, TypeOK
  <2> QED BY <1>4, <1>6, <2>1 DEF Recheck
<1> QED BY <1>1, <1>2, <1>3, <1>5, <1>6 DEF Step
-----------------------------------------------------------------------------
(* What the boot mounted stays mounted.                                    *)

LEMMA RanKeepsPlace ==
  ASSUME NEW v \in Mnts, NEW m \in Modes, mnt \in Mnts, Ran(v, m)
  PROVE  /\ mnt.at = "home" => mnt'.at = "home"
         /\ mnt.at = "elsewhere" <=> mnt'.at = "elsewhere"
<1>1. CASE mnt' = mnt
  BY <1>1
<1>2. CASE Possible(v, m) /\ mnt' = MountTo(v, m)
  BY <1>2, MntsFacts, MountToFacts DEF Possible
<1> QED BY <1>1, <1>2, CommandCases

LEMMA OriginStep == ASSUME TypeOK, OriginInv, Next PROVE OriginInv'
<1> PICK p \in Procs : Step(p)
  BY NextCases
<1> USE DEF context
<1>1. ASSUME NEW m \in Modes, Check(p, m) PROVE OriginInv'
  <2>1. mnt.at = "home" => IsMounted # "none"
    BY MntsFacts DEF IsMounted, TypeOK, Modes
  <2> QED BY <1>1, <2>1 DEF Check, Goto, TypeOK, OriginInv
<1>2. ASSUME NEW m \in Modes, CliMount(p, m) PROVE OriginInv'
  BY <1>2 DEF CliMount, Goto, TypeOK, OriginInv
<1>3. ASSUME Mount(p) PROVE OriginInv'
  <2>1. view[p] \in Mnts /\ want[p] \in Modes /\ Ran(view[p], want[p])
    BY <1>3 DEF Mount, TypeOK, Ran
  <2>2. /\ mnt.at = "home" => mnt'.at = "home"
        /\ mnt.at = "elsewhere" <=> mnt'.at = "elsewhere"
    BY <2>1, RanKeepsPlace DEF TypeOK
  <2> QED BY <1>3, <2>2 DEF Mount, Goto, TypeOK, OriginInv
<1>4. ASSUME Reread(p) \/ Open(p) \/ Leave(p) PROVE OriginInv'
  BY <1>4 DEF Reread, Open, Leave, InBody, Goto, TypeOK, OriginInv
<1>5. ASSUME CliUnmount(p) PROVE OriginInv'
  BY <1>5 DEF CliUnmount, OriginInv
<1>6. ASSUME Restore(p) \/ CliMounts(p) PROVE OriginInv'
  <2>1. PICK m \in Modes : Ran(view[p], m)
    BY <1>6 DEF Restore, CliMounts, TypeOK, Ran
  <2>2. /\ mnt.at = "home" => mnt'.at = "home"
        /\ mnt.at = "elsewhere" <=> mnt'.at = "elsewhere"
    BY <2>1, RanKeepsPlace DEF TypeOK
  <2> QED BY <1>6, <2>2, EndsFile DEF Restore, CliMounts, OriginInv
<1>7. ASSUME Recheck(p) PROVE OriginInv'
  <2>1. origin = "home" /\ ~told => FALSE
    BY <1>7 DEF Recheck, OriginInv
  <2> QED BY <1>7, <2>1 DEF Recheck, OriginInv
<1>8. ASSUME Umount(p) PROVE OriginInv'
  <2>1. mnt' = mnt \/ (mnt.at = "home" /\ mnt' = Nowhere)
    BY <1>8 DEF Umount
  <2>2. CASE mnt' = mnt
    BY <1>8, <2>2, EndsFile DEF Umount, OriginInv
  <2>3. CASE mnt.at = "home" /\ mnt' = Nowhere
    BY <1>8, <2>3, MntsFacts DEF Umount, OriginInv
  <2> QED BY <2>1, <2>2, <2>3
<1>9. ASSUME Killed(p) PROVE OriginInv'
  BY <1>9, EndsFile DEF Killed, OriginInv
<1> QED BY <1>1, <1>2, <1>3, <1>4, <1>5, <1>6, <1>7, <1>8, <1>9 DEF Step
-----------------------------------------------------------------------------
(* Nesting.                                                                *)

Nested == LevelInv /\ ContextInv /\ ChainInv /\ (depth = 0 => mnt = base)

Steady == ~disturbed /\ ~failed

\* A step of a context, other than its first, that leaves the nesting as it is
\* belongs to the innermost.
LEMMA OnlyTheTop ==
  ASSUME NEW p \in Procs, Acts(p), Steady'
  PROVE  ~disturbed /\ level[p] = depth
  BY DEF Acts, Steady

LEMMA RanSteady ==
  ASSUME NEW v, NEW m, Ran(v, m), Steady'
  PROVE  ~failed /\ (MountCommand(v, m) \/ NoCommand(v, m))
  BY DEF Ran, Steady, MountCommand, NoCommand, CommandFails

LEMMA CheckNested ==
  ASSUME TypeOK, FileInv, IdleInv, NEW p \in Procs, NEW m \in Modes, Check(p, m), Steady',
         origin # "elsewhere", OriginInv, Steady => Nested
  PROVE  Nested'
<1> USE DEF TypeOK
<1>0. /\ pc[p] = "idle" /\ pc' = [pc EXCEPT ![p] = "mount"]
      /\ found' = [found EXCEPT ![p] = mnt] /\ view' = [view EXCEPT ![p] = mnt]
      /\ status' = [status EXCEPT ![p] = IsMounted] /\ want' = [want EXCEPT ![p] = m]
      /\ mnt' = mnt /\ file' = file /\ left' = left
      /\ file[p] = "none" /\ level[p] = 0 /\ mnt.at # "elsewhere"
  BY DEF Check, Goto, FileInv, IdleInv, OriginInv
<1>1. CASE Quiet
  <2>1. /\ depth' = 1 /\ level' = [level EXCEPT ![p] = 1] /\ base' = mnt
        /\ \A q \in Procs : pc[q] = "idle" /\ level[q] = 0
    BY <1>1 DEF Check, Quiet, IdleInv
  <2>2. LevelInv'
    BY <1>0, <2>1 DEF LevelInv
  <2>3. ContextInv'
    BY <1>0, <2>1 DEF ContextInv, IsMounted
  <2>4. ChainInv'
    BY <1>0, <2>1 DEF ChainInv
  <2> QED BY <2>1, <2>2, <2>3, <2>4 DEF Nested
<1>2. CASE ~Quiet
  <2>1. Steady /\ \A q \in Procs : level[q] = depth => InBody(q)
    BY <1>2 DEF Check, Steady
  <2>2. /\ depth' = depth + 1 /\ level' = [level EXCEPT ![p] = depth + 1]
        /\ base' = base
    BY <1>2 DEF Check
  <2>3. LevelInv /\ ContextInv /\ ChainInv /\ (depth = 0 => mnt = base)
    BY <2>1 DEF Nested
  <2>4. depth \in Nat
    BY <2>3 DEF LevelInv
  <2>5. \A q \in Procs : level[q] \in 0 .. depth /\ (q # p => level'[q] = level[q])
    BY <2>2, <2>3 DEF LevelInv
  <2>6. \A q \in Procs \ {p} :
           /\ pc'[q] = pc[q] /\ found'[q] = found[q] /\ view'[q] = view[q]
           /\ status'[q] = status[q] /\ want'[q] = want[q]
    BY <1>0
  <2>7. pc'[p] = "mount" /\ found'[p] = mnt /\ view'[p] = mnt /\ status'[p] = IsMounted
        /\ level'[p] = depth + 1
    BY <1>0, <2>2
  <2>8. LevelInv'
    <3>1. \A k \in 1 .. depth' : \E q \in Procs : level'[q] = k
      <4> SUFFICES ASSUME NEW k \in 1 .. depth' PROVE \E q \in Procs : level'[q] = k
        OBVIOUS
      <4>1. CASE k = depth + 1
        BY <2>7, <4>1
      <4>2. CASE k \in 1 .. depth
        <5>1. PICK q \in Procs : level[q] = k
          BY <2>3, <4>2 DEF LevelInv
        <5>2. q # p
          BY <1>0, <4>2, <5>1
        <5> QED BY <2>5, <5>1, <5>2
      <4> QED BY <2>2, <2>4, <4>1, <4>2
    <3>2. \A q \in Procs : /\ level'[q] \in 0 .. depth'
                           /\ level'[q] = 0 <=> pc'[q] = "idle"
                           /\ pc'[q] # "cli"
      BY <2>2, <2>3, <2>4, <2>5, <2>6, <2>7 DEF LevelInv
    <3>3. \A q, r \in Procs : level'[q] = level'[r] /\ level'[q] > 0 => q = r
      BY <2>3, <2>4, <2>5, <2>7 DEF LevelInv
    <3> QED BY <2>2, <2>4, <3>1, <3>2, <3>3 DEF LevelInv
  <2>9. ContextInv'
    <3> SUFFICES ASSUME NEW q \in Procs, level'[q] > 0
                 PROVE  /\ status'[q] = IF found'[q].at = "home" THEN found'[q].mode
                                                                ELSE "none"
                        /\ level'[q] = 1 => found'[q] = base'
                        /\ found'[q].at # "elsewhere"
                        /\ pc'[q] = "mount" => view'[q] = found'[q]
                        /\ pc'[q] # "mount" => left'[q].at = "home"
                        /\ pc'[q] \in {"inside", "open", "exit"} => view'[q] = left'[q]
                        /\ level'[q] = depth' =>
                              mnt' = IF pc'[q] = "mount" THEN found'[q] ELSE left'[q]
                        /\ pc'[q] = "umount" => found'[q] = Nowhere
                        /\ file'[q] # "under"
      BY DEF ContextInv
    <3>1. CASE q = p
      BY <1>0, <2>2, <2>3, <2>4, <2>7, <3>1 DEF IsMounted
    <3>2. CASE q # p
      <4>1. level[q] > 0 /\ level'[q] # depth'
        BY <2>2, <2>4, <2>5, <3>2
      <4> QED BY <1>0, <2>2, <2>3, <2>5, <2>6, <3>2, <4>1 DEF ContextInv
    <3> QED BY <3>1, <3>2
  <2>10. ChainInv'
    <3> SUFFICES ASSUME NEW q \in Procs, NEW r \in Procs,
                        0 < level'[q], level'[q] < level'[r]
                 PROVE  /\ InBody(q)'
                        /\ level'[r] = level'[q] + 1 => found'[r] = left'[q]
                        /\ file'[q] = "device" =>
                              /\ found'[r].at = "home"
                              /\ want'[q] = "rw" => found'[r].mode = "rw"
      BY DEF ChainInv
    <3>1. q # p /\ level[q] = level'[q]
      BY <2>2, <2>4, <2>5, <2>7
    <3>2. CASE r = p
      <4>1. InBody(q)
        <5>1. CASE level[q] = depth
          BY <2>1, <5>1
        <5>2. CASE level[q] # depth
          <6>1. PICK s \in Procs : level[s] = depth
            BY <2>3, <2>4, <2>5, <3>1, <5>2 DEF LevelInv
          <6> QED BY <2>3, <2>5, <3>1, <5>2, <6>1 DEF ChainInv
        <5> QED BY <5>1, <5>2
      <4>2. level[q] = depth => mnt = left[q]
        BY <2>3, <3>1, <4>1 DEF ContextInv, InBody
      <4> QED BY <1>0, <2>4, <2>5, <2>6, <2>7, <3>1, <3>2, <4>1, <4>2 DEF InBody, FileInv
    <3>3. CASE r # p
      BY <1>0, <2>3, <2>5, <2>6, <3>1, <3>3 DEF ChainInv, InBody
    <3> QED BY <3>2, <3>3
  <2> QED BY <2>2, <2>4, <2>8, <2>9, <2>10 DEF Nested
<1> QED BY <1>1, <1>2

\* Only the top's view, file, place and what it left may change; the top has
\* nothing above it.
LEMMA LevelKept ==
  ASSUME TypeOK, LevelInv, NEW p \in Procs, level[p] > 0, NEW l,
         l \notin {"idle", "cli"}, UNCHANGED <<depth, level>>, Goto(p, l)
  PROVE  LevelInv'
  BY DEF LevelInv, Goto, TypeOK

LEMMA ChainKept ==
  ASSUME TypeOK, ChainInv, NEW p \in Procs, level[p] = depth, NEW l, LevelInv,
         UNCHANGED <<depth, level, found, want>>, Goto(p, l),
         \A q \in Procs \ {p} : left'[q] = left[q] /\ file'[q] = file[q]
  PROVE  ChainInv'
<1> SUFFICES ASSUME NEW q \in Procs, NEW r \in Procs, 0 < level[q], level[q] < level[r]
             PROVE  /\ InBody(q)'
                    /\ level[r] = level[q] + 1 => found[r] = left'[q]
                    /\ file'[q] = "device" => /\ found[r].at = "home"
                                              /\ want[q] = "rw" => found[r].mode = "rw"
  BY DEF ChainInv
<1>1. q # p
  BY DEF LevelInv, TypeOK
<1>2. InBody(q)' <=> InBody(q)
  BY <1>1 DEF InBody, Goto, TypeOK
<1> QED BY <1>1, <1>2 DEF ChainInv

\* Below the top a context keeps what it knows.
Knows(q) == /\ status[q] = IF found[q].at = "home" THEN found[q].mode ELSE "none"
            /\ level[q] = 1 => found[q] = base
            /\ found[q].at # "elsewhere"
            /\ pc[q] = "mount" => view[q] = found[q]
            /\ pc[q] # "mount" => left[q].at = "home"
            /\ pc[q] \in {"inside", "open", "exit"} => view[q] = left[q]
            /\ pc[q] = "umount" => found[q] = Nowhere
            /\ file[q] # "under"
Stands(q) == mnt = IF pc[q] = "mount" THEN found[q] ELSE left[q]

LEMMA ContextParts ==
  ContextInv <=> \A q \in Procs : level[q] > 0 =>
                   Knows(q) /\ (level[q] = depth => Stands(q))
  BY DEF ContextInv, Knows, Stands

LEMMA ContextKept ==
  ASSUME TypeOK, LevelInv, ContextInv, NEW p \in Procs, level[p] = depth, depth > 0, NEW l,
         UNCHANGED <<depth, level, found, status, base>>, Goto(p, l),
         \A q \in Procs \ {p} :
            view'[q] = view[q] /\ left'[q] = left[q] /\ file'[q] = file[q],
         Knows(p)', Stands(p)'
  PROVE  ContextInv'
<1> SUFFICES ASSUME NEW q \in Procs, level'[q] > 0
             PROVE  Knows(q)' /\ (level'[q] = depth' => Stands(q)')
  BY ContextParts DEF ContextInv, Knows, Stands
<1>1. CASE q = p
  BY <1>1
<1>2. CASE q # p
  <2>1. level[q] > 0 /\ level'[q] # depth'
    BY <1>2 DEF LevelInv
  <2>2. Knows(q)
    BY <2>1, ContextParts
  <2>3. pc'[q] = pc[q]
    BY <1>2 DEF Goto, TypeOK
  <2>4. Knows(q)'
    BY <1>2, <2>2, <2>3 DEF Knows
  <2> QED BY <2>1, <2>4
<1> QED BY <1>1, <1>2

\* The top closes with the device as it found it.
LEMMA EndsNested ==
  ASSUME TypeOK, FileInv, Nested, NEW p \in Procs, level[p] = depth, depth > 0, Ends(p),
         mnt' = found[p]
  PROVE  Nested'
<1> USE DEF TypeOK
<1>0. LevelInv /\ ContextInv /\ ChainInv
  BY DEF Nested
<1>1. /\ pc' = [pc EXCEPT ![p] = "idle"] /\ level' = [level EXCEPT ![p] = 0]
      /\ depth' = depth - 1 /\ base' = base
      /\ \A q \in Procs \ {p} :
           /\ found'[q] = found[q] /\ view'[q] = view[q] /\ left'[q] = left[q]
           /\ status'[q] = status[q] /\ want'[q] = want[q] /\ file'[q] = file[q]
           /\ pc'[q] = pc[q] /\ level'[q] = level[q]
  BY DEF Ends, Goto
<1>2. \A q \in Procs \ {p} : level[q] \in 0 .. depth - 1
  BY <1>0 DEF LevelInv
<1>3. LevelInv'
  <2>1. \A q \in Procs : /\ level'[q] \in 0 .. depth'
                         /\ level'[q] = 0 <=> pc'[q] = "idle"
                         /\ pc'[q] # "cli"
    BY <1>0, <1>1, <1>2 DEF LevelInv
  <2>2. \A q, r \in Procs : level'[q] = level'[r] /\ level'[q] > 0 => q = r
    BY <1>0, <1>1 DEF LevelInv
  <2>3. \A k \in 1 .. depth' : \E q \in Procs : level'[q] = k
    <3> SUFFICES ASSUME NEW k \in 1 .. depth - 1 PROVE \E q \in Procs : level'[q] = k
      BY <1>1
    <3>1. PICK q \in Procs : level[q] = k
      BY <1>0 DEF LevelInv
    <3> QED BY <1>1, <3>1
  <2>4. depth' \in Nat
    BY <1>1
  <2> QED BY <2>1, <2>2, <2>3, <2>4 DEF LevelInv
<1>4. ContextInv'
  <2> SUFFICES ASSUME NEW q \in Procs, level'[q] > 0
               PROVE  Knows(q)' /\ (level'[q] = depth' => Stands(q)')
    BY ContextParts DEF ContextInv, Knows, Stands
  <2>1. q # p /\ level[q] > 0
    BY <1>1
  <2>2. Knows(q)
    BY <1>0, <2>1, ContextParts
  <2>3. Knows(q)'
    BY <1>1, <2>1, <2>2 DEF Knows
  <2>4. ASSUME level'[q] = depth' PROVE Stands(q)'
    <3>1. level[q] + 1 = level[p]
      BY <1>1, <2>1, <2>4
    <3>2. InBody(q) /\ found[p] = left[q]
      BY <1>0, <2>1, <3>1 DEF ChainInv
    <3> QED BY <1>1, <2>1, <3>2 DEF Stands, InBody
  <2> QED BY <2>3, <2>4
<1>5. ChainInv'
  <2> SUFFICES ASSUME NEW q \in Procs, NEW r \in Procs, 0 < level'[q], level'[q] < level'[r]
               PROVE  /\ InBody(q)'
                      /\ level'[r] = level'[q] + 1 => found'[r] = left'[q]
                      /\ file'[q] = "device" =>
                            /\ found'[r].at = "home"
                            /\ want'[q] = "rw" => found'[r].mode = "rw"
    BY DEF ChainInv
  <2>1. q # p /\ r # p
    BY <1>1, <1>2
  <2>2. InBody(q)' <=> InBody(q)
    BY <1>1, <2>1 DEF InBody
  <2> QED BY <1>0, <1>1, <2>1, <2>2 DEF ChainInv
<1>6. depth' = 0 => mnt' = base'
  BY <1>0, <1>1 DEF ContextInv
<1> QED BY <1>3, <1>4, <1>5, <1>6 DEF Nested

\* A context's command to put the mode back cannot be refused: a context around
\* it that is writing was writing when it began.
LEMMA RestoreNested ==
  ASSUME TypeOK, FileInv, Nested, NEW p \in Procs, level[p] = depth, Restore(p), Steady'
  PROVE  Nested'
<1> USE DEF TypeOK
<1>0. LevelInv /\ ContextInv /\ ChainInv
  BY DEF Nested
<1>1. pc[p] = "exit" /\ status[p] # "none" /\ level[p] > 0 /\ file[p] = "none"
  BY <1>0 DEF Restore, LevelInv, FileInv
<1>2. Knows(p) /\ Stands(p)
  BY <1>0, <1>1, ContextParts
<1>3. /\ found[p].at = "home" /\ status[p] = found[p].mode
      /\ view[p] = mnt /\ mnt.at = "home"
  BY <1>1, <1>2 DEF Knows, Stands
<1>4. status[p] = "ro" => ~Writing
  <2> SUFFICES ASSUME status[p] = "ro", NEW q \in Procs, file[q] = "device", want[q] = "rw"
               PROVE  FALSE
    BY DEF Writing
  <2>1. q # p /\ pc[q] = "open"
    BY <1>1 DEF FileInv
  <2>2. 0 < level[q] /\ level[q] < level[p]
    BY <1>0, <1>1, <2>1 DEF LevelInv
  <2> QED BY <1>0, <1>3, <2>2 DEF ChainInv
<1>5. MountCommand(view[p], status[p]) \/ NoCommand(view[p], status[p])
  BY RanSteady DEF Restore, Ran
<1>6. found[p] = Home(status[p]) /\ view[p] = Home(view[p].mode) /\ view[p] # Nowhere
  BY <1>3, MntsFacts
<1>7. Possible(view[p], status[p])
  BY <1>3, <1>4, <1>6 DEF Possible
<1>8. mnt' = found[p]
  <2>1. CASE MountCommand(view[p], status[p])
    BY <1>1, <1>3, <1>6, <2>1, MountToFacts DEF MountCommand
  <2>2. CASE NoCommand(view[p], status[p])
    BY <1>3, <1>6, <1>7, <2>2 DEF NoCommand, Nothing
  <2> QED BY <1>5, <2>1, <2>2
<1> QED BY <1>1, <1>8, EndsNested DEF Restore

LEMMA UmountNested ==
  ASSUME TypeOK, FileInv, Nested, NEW p \in Procs, level[p] = depth, Umount(p), Steady'
  PROVE  Nested'
<1> USE DEF TypeOK
<1>0. LevelInv /\ ContextInv /\ ChainInv
  BY DEF Nested
<1>1. pc[p] = "umount" /\ level[p] > 0 /\ file[p] = "none"
  BY <1>0 DEF Umount, LevelInv, FileInv
<1>2. Knows(p) /\ Stands(p)
  BY <1>0, <1>1, ContextParts
<1>3. mnt.at = "home" /\ found[p] = Nowhere
  BY <1>1, <1>2 DEF Knows, Stands
<1>4. ~Busy
  <2> SUFFICES ASSUME NEW q \in Procs, file[q] = "device" PROVE FALSE
    BY DEF Busy
  <2>1. q # p /\ pc[q] = "open"
    BY <1>1 DEF FileInv
  <2>2. 0 < level[q] /\ level[q] < level[p]
    BY <1>0, <1>1, <2>1 DEF LevelInv
  <2> QED BY <1>0, <1>3, <2>2, MntsFacts DEF ChainInv
<1>5. mnt' = Nowhere \/ (mnt' = mnt /\ failed' = TRUE)
  BY <1>3, <1>4 DEF Umount
<1>6. failed' # TRUE
  BY DEF Steady
<1> QED BY <1>1, <1>3, <1>5, <1>6, EndsNested DEF Umount

LEMMA MountNested ==
  ASSUME TypeOK, FileInv, OriginInv, origin # "elsewhere", Nested, NEW p \in Procs,
         level[p] = depth, Mount(p), Steady'
  PROVE  Nested'
<1> USE DEF TypeOK, context, nesting
<1>0. LevelInv /\ ContextInv /\ ChainInv
  BY DEF Nested
<1>1. pc[p] = "mount" /\ level[p] > 0 /\ file[p] = "none" /\ depth > 0
  BY <1>0 DEF Mount, LevelInv, FileInv
<1>2. Knows(p) /\ Stands(p)
  BY <1>0, <1>1, ContextParts
<1>3. found[p] = mnt /\ view[p] = mnt
  BY <1>1, <1>2 DEF Knows, Stands
<1>4. mnt.at # "elsewhere"
  BY DEF OriginInv
<1>5. \/ MountCommand(view[p], want[p]) /\ Goto(p, "reread")
      \/ NoCommand(view[p], want[p]) /\ Goto(p, "inside")
  <2>1. ~CommandFails(view[p], want[p])
    BY DEF CommandFails, Steady
  <2> QED BY <2>1 DEF Mount
<1>6. mnt'.at = "home"
  <2>1. CASE mnt = Nowhere
    <3>1. ~Nothing(view[p], want[p]) /\ Possible(view[p], want[p])
      BY <1>3, <2>1, MntsFacts DEF Nothing, Possible, Modes
    <3>2. mnt' = MountTo(view[p], want[p])
      BY <1>5, <3>1 DEF MountCommand, NoCommand
    <3> QED BY <1>3, <2>1, <3>2, MountToFacts
  <2>2. CASE mnt.at = "home"
    <3>1. CASE mnt' = mnt
      BY <2>2, <3>1
    <3>2. CASE mnt' = MountTo(view[p], want[p])
      BY <1>3, <2>2, <3>2, MntsFacts, MountToFacts
    <3> QED BY <1>5, <3>1, <3>2 DEF MountCommand, NoCommand
  <2> QED BY <1>4, <2>1, <2>2, MntsFacts
<1>7. /\ left' = [left EXCEPT ![p] = mnt'] /\ view' = view /\ file' = file
      /\ UNCHANGED <<depth, level, found, base, want, status>>
  BY DEF Mount
<1>8. PICK l \in {"reread", "inside"} :
          /\ Goto(p, l)
          /\ l = "inside" => mnt' = mnt
  BY <1>5 DEF NoCommand
<1>9. pc'[p] = l
  BY <1>8 DEF Goto
<1>10. Knows(p)' /\ Stands(p)'
  BY <1>2, <1>3, <1>6, <1>7, <1>8, <1>9 DEF Knows, Stands
<1>11. ContextInv'
  BY <1>0, <1>1, <1>7, <1>8, <1>10, ContextKept
<1>12. LevelInv'
  BY <1>0, <1>1, <1>7, <1>8, LevelKept
<1>13. ChainInv'
  BY <1>0, <1>7, <1>8, ChainKept
<1> QED BY <1>1, <1>7, <1>11, <1>12, <1>13 DEF Nested

LEMMA BodyNested ==
  ASSUME TypeOK, FileInv, Nested, NEW p \in Procs, level[p] = depth,
         Reread(p) \/ Open(p) \/ Leave(p)
  PROVE  Nested'
<1> USE DEF TypeOK, context, nesting
<1>0. LevelInv /\ ContextInv /\ ChainInv
  BY DEF Nested
<1>1. pc[p] \in {"reread", "inside", "open"} /\ level[p] > 0 /\ depth > 0
  BY <1>0 DEF Reread, Open, Leave, InBody, LevelInv
<1>2. Knows(p) /\ Stands(p)
  BY <1>0, <1>1, ContextParts
<1>3. mnt = left[p] /\ mnt.at = "home"
  BY <1>1, <1>2 DEF Knows, Stands
<1>4. /\ mnt' = mnt /\ left' = left
      /\ UNCHANGED <<depth, level, found, base, want, status>>
  BY DEF Reread, Open, Leave
<1>5. PICK l \in {"inside", "open", "exit"} : Goto(p, l)
  BY DEF Reread, Open, Leave
<1>6. /\ view'[p] = mnt /\ file'[p] # "under"
      /\ \A q \in Procs \ {p} : view'[q] = view[q] /\ file'[q] = file[q]
  BY <1>1, <1>2, <1>3 DEF Reread, Open, Leave, InBody, Knows
<1>7. pc'[p] = l
  BY <1>5 DEF Goto
<1>8. Knows(p)' /\ Stands(p)'
  BY <1>2, <1>3, <1>4, <1>6, <1>7 DEF Knows, Stands
<1>9. ContextInv'
  BY <1>0, <1>1, <1>4, <1>5, <1>6, <1>8, ContextKept
<1>10. LevelInv'
  BY <1>0, <1>1, <1>4, <1>5, LevelKept
<1>11. ChainInv'
  BY <1>0, <1>4, <1>5, <1>6, ChainKept
<1> QED BY <1>1, <1>4, <1>9, <1>10, <1>11 DEF Nested

LEMMA RecheckNested ==
  ASSUME TypeOK, Nested, NEW p \in Procs, level[p] = depth, Recheck(p)
  PROVE  Nested'
<1> USE DEF TypeOK, context, nesting
<1>0. LevelInv /\ ContextInv /\ ChainInv
  BY DEF Nested
<1>1. pc[p] = "exit" /\ status[p] = "none" /\ level[p] > 0 /\ depth > 0
  BY <1>0 DEF Recheck, LevelInv
<1>2. Knows(p) /\ Stands(p)
  BY <1>0, <1>1, ContextParts
<1>3. mnt = left[p] /\ mnt.at = "home" /\ found[p] = Nowhere
  BY <1>1, <1>2, MntsFacts DEF Knows, Stands, Modes
<1>4. /\ Goto(p, "umount") /\ mnt' = mnt
      /\ UNCHANGED <<depth, level, found, base, want, status, view, file, left>>
  BY <1>3 DEF Recheck
<1>5. pc'[p] = "umount"
  BY <1>4 DEF Goto
<1>6. Knows(p)' /\ Stands(p)'
  BY <1>2, <1>3, <1>4, <1>5 DEF Knows, Stands
<1>7. ContextInv'
  BY <1>0, <1>1, <1>4, <1>6, ContextKept
<1>8. LevelInv'
  BY <1>0, <1>1, <1>4, LevelKept
<1>9. ChainInv'
  BY <1>0, <1>4, ChainKept
<1> QED BY <1>1, <1>4, <1>7, <1>8, <1>9 DEF Nested

LEMMA NestedStep ==
  ASSUME TypeOK, FileInv, IdleInv, OriginInv, NestedInv, Next PROVE NestedInv'
<1> PICK p \in Procs : Step(p)
  BY NextCases
<1>0. origin' = origin
  BY DEF Step, Check, CliMount, Mount, Reread, Open, Leave, Restore, Recheck, Umount,
         CliMounts, CliUnmount, Killed
<1> SUFFICES ASSUME Steady', origin # "elsewhere" PROVE Nested'
  BY <1>0 DEF NestedInv, Nested, Steady
<1>1. Steady => Nested
  BY DEF NestedInv, Nested, Steady
<1>2. ASSUME NEW m \in Modes, Check(p, m) PROVE Nested'
  BY <1>1, <1>2, CheckNested
<1>3. ASSUME Mount(p) \/ Reread(p) \/ Open(p) \/ Leave(p) \/ Restore(p) \/ Recheck(p)
             \/ Umount(p)
      PROVE  Nested'
  <2>1. ~disturbed /\ level[p] = depth
    BY <1>3, OnlyTheTop DEF Mount, Reread, Open, Leave, Restore, Recheck, Umount
  <2>2. ~failed
    <3>1. CASE Mount(p)
      BY <3>1, RanSteady DEF Mount, Ran
    <3>2. CASE Restore(p)
      BY <3>2, RanSteady DEF Restore, Ran
    <3>3. CASE Reread(p) \/ Open(p) \/ Leave(p) \/ Recheck(p)
      BY <3>3 DEF Reread, Open, Leave, Recheck, Steady
    <3>4. CASE Umount(p)
      BY <3>4 DEF Umount, Steady
    <3> QED BY <1>3, <3>1, <3>2, <3>3, <3>4
  <2>3. Nested
    BY <1>1, <2>1, <2>2 DEF Steady
  <2> QED BY <1>3, <2>1, <2>3, MountNested, BodyNested, RestoreNested, RecheckNested,
             UmountNested
<1>4. ASSUME CliMounts(p) PROVE FALSE
  <2>1. ~disturbed
    BY <1>4 DEF CliMounts, Steady
  <2>2. ~failed
    <3>1. Ran(view[p], want[p])
      BY <1>4 DEF CliMounts, Ran
    <3> QED BY <3>1, RanSteady
  <2>3. pc[p] # "cli"
    BY <1>1, <2>1, <2>2 DEF Nested, LevelInv, Steady
  <2> QED BY <1>4, <2>3 DEF CliMounts
<1>5. ASSUME CliUnmount(p) \/ Killed(p) \/ (\E m \in Modes : CliMount(p, m)) PROVE FALSE
  BY <1>5 DEF CliUnmount, Killed, CliMount, Steady
<1> QED BY <1>2, <1>3, <1>4, <1>5 DEF Step

LEMMA InvStep == IInv /\ [Next]_vars => IInv'
<1> SUFFICES ASSUME IInv, [Next]_vars PROVE IInv'
  OBVIOUS
<1>1. CASE Next
  BY <1>1, TypeStep, FileStep, IdleStep, OriginStep, NestedStep DEF IInv
<1>2. CASE UNCHANGED vars
  <2> USE <1>2 DEF vars, context, nesting
  <2>1. TypeOK' BY DEF IInv, TypeOK
  <2>2. FileInv' /\ IdleInv' BY DEF IInv, FileInv, IdleInv
  <2>3. OriginInv' BY DEF IInv, OriginInv
  <2>4. LevelInv' <=> LevelInv BY DEF LevelInv
  <2>5. ContextInv' <=> ContextInv BY DEF ContextInv
  <2>6. ChainInv' <=> ChainInv BY DEF ChainInv, InBody
  <2>7. NestedInv' BY <2>4, <2>5, <2>6 DEF IInv, NestedInv
  <2> QED BY <2>1, <2>2, <2>3, <2>7 DEF IInv
<1> QED BY <1>1, <1>2
-----------------------------------------------------------------------------
\* The inductive invariant holds throughout.
THEOREM Invariance == Spec => []IInv
<1> QED BY InitInv, InvStep, PTL DEF Spec

\* Nested contexts, of any modes and to any depth, leave the device as they found
\* it.
THEOREM NestedRestoresHolds == Spec => []NestedRestores
<1>1. IInv => NestedRestores
  <2> SUFFICES ASSUME IInv, Quiet, ~disturbed, ~failed, origin # "elsewhere"
               PROVE  mnt = base
    BY DEF NestedRestores
  <2>1. LevelInv /\ (depth = 0 => mnt = base)
    BY DEF IInv, NestedInv
  <2>2. ~(depth > 0)
    <3> SUFFICES ASSUME depth > 0 PROVE FALSE
      OBVIOUS
    <3>1. PICK q \in Procs : level[q] = depth
      BY <2>1 DEF LevelInv
    <3>2. pc[q] # "idle"
      BY <2>1, <3>1 DEF LevelInv
    <3> QED BY <3>2 DEF Quiet
  <2> QED BY <2>1, <2>2 DEF LevelInv
<1> QED BY <1>1, Invariance, PTL

\* What a context has open is on the device: always if the boot mounted it there,
\* and otherwise as long as contexts are nested and commands work.
THEOREM WritesLandHolds == Spec => []WritesLand
<1>1. IInv => WritesLand
  <2> SUFFICES ASSUME IInv, NEW p \in Procs, file[p] = "under", ~told,
                      origin # "elsewhere", origin = "nowhere" => ~disturbed /\ ~failed
               PROVE  FALSE
    BY DEF WritesLand
  <2>1. origin # "home"
    BY DEF IInv, OriginInv
  <2>2. origin = "nowhere"
    BY <2>1 DEF IInv, TypeOK
  <2>3. LevelInv /\ ContextInv
    BY <2>2 DEF IInv, NestedInv
  <2>4. level[p] > 0
    <3>1. pc[p] = "open"
      BY DEF IInv, FileInv
    <3>2. level[p] \in 0 .. depth /\ level[p] # 0 /\ depth \in Int
      BY <2>3, <3>1 DEF LevelInv, IInv, TypeOK
    <3> QED BY <3>2
  <2> QED BY <2>3, <2>4 DEF ContextInv
<1> QED BY <1>1, Invariance, PTL
=============================================================================
