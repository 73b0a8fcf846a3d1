------------------------------- MODULE Mounts -------------------------------
(***************************************************************************)
(* One labelled device, the directory mtab.yml gives it, and the processes *)
(* that borrow it: MountContext (bootconfig, pki, the upgrades, onl-mounts *)
(* rw) remembers how it found the device, mounts or remounts it as wanted  *)
(* and puts it back; onl-mounts mount and unmount change it for good.      *)
(*                                                                         *)
(* Nothing locks.  A process decides by what it last read of /proc/mounts, *)
(* and nobody looks at what a mount command returns.                       *)
(***************************************************************************)
EXTENDS Integers

CONSTANT Procs

VARIABLES
  mnt,       \* where the device is mounted and how
  origin,    \* where the boot left it
  pc,
  want,      \* the mode the context was opened with
  view,      \* self.mounts: what the process last read
  status,    \* self.status: the mode found on the directory
  file,      \* what the body has open: a file on the "device", or "under" its
             \* mount point
  depth,     \* history: the number of open contexts
  level,     \* history: 1 for a context opened when there was none, and so on
  found, left, \* history: the device before and after a context's first command
  base,      \* history: the device when there was no context
  disturbed, \* history: since then, contexts were not nested, or something else acted
  failed,    \* history: since then, a command failed that had no need to
  told       \* history: somebody asked for the device to be unmounted

context == <<want, status>>
nesting == <<depth, level, found, base>>
vars == <<mnt, origin, pc, context, view, file, nesting, left, disturbed, failed, told>>

Modes == {"ro", "rw"}
Nowhere == [at |-> "nowhere", mode |-> "none"]
Home(m) == [at |-> "home", mode |-> m]
Mnts == {Nowhere} \cup [at : {"home", "elsewhere"}, mode : Modes]

TypeOK == /\ mnt \in Mnts /\ base \in Mnts
          /\ origin \in {"nowhere", "home", "elsewhere"}
          /\ pc \in [Procs -> {"idle", "mount", "reread", "inside", "open", "exit",
                               "umount", "cli"}]
          /\ want \in [Procs -> Modes]
          /\ view \in [Procs -> Mnts]
          /\ status \in [Procs -> Modes \cup {"none"}]
          /\ file \in [Procs -> {"none", "device", "under"}]
          /\ depth \in Int /\ level \in [Procs -> Int]
          /\ found \in [Procs -> Mnts] /\ left \in [Procs -> Mnts]
          /\ disturbed \in BOOLEAN /\ failed \in BOOLEAN /\ told \in BOOLEAN

Init == /\ mnt \in Mnts /\ origin = mnt.at
        /\ pc = [p \in Procs |-> "idle"]
        /\ want = [p \in Procs |-> "ro"]
        /\ view = [p \in Procs |-> Nowhere]
        /\ status = [p \in Procs |-> "none"]
        /\ file = [p \in Procs |-> "none"]
        /\ depth = 0 /\ level = [p \in Procs |-> 0]
        /\ found = [p \in Procs |-> Nowhere] /\ left = [p \in Procs |-> Nowhere]
        /\ base = mnt
        /\ disturbed = FALSE /\ failed = FALSE /\ told = FALSE

Quiet == \A p \in Procs : pc[p] = "idle"
InBody(p) == pc[p] \in {"inside", "open"}
Goto(p, l) == pc' = [pc EXCEPT ![p] = l]

\* Contexts are nested as long as only the innermost acts.
Acts(p) == disturbed' = (disturbed \/ level[p] # depth)

\* What p knew is gone with it.
Ends(p) == /\ Goto(p, "idle")
           /\ want' = [want EXCEPT ![p] = "ro"]
           /\ status' = [status EXCEPT ![p] = "none"]
           /\ view' = [view EXCEPT ![p] = Nowhere]
           /\ file' = [file EXCEPT ![p] = "none"]
           /\ depth' = IF level[p] = 0 THEN depth ELSE depth - 1
           /\ level' = [level EXCEPT ![p] = 0]
           /\ found' = [found EXCEPT ![p] = Nowhere]
           /\ left' = [left EXCEPT ![p] = Nowhere]
           /\ base' = base
-----------------------------------------------------------------------------
(* The commands, as the kernel takes them.                                 *)

Writing == \E q \in Procs : file[q] = "device" /\ want[q] = "rw"
Busy == \E q \in Procs : file[q] = "device"

\* MountManager.mount of a process with the view v up to its command.
Nothing(v, m) == v.mode = m
MountTo(v, m) == IF v = Nowhere THEN Home(m) ELSE [v EXCEPT !.mode = m]
Possible(v, m) == IF v = Nowhere THEN mnt = Nowhere
                                 ELSE mnt.at = v.at /\ (m = "ro" => ~Writing)

MountCommand(v, m) == /\ ~Nothing(v, m) /\ Possible(v, m)
                      /\ mnt' = MountTo(v, m)
                      /\ failed' = failed

NoCommand(v, m) == /\ Nothing(v, m) \/ ~Possible(v, m)
                   /\ UNCHANGED <<mnt, failed>>

CommandFails(v, m) == /\ ~Nothing(v, m) /\ Possible(v, m)
                      /\ mnt' = mnt
                      /\ failed' = TRUE
-----------------------------------------------------------------------------
(* MountContext                                                            *)

\* Mutant: only a writable mount counts.
IsMountedRw == IF mnt = Home("rw") THEN "rw" ELSE "none"

\* is_mounted: the mode, if the device is on the directory
IsMounted == IF mnt.at = "home" THEN mnt.mode ELSE "none"

\* __enter__: self.status = self.mm.is_mounted(...).  With it begins the history of
\* the contexts that are open together with this one.
Check(p, m) ==
  /\ pc[p] = "idle"
  /\ want' = [want EXCEPT ![p] = m]
  /\ view' = [view EXCEPT ![p] = mnt]
  /\ status' = [status EXCEPT ![p] = IsMounted]
  /\ found' = [found EXCEPT ![p] = mnt]
  /\ IF Quiet
       THEN /\ depth' = 1 /\ level' = [level EXCEPT ![p] = 1]
            /\ base' = mnt /\ disturbed' = FALSE /\ failed' = FALSE
       ELSE /\ depth' = depth + 1 /\ level' = [level EXCEPT ![p] = depth + 1]
            /\ disturbed' = (disturbed \/ \E q \in Procs : level[q] = depth /\ ~InBody(q))
            /\ UNCHANGED <<base, failed>>
  /\ Goto(p, "mount")
  /\ UNCHANGED <<mnt, origin, file, left, told>>

\* self.mm.mount(...), whose result is not looked at.
Mount(p) ==
  /\ pc[p] = "mount"
  /\ \/ MountCommand(view[p], want[p]) /\ Goto(p, "reread")
     \/ NoCommand(view[p], want[p]) /\ Goto(p, "inside")
     \/ CommandFails(view[p], want[p]) /\ Goto(p, "inside")
  /\ left' = [left EXCEPT ![p] = mnt']
  /\ Acts(p)
  /\ UNCHANGED <<origin, context, view, file, nesting, told>>

\* Mutant: the command is not followed by a look at /proc/mounts.
RereadNot(p) == /\ pc[p] = "reread"
                /\ view' = view
                /\ Goto(p, "inside")
                /\ Acts(p)
                /\ UNCHANGED <<mnt, origin, context, file, nesting, left, failed, told>>

\* After a command that worked, /proc/mounts is read until the mount is seen,
\* five times at the most.
Reread(p) == /\ pc[p] = "reread"
             /\ view' = [view EXCEPT ![p] = mnt]
             /\ Goto(p, "inside")
             /\ Acts(p)
             /\ UNCHANGED <<mnt, origin, context, file, nesting, left, failed, told>>

\* The body opens a file for what it wants to do, in the directory.
Open(p) == /\ pc[p] = "inside"
           /\ mnt.at = "home" /\ want[p] = "rw" => mnt.mode = "rw"
           /\ file' = [file EXCEPT ![p] = IF mnt.at = "home" THEN "device" ELSE "under"]
           /\ Goto(p, "open")
           /\ Acts(p)
           /\ UNCHANGED <<mnt, origin, context, view, nesting, left, failed, told>>

\* The body is done, or has failed with an exception.
Leave(p) == /\ InBody(p)
            /\ file' = [file EXCEPT ![p] = "none"]
            /\ Goto(p, "exit")
            /\ Acts(p)
            /\ UNCHANGED <<mnt, origin, context, view, nesting, left, failed, told>>

\* __exit__, with a status: self.mm.mount(..., self.status['mode'])
Restore(p) ==
  /\ pc[p] = "exit" /\ status[p] # "none"
  /\ \/ MountCommand(view[p], status[p])
     \/ NoCommand(view[p], status[p])
     \/ CommandFails(view[p], status[p])
  /\ Ends(p) /\ Acts(p)
  /\ UNCHANGED <<origin, told>>

\* __exit__, without: self.mm.umount(...), which looks again.
Recheck(p) == /\ pc[p] = "exit" /\ status[p] = "none"
              /\ IF mnt.at = "home"
                   THEN /\ Goto(p, "umount")
                        /\ UNCHANGED <<context, view, file, nesting, left>>
                   ELSE Ends(p)
              /\ Acts(p)
              /\ UNCHANGED <<mnt, origin, failed, told>>

Umount(p) == /\ pc[p] = "umount"
             /\ \/ /\ mnt.at = "home" /\ ~Busy
                   /\ mnt' = Nowhere /\ failed' = failed
                \/ /\ mnt.at # "home" \/ Busy
                   /\ UNCHANGED <<mnt, failed>>
                \/ mnt' = mnt /\ failed' = TRUE
             /\ Ends(p) /\ Acts(p)
             /\ UNCHANGED <<origin, told>>

Killed(p) == /\ pc[p] # "idle"
             /\ Ends(p) /\ disturbed' = TRUE
             /\ UNCHANGED <<mnt, origin, failed, told>>
-----------------------------------------------------------------------------
(* onl-mounts                                                              *)

\* The view is the one of the constructor, before up to five seconds of waiting
\* for the devices to show up.
CliMount(p, m) == /\ pc[p] = "idle"
                  /\ want' = [want EXCEPT ![p] = m]
                  /\ view' = [view EXCEPT ![p] = mnt]
                  /\ Goto(p, "cli")
                  /\ disturbed' = TRUE
                  /\ UNCHANGED <<mnt, origin, status, file, nesting, left, failed, told>>

CliMounts(p) == /\ pc[p] = "cli"
                /\ \/ MountCommand(view[p], want[p])
                   \/ NoCommand(view[p], want[p])
                   \/ CommandFails(view[p], want[p])
                /\ Ends(p)
                /\ UNCHANGED <<origin, disturbed, told>>

\* Every label of mtab.yml has a mount mode, so it takes --all.
CliUnmount(p) == /\ pc[p] = "idle"
                 /\ Goto(p, "exit")
                 /\ disturbed' = TRUE /\ told' = TRUE
                 /\ UNCHANGED <<mnt, origin, context, view, file, nesting, left, failed>>
-----------------------------------------------------------------------------
Next == \E p \in Procs :
          \/ \E m \in Modes : Check(p, m) \/ CliMount(p, m)
          \/ Mount(p) \/ Reread(p) \/ Open(p) \/ Leave(p)
          \/ Restore(p) \/ Recheck(p) \/ Umount(p)
          \/ CliMounts(p) \/ CliUnmount(p)
          \/ Killed(p)

Spec == Init /\ [][Next]_vars
-----------------------------------------------------------------------------
\* What is true whatever happens: open files keep the device where it is, and
\* one the boot mounted stays mounted, since everybody finds it so.
FileInv == \A p \in Procs :
             /\ file[p] # "none" => pc[p] = "open"
             /\ file[p] = "device" => /\ mnt.at = "home"
                                      /\ want[p] = "rw" => mnt.mode = "rw"

IdleInv == \A p \in Procs : pc[p] = "idle" => level[p] = 0

OriginInv == /\ origin = "elsewhere" <=> mnt.at = "elsewhere"
             /\ origin = "home" /\ ~told =>
                  /\ mnt.at = "home"
                  /\ \A p \in Procs :
                       /\ pc[p] \notin {"idle", "cli"} => status[p] # "none"
                       /\ pc[p] # "umount"
                       /\ file[p] # "under"

\* What a context of a level knows, while contexts are nested.
LevelInv == /\ depth \in Nat
            /\ \A p \in Procs : /\ level[p] \in 0 .. depth
                                /\ level[p] = 0 <=> pc[p] = "idle"
                                /\ pc[p] # "cli"
            /\ \A p, q \in Procs : level[p] = level[q] /\ level[p] > 0 => p = q
            /\ \A k \in 1 .. depth : \E p \in Procs : level[p] = k

ContextInv ==
  \A p \in Procs : level[p] > 0 =>
    /\ status[p] = IF found[p].at = "home" THEN found[p].mode ELSE "none"
    /\ level[p] = 1 => found[p] = base
    /\ found[p].at # "elsewhere"
    /\ pc[p] = "mount" => view[p] = found[p]
    /\ pc[p] # "mount" => left[p].at = "home"
    /\ pc[p] \in {"inside", "open", "exit"} => view[p] = left[p]
    /\ level[p] = depth => mnt = IF pc[p] = "mount" THEN found[p] ELSE left[p]
    /\ pc[p] = "umount" => found[p] = Nowhere
    /\ file[p] # "under"

ChainInv ==
  \A p, q \in Procs : 0 < level[p] /\ level[p] < level[q] =>
    /\ InBody(p)
    /\ level[q] = level[p] + 1 => found[q] = left[p]
    /\ file[p] = "device" => /\ found[q].at = "home"
                             /\ want[p] = "rw" => found[q].mode = "rw"

NestedInv == ~disturbed /\ ~failed /\ origin # "elsewhere" =>
               LevelInv /\ ContextInv /\ ChainInv /\ (depth = 0 => mnt = base)

IInv == TypeOK /\ FileInv /\ IdleInv /\ OriginInv /\ NestedInv
-----------------------------------------------------------------------------
\* __exit__ puts back what __enter__ found, however deep contexts of whatever
\* modes are nested (onl-mounts rw ONL-BOOT with a command that writes boot-config
\* reads it first), though each may be unable to remount and goes by what it read
\* earlier.  It is not so for contexts that merely overlap, and a device that is
\* mounted elsewhere keeps the new mode.
NestedRestores == Quiet /\ ~disturbed /\ ~failed /\ origin # "elsewhere" => mnt = base

\* What a body has open is on the device, not in the directory it covers: always if
\* the boot mounted it there, whoever mounts, remounts and is killed when; otherwise
\* as long as contexts are nested.
WritesLand == \A p \in Procs : file[p] = "under" =>
                \/ told
                \/ origin = "elsewhere"
                \/ origin = "nowhere" /\ (disturbed \/ failed)
=============================================================================
