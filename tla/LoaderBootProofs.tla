-------------------------- MODULE LoaderBootProofs --------------------------
(***************************************************************************)
(* Booting and upgrading for any set of versions and any number of         *)
(* attempts.                                                               *)
(***************************************************************************)
EXTENDS LoaderBoot, TLAPS

USE AutobootMaxAssumption, VersionsAssumption

Reserved == {"none", "torn", "empty", "partial"}

LEMMA NotVersions == \A v \in Versions : v \notin Reserved
  BY DEF Reserved

LEMMA InitInv == Init => IInv
<1> SUFFICES ASSUME Init PROVE IInv
  OBVIOUS
<1>0. spoilt \in BOOLEAN BY DEF Init
<1>1. DiskOK BY DEF Init, DiskOK, None
<1>4. MemoryOK /\ done \in Versions \cup {None} BY DEF Init, MemoryOK
<1>2. UnpackInv BY DEF Init, UnpackInv
<1>3. UpgradeInv BY DEF Init, UpgradeInv, Upgrading, Booting
<1> QED BY <1>0, <1>1, <1>2, <1>3, <1>4 DEF IInv, TypeOK

LEMMA NextCases ==
  ASSUME Next
  PROVE  \/ PowerOn \/ Sysinit \/ Autoboot \/ InstalledGivesUp \/ Installed
         \/ Wipe \/ Unpack \/ CopyEtc \/ Mark \/ BootInstalled \/ BootSwi
         \/ InitReboots \/ Login \/ UpgradeCheck \/ CopyFiles \/ Umount \/ UpgradeReboots
         \/ Reboot \/ WriteBack \/ PowerLoss
         \/ \E v \in Versions : Publish(v)
  BY DEF Next, LoaderStep, SystemStep
-----------------------------------------------------------------------------
(* Types.                                                                  *)

LEMMA SpoiltStep == ASSUME TypeOK, Next PROVE spoilt' \in BOOLEAN
<1> spoilt \in BOOLEAN BY DEF TypeOK
<1>1. spoilt' = spoilt \/ Wipe \/ Unpack \/ PowerLoss
  BY NextCases DEF PowerOn, Sysinit, Autoboot, InstalledGivesUp, GiveUp, Installed, CopyEtc,
     Mark, BootInstalled, BootSwi, NoInit, TryAgain, InitReboots, Login, UpgradeCheck,
     CopyFiles, CopyBegins, CopyEnds, Umount, UpgradeReboots, Reboot, WriteBack, Publish
<1> QED BY <1>1 DEF Wipe, Unpack, PowerLoss

LEMMA DoneStep == ASSUME IInv, Next PROVE done' \in Versions \cup {None}
<1> done \in Versions \cup {None} BY DEF IInv, TypeOK
<1>1. done' = done \/ UpgradeCheck \/ UpgradeReboots
  BY NextCases DEF PowerOn, Sysinit, Autoboot, InstalledGivesUp, GiveUp, Installed, CopyEtc,
     Mark, BootInstalled, BootSwi, NoInit, TryAgain, InitReboots, Login, Wipe, Unpack,
     CopyFiles, CopyBegins, CopyEnds, Umount, PowerLoss, Reboot, WriteBack, Publish
<1> QED BY <1>1 DEF UpgradeCheck, UpgradeReboots, IInv, UpgradeInv, Upgrading

LEMMA DiskStep == ASSUME IInv, Next PROVE DiskOK'
<1> USE DEF DiskOK, settings, loader, data, None, Torn
<1> DiskOK BY DEF IInv, TypeOK
<1>1. ASSUME UNCHANGED <<settings, loader, data>>, unsynced' \in {unsynced, {}}
      PROVE  DiskOK'
  BY <1>1
<1>2. ASSUME TryAgain PROVE DiskOK'
  BY <1>1, <1>2 DEF TryAgain
<1>3. ASSUME \/ PowerOn \/ Sysinit \/ Autoboot \/ InstalledGivesUp \/ Installed
             \/ BootInstalled \/ BootSwi
      PROVE  DiskOK'
  BY <1>1, <1>2, <1>3 DEF PowerOn, Sysinit, Autoboot, InstalledGivesUp, GiveUp, Installed,
     BootInstalled, BootSwi, NoInit
<1>4. ASSUME \/ InitReboots \/ Login \/ UpgradeCheck \/ Umount \/ UpgradeReboots
             \/ Reboot \/ WriteBack
      PROVE  DiskOK'
  BY <1>1, <1>4 DEF InitReboots, Login, UpgradeCheck, Umount, UpgradeReboots, Reboot,
     WriteBack
<1>5. ASSUME Wipe PROVE DiskOK'
  BY <1>5 DEF Wipe
<1>6. ASSUME Unpack PROVE DiskOK'
  BY <1>6 DEF Unpack, IInv, TypeOK, MemoryOK, UnpackInv
<1>7. ASSUME CopyEtc PROVE DiskOK'
  BY <1>7 DEF CopyEtc, IInv, UpgradeInv, Booting
<1>8. ASSUME Mark PROVE DiskOK'
  BY <1>8 DEF Mark, IInv, TypeOK, MemoryOK
<1>9. ASSUME CopyFiles PROVE DiskOK'
  <2>1. running.version \in Versions
    BY <1>9 DEF CopyFiles, CopyBegins, CopyEnds, IInv, UpgradeInv, Upgrading
  <2> QED BY <1>9, <2>1 DEF CopyFiles, CopyBegins, CopyEnds
<1>10. ASSUME PowerLoss PROVE DiskOK'
  BY <1>10 DEF PowerLoss
<1>11. ASSUME NEW v \in Versions, Publish(v) PROVE DiskOK'
  BY <1>11 DEF Publish
<1> QED BY <1>3, <1>4, <1>5, <1>6, <1>7, <1>8, <1>9, <1>10, <1>11, NextCases

LEMMA CountStep ==
  ASSUME attempts \in 0 .. AutobootMax + 1, TryAgain
  PROVE  attempts' \in 0 .. AutobootMax + 1
<1>1. CASE attempts > AutobootMax
  BY <1>1 DEF TryAgain
<1>2. CASE ~(attempts > AutobootMax)
  <2>1. attempts' = attempts + 1
    BY <1>2 DEF TryAgain
  <2> QED BY <1>2, <2>1
<1> QED BY <1>1, <1>2

LEMMA MemoryStep == ASSUME IInv, Next PROVE MemoryOK'
<1> USE DEF MemoryOK, ram, Goto, Booting, Upgrading, None
<1> MemoryOK BY DEF IInv, TypeOK
<1>1. ASSUME TryAgain PROVE MemoryOK'
  <2>1. attempts' \in 0 .. AutobootMax + 1
    BY <1>1, CountStep
  <2> QED BY <1>1, <2>1 DEF TryAgain
<1>2. ASSUME PowerOn PROVE MemoryOK'
  BY <1>2 DEF PowerOn
<1>3. ASSUME Sysinit \/ Installed PROVE MemoryOK'
  <2>1. config \in {"file", "dir"} /\ image \in Versions
    BY DEF IInv, TypeOK, DiskOK
  <2> QED BY <1>3, <2>1 DEF Sysinit, Installed
<1>4. ASSUME \/ InstalledGivesUp \/ InitReboots \/ Login \/ Reboot \/ PowerLoss
             \/ WriteBack \/ (\E v \in Versions : Publish(v))
      PROVE  MemoryOK'
  BY <1>4 DEF InstalledGivesUp, GiveUp, InitReboots, Login, Reboot, PowerLoss, WriteBack,
              Publish
<1>5. ASSUME Wipe \/ Unpack \/ CopyEtc \/ Mark PROVE MemoryOK'
  BY <1>5 DEF Wipe, Unpack, CopyEtc, Mark
<1>6. ASSUME Autoboot PROVE MemoryOK'
  BY <1>1, <1>6 DEF Autoboot
<1>7. ASSUME NEW w \in {"newroot", "none"}, NoInit(w) PROVE MemoryOK'
  BY <1>7 DEF NoInit
<1>8. ASSUME BootInstalled PROVE MemoryOK'
  <2>1. ASSUME running' = [version |-> IF content \in Versions THEN content ELSE "partial",
                           current |-> current]
        PROVE  running' \in [version : Versions \cup {"partial"},
                             current : Versions \cup {None}]
    BY <2>1 DEF IInv, TypeOK, DiskOK
  <2> QED BY <1>1, <1>7, <1>8, <2>1 DEF BootInstalled
<1>9. ASSUME BootSwi PROVE MemoryOK'
  <2>1. image \in Versions /\ (pc = "handler" => initrd \in Versions)
    BY DEF IInv, TypeOK, DiskOK, UpgradeInv
  <2>2. [version |-> image, current |-> initrd] \in
           [version : Versions \cup {"partial"}, current : Versions \cup {None}]
        \/ pc # "handler"
    BY <2>1
  <2> QED BY <1>1, <1>7, <1>9, <2>2 DEF BootSwi
<1>10. ASSUME UpgradeCheck \/ Umount \/ UpgradeReboots PROVE MemoryOK'
  BY <1>10 DEF UpgradeCheck, Umount, UpgradeReboots
<1>11. ASSUME CopyFiles PROVE MemoryOK'
  BY <1>11 DEF CopyFiles, CopyBegins, CopyEnds
<1> QED BY <1>2, <1>3, <1>4, <1>5, <1>6, <1>8, <1>9, <1>10, <1>11, NextCases

LEMMA TypeStep == ASSUME IInv, Next PROVE TypeOK'
  BY SpoiltStep, DoneStep, DiskStep, MemoryStep DEF IInv, TypeOK
-----------------------------------------------------------------------------
(* The record and what it vouches for.                                     *)

LEMMA UnpackStep == ASSUME IInv, Next PROVE UnpackInv'
<1> USE DEF UnpackInv, settings, loader, data, ram, Goto
<1> UnpackInv BY DEF IInv
<1>1. ASSUME TryAgain, pc \in {"autoboot", "handler", "boot"} PROVE UnpackInv'
  BY <1>1 DEF TryAgain
<1>2. ASSUME PowerOn \/ Sysinit PROVE UnpackInv'
  BY <1>2 DEF PowerOn, Sysinit
<1>3. ASSUME Autoboot PROVE UnpackInv'
  BY <1>1, <1>3 DEF Autoboot
<1>4. ASSUME InstalledGivesUp \/ Installed PROVE UnpackInv'
  BY <1>4 DEF InstalledGivesUp, GiveUp, Installed
<1>5. ASSUME Wipe PROVE UnpackInv'
  BY <1>5 DEF Wipe
<1>6. ASSUME Unpack PROVE UnpackInv'
  BY <1>6 DEF Unpack
<1>7. ASSUME CopyEtc \/ Mark PROVE UnpackInv'
  BY <1>7 DEF CopyEtc, Mark
<1>8. ASSUME BootInstalled PROVE UnpackInv'
  <2>1. CASE NoInit("newroot") /\ FALSE \in HasInit
    <3>1. content \in {"partial", "empty"}
      BY <2>1 DEF HasInit
    <3>2. record # None => spoilt
      BY <3>1, NotVersions DEF IInv, TypeOK, DiskOK, Reserved
    <3> QED BY <2>1, <3>2 DEF NoInit
  <2> QED BY <1>1, <1>8, <2>1 DEF BootInstalled
<1>9. ASSUME BootSwi PROVE UnpackInv'
  BY <1>1, <1>9 DEF BootSwi, NoInit
<1>10. ASSUME InitReboots \/ Login \/ Reboot PROVE UnpackInv'
  BY <1>10 DEF InitReboots, Login, Reboot
<1>11. ASSUME UpgradeCheck \/ Umount \/ UpgradeReboots \/ CopyFiles PROVE UnpackInv'
  BY <1>11 DEF UpgradeCheck, Umount, UpgradeReboots, CopyFiles, CopyBegins, CopyEnds
<1>12. ASSUME WriteBack \/ (\E v \in Versions : Publish(v)) PROVE UnpackInv'
  BY <1>12 DEF WriteBack, Publish
<1>13. ASSUME PowerLoss PROVE UnpackInv'
  BY <1>13 DEF PowerLoss
<1> QED BY <1>2, <1>3, <1>4, <1>5, <1>6, <1>7, <1>8, <1>9, <1>10, <1>11, <1>12, <1>13,
           NextCases
-----------------------------------------------------------------------------
(* The loader's files and the upgrade that went to its end.                *)

LEMMA UpgradeStep == ASSUME IInv, Next PROVE UpgradeInv'
<1> USE DEF UpgradeInv, settings, loader, data, ram, Goto, Booting, Upgrading
<1> UpgradeInv BY DEF IInv
<1>1. ASSUME TryAgain, pc \in {"autoboot", "handler", "boot"} PROVE UpgradeInv'
  BY <1>1 DEF TryAgain
<1>2. ASSUME PowerOn \/ Sysinit PROVE UpgradeInv'
  BY <1>2 DEF PowerOn, Sysinit
<1>3. ASSUME Autoboot PROVE UpgradeInv'
  BY <1>1, <1>3 DEF Autoboot
<1>4. ASSUME InstalledGivesUp \/ Installed PROVE UpgradeInv'
  BY <1>4 DEF InstalledGivesUp, GiveUp, Installed
<1>5. ASSUME Wipe \/ Unpack PROVE UpgradeInv'
  BY <1>5 DEF Wipe, Unpack
<1>6. ASSUME CopyEtc \/ Mark PROVE UpgradeInv'
  BY <1>6 DEF CopyEtc, Mark
<1>7. ASSUME BootInstalled PROVE UpgradeInv'
  <2>1. mode = "installed"
    BY <1>7 DEF BootInstalled, IInv, UnpackInv
  <2>2. CASE TryAgain
    BY <1>1, <1>7, <2>2 DEF BootInstalled
  <2>3. CASE NoInit("newroot")
    BY <1>7, <2>3 DEF BootInstalled, NoInit
  <2>4. ASSUME pc' = "root", UNCHANGED <<settings, loader, unsynced, done>>
        PROVE  UpgradeInv'
    <3>1. Torn \notin {kernel, initrd}
      BY <1>7 DEF BootInstalled
    <3>2. pc' \notin {"kernel", "kernel open", "initrd", "initrd open", "umount", "reboot"}
      BY <2>4
    <3> QED BY <2>1, <2>4, <3>1, <3>2
  <2> QED BY <1>7, <2>2, <2>3, <2>4 DEF BootInstalled
<1>8. ASSUME BootSwi PROVE UpgradeInv'
  <2>1. Torn \notin {kernel, initrd}
    BY <1>8 DEF BootSwi
  <2>2. CASE TryAgain
    BY <1>1, <1>8, <2>2 DEF BootSwi
  <2>3. CASE NoInit("none")
    BY <2>1, <2>3 DEF NoInit
  <2>4. ASSUME pc' = "root", running' = [version |-> image, current |-> initrd],
               UNCHANGED <<loader, unsynced, done>>
        PROVE  UpgradeInv'
    BY <2>1, <2>4
  <2> QED BY <1>8, <2>2, <2>3, <2>4 DEF BootSwi
<1>9. ASSUME InitReboots \/ Login \/ Reboot PROVE UpgradeInv'
  BY <1>9 DEF InitReboots, Login, Reboot
<1>10. ASSUME UpgradeCheck PROVE UpgradeInv'
  BY <1>10 DEF UpgradeCheck, UpgradeIndicated
<1>11. ASSUME CopyFiles PROVE UpgradeInv'
  <2>1. done = None
    BY <1>11 DEF CopyFiles, CopyBegins, CopyEnds
  <2> QED BY <1>11, <2>1 DEF CopyFiles, CopyBegins, CopyEnds
<1>12. ASSUME Umount \/ UpgradeReboots PROVE UpgradeInv'
  BY <1>12 DEF Umount, UpgradeReboots
<1>13. ASSUME WriteBack \/ (\E v \in Versions : Publish(v)) PROVE UpgradeInv'
  BY <1>13 DEF WriteBack, Publish
<1>14. ASSUME PowerLoss PROVE UpgradeInv'
  BY <1>14 DEF PowerLoss
<1> QED BY <1>2, <1>3, <1>4, <1>5, <1>6, <1>7, <1>8, <1>9, <1>10, <1>11, <1>12, <1>13,
           <1>14, NextCases

LEMMA InvStep == IInv /\ [Next]_vars => IInv'
<1> SUFFICES ASSUME IInv, [Next]_vars PROVE IInv'
  OBVIOUS
<1>1. CASE Next
  BY <1>1, TypeStep, UnpackStep, UpgradeStep DEF IInv
<1>2. CASE UNCHANGED vars
  <2> USE <1>2 DEF vars, settings, loader, data, ram
  <2>1. TypeOK' BY DEF IInv, TypeOK, DiskOK, MemoryOK
  <2>2. UnpackInv' BY DEF IInv, UnpackInv
  <2>3. UpgradeInv' BY DEF IInv, UpgradeInv
  <2> QED BY <2>1, <2>2, <2>3 DEF IInv
<1> QED BY <1>1, <1>2
-----------------------------------------------------------------------------
\* The inductive invariant holds throughout.
THEOREM Invariance == Spec => []IInv
<1> QED BY InitInv, InvStep, PTL DEF Spec

\* A root whose record is there is whole, wherever the power failed, unless
\* unsquashfs stopped half-way or the record overtook the files on their way to
\* the disk.
THEOREM RecordedMeansWholeHolds == Spec => []RecordedMeansWhole
<1>1. IInv => RecordedMeansWhole
  BY DEF IInv, UnpackInv, RecordedMeansWhole
<1> QED BY <1>1, Invariance, PTL

\* A switch with an installed root never ends in the login shell, unless its data
\* partition is not mounted or has lost something.
THEOREM NeverGivesUpHolds == Spec => []NeverGivesUp
<1>1. IInv => NeverGivesUp
  BY DEF IInv, TypeOK, MemoryOK, UnpackInv, NeverGivesUp
<1> QED BY <1>1, Invariance, PTL

\* With BOOTMODE=swi, an upgrade of the loader that went to its end is not
\* indicated again by the same version.
THEOREM UpgradeSettlesHolds == Spec => []UpgradeSettles
<1>1. IInv => UpgradeSettles
  <2> SUFFICES ASSUME IInv, mode = "swi", pc = "root", done = running.version,
                      UpgradeIndicated
               PROVE  FALSE
    BY DEF UpgradeSettles, SingleReboot
  <2>1. running.current = initrd /\ done # None
    BY NotVersions DEF IInv, UpgradeInv, UpgradeIndicated, None, Reserved
  <2> QED BY <2>1 DEF IInv, UpgradeInv, UpgradeIndicated
<1> QED BY <1>1, Invariance, PTL
=============================================================================
