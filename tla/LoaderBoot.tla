----------------------------- MODULE LoaderBoot -----------------------------
(***************************************************************************)
(* One switch from power on to a running root file system: the loader's    *)
(* scripts (sysinit, autoboot, the bootmodes installed and swi, swiprep,   *)
(* boot, switchroot), the loader upgrade the booted system runs            *)
(* (/etc/boot.d, onl.upgrade), and the power that may fail at every step.  *)
(*                                                                         *)
(* BOOTMODE=installed unpacks an image into the data partition once and    *)
(* boots that from then on; BOOTMODE=swi mounts the image afresh at every  *)
(* boot.  An image of version v brings a loader of version v.  Nothing is  *)
(* ordered on its way to the disk unless somebody syncs.                   *)
(***************************************************************************)
EXTENDS Naturals

CONSTANTS Versions,
          AutobootMax   \* AUTOBOOT_MAX

ASSUME AutobootMaxAssumption == AutobootMax \in Nat

None == "none"        \* nothing recorded, nothing fetched
Torn == "torn"        \* a file whose copy was not finished
ASSUME VersionsAssumption == {"none", "torn", "empty", "partial"} \cap Versions = {}

VARIABLES
  mode, config,  \* BOOTMODE; what boot-config has for SWI: a "file" or a "dir"
  net,           \* its NET settings: no device, an end to the DHCP requests, or none
  kernel, initrd,\* the loader in ONL-BOOT
  image,         \* the SWI to be had where boot-config says
  content,       \* the root unpacked in ONL-DATA
  record,        \* its etc/onl/SWI, written last
  current,       \* its etc/onl/loader/versions.json, the loader it thinks it has
  unsynced,      \* what has been written and may not have reached the disk
  where,         \* where ONL-DATA is mounted: on /mnt/onl/data, on /newroot, or not
  params,        \* SWI in /etc/onl/BOOTPARAMS, as config
  fetched,       \* the image swiget found
  attempts,      \* autoboot.count
  running,       \* the root that is running: its version and its current
  pc,
  done,          \* history: the version of the last upgrade, if it went to the end
  spoilt         \* history: the recorded root has lost something since the last wipe

settings == <<mode, config, net, image>>
loader == <<kernel, initrd>>
data == <<content, record, current>>
ram == <<where, params, fetched, attempts, running>>
vars == <<settings, loader, data, unsynced, ram, pc, done, spoilt>>

Booting == {"autoboot", "handler", "wipe", "unpack", "etc", "mark", "boot"}
Upgrading == {"kernel", "kernel open", "initrd", "initrd open", "umount", "reboot"}

DiskOK == /\ mode \in {"installed", "swi"} /\ config \in {"file", "dir"}
          /\ net \in {"unset", "limited", "infinite"}
          /\ kernel \in Versions \cup {Torn} /\ initrd \in Versions \cup {Torn}
          /\ image \in Versions
          /\ content \in Versions \cup {"empty", "partial"}
          /\ record \in Versions \cup {None} /\ current \in Versions \cup {None}
          /\ unsynced \subseteq {"content", "record", "kernel", "initrd"}

MemoryOK == /\ where \in {"data", "newroot", "none"}
            /\ params \in {"file", "dir"}
            /\ fetched \in Versions \cup {None}
            /\ attempts \in 0 .. AutobootMax + 1
            /\ running \in [version : Versions \cup {"partial"},
                            current : Versions \cup {None}]
            /\ pc \in Booting \cup Upgrading
                        \cup {"off", "dead", "sysinit", "root", "up", "login"}

TypeOK == DiskOK /\ MemoryOK /\ done \in Versions \cup {None} /\ spoilt \in BOOLEAN

\* As the installer leaves the switch, before its first boot.
Init == /\ mode \in {"installed", "swi"}
        /\ config \in IF mode = "swi" THEN {"file"} ELSE {"file", "dir"}
        /\ net \in {"unset", "limited", "infinite"}
        /\ kernel \in Versions /\ initrd = kernel
        /\ image \in Versions
        /\ content = "empty" /\ record = None /\ current = None
        /\ unsynced = {}
        /\ where = "none" /\ params = config /\ fetched = None /\ attempts = 0
        /\ running = [version |-> "partial", current |-> None]
        /\ pc = "off"
        /\ done = None /\ spoilt = FALSE

Goto(l) == pc' = l
-----------------------------------------------------------------------------
(* The loader comes up.                                                    *)

PowerOn == /\ pc = "off"
           /\ where' = "none" /\ attempts' = 0
           /\ Goto(IF Torn \in {kernel, initrd} THEN "dead" ELSE "sysinit")
           /\ UNCHANGED <<settings, loader, data, unsynced, params, fetched, running,
                          done, spoilt>>

\* ONL-DATA is mounted as mtab.yml says, unless that fails or it is in use
\* elsewhere: MountManager.mount leaves it there.  The parser of boot-config adds a
\* line to BOOTPARAMS, and the last one counts.
Sysinit == /\ pc = "sysinit"
           /\ where' \in IF where = "newroot" THEN {"newroot"} ELSE {"data", "none"}
           /\ params' = config
           /\ Goto("autoboot")
           /\ UNCHANGED <<settings, loader, data, unsynced, fetched, attempts, running,
                          done, spoilt>>

\* Mutant: the counter does not survive the exec.
TryAgainUncounted == /\ Goto("autoboot")
                     /\ UNCHANGED <<settings, loader, data, unsynced, ram, done, spoilt>>

\* tryagain: the count only matters up to one above its maximum, where init is
\* told to reboot and autoboot goes on until it does.
TryAgain == /\ attempts' = IF attempts > AutobootMax THEN attempts ELSE attempts + 1
            /\ Goto("autoboot")
            /\ UNCHANGED <<settings, loader, data, unsynced, where, params, fetched,
                           running, done, spoilt>>

\* ifup at work: with NETRETRIES=infinite it asks for an address until it has one.
Configuring == pc = "autoboot" /\ net = "infinite"

\* autoboot up to the handler of BOOTMODE: ifup fails only if it has no device.
Autoboot == /\ pc = "autoboot"
            /\ \/ net = "unset" /\ TryAgain
               \/ /\ net # "unset" /\ Goto("handler")
                  /\ UNCHANGED <<settings, loader, data, unsynced, ram, done, spoilt>>

InitReboots == /\ pc \in Booting /\ attempts > AutobootMax
               /\ Goto("off")
               /\ unsynced' = {}
               /\ UNCHANGED <<settings, loader, data, ram, done, spoilt>>

\* A handler that returns 200 ends in the login shell; leaving that reboots.
GiveUp == /\ Goto("login")
          /\ UNCHANGED <<settings, loader, data, unsynced, ram, done, spoilt>>

Login == /\ pc = "login"
         /\ Goto("off")
         /\ unsynced' = {}
         /\ UNCHANGED <<settings, loader, data, ram, done, spoilt>>
-----------------------------------------------------------------------------
(* BOOTMODE=installed                                                      *)

\* Mutant: the directory of the first attempt is not asked for its record.
GivesUpOnDirectory == /\ pc = "handler" /\ mode = "installed"
                      /\ where # "data" \/ params = "dir"
                      /\ GiveUp

InstalledGivesUp == /\ pc = "handler" /\ mode = "installed"
                    /\ where # "data" \/ (params = "dir" /\ record = None)
                    /\ GiveUp

\* swiget at work: a download has no timeout of its own, and this one none from
\* outside either.
Downloading == /\ pc = "handler" /\ mode = "installed"
               /\ where = "data" /\ params = "file"

\* An image is looked for, found or not, whether it is needed or not; and the next
\* attempt will be to boot the directory.
Installed == /\ pc = "handler" /\ mode = "installed" /\ where = "data"
             /\ params = "dir" => record # None
             /\ fetched' \in IF params = "file" THEN {image, None} ELSE {None}
             /\ params' = "dir"
             /\ Goto(IF record = None THEN "wipe" ELSE "boot")
             /\ UNCHANGED <<settings, loader, data, unsynced, where, attempts, running,
                            done, spoilt>>

\* Mutant: the record is written when the unpacking begins.
WipeMarks == /\ pc = "wipe"
             /\ IF fetched = None
                  THEN Goto("boot") /\ UNCHANGED <<data, unsynced, spoilt>>
                  ELSE /\ Goto("unpack")
                       /\ content' = "partial" /\ record' = fetched /\ current' = None
                       /\ unsynced' = unsynced \cup {"content", "record"}
                       /\ spoilt' = FALSE
             /\ UNCHANGED <<settings, loader, ram, done>>

\* swiprep --install: nothing happens without a path; else everything goes.
Wipe == /\ pc = "wipe"
        /\ IF fetched = None
             THEN Goto("boot") /\ UNCHANGED <<data, unsynced, spoilt>>
             ELSE /\ Goto("unpack")
                  /\ content' = "partial" /\ record' = None /\ current' = None
                  /\ unsynced' = (unsynced \ {"record"}) \cup {"content"}
                  /\ spoilt' = FALSE
        /\ UNCHANGED <<settings, loader, ram, done>>

\* The squashfs is not in the image; or it is unpacked; or unsquashfs stops on
\* the way, which is noticed only if lib.sh is missing.
Unpack == /\ pc = "unpack"
          /\ \/ content' = "empty" /\ Goto("boot") /\ spoilt' = spoilt
             \/ content' = fetched /\ Goto("etc") /\ spoilt' = spoilt
             \/ content' = content /\ Goto("boot") /\ spoilt' = spoilt
             \/ content' = content /\ Goto("etc") /\ spoilt' = TRUE
          /\ UNCHANGED <<settings, loader, record, current, unsynced, ram, done>>

\* The loader's /etc/onl goes into the root, with the versions of this loader.
CopyEtc == /\ pc = "etc"
           /\ current' = initrd
           /\ Goto("mark")
           /\ UNCHANGED <<settings, loader, content, record, unsynced, ram, done, spoilt>>

Mark == /\ pc = "mark"
        /\ record' = fetched
        /\ unsynced' = unsynced \cup {"record"}
        /\ Goto("boot")
        /\ UNCHANGED <<settings, loader, content, current, ram, done, spoilt>>

-----------------------------------------------------------------------------
(* boot and switchroot                                                     *)

HasInit == IF content = "partial" THEN {TRUE, FALSE} ELSE {content # "empty"}

\* exec /init, with ONL-DATA on /newroot only
NoInit(w) == /\ Goto("sysinit")
             /\ where' = w
             /\ UNCHANGED <<settings, loader, data, unsynced, params, fetched, attempts,
                            running, done, spoilt>>

\* boot dir:data:/
BootInstalled ==
  /\ pc = "boot"
  /\ \/ TryAgain
     \/ FALSE \in HasInit /\ NoInit("newroot")
     \/ /\ TRUE \in HasInit
        /\ running' = [version |-> IF content \in Versions THEN content ELSE "partial",
                       current |-> current]
        /\ Goto("root")
        /\ UNCHANGED <<settings, loader, data, unsynced, where, params, fetched,
                       attempts, done, spoilt>>

\* Mutant: the overlay keeps the versions file of the image.
BootSwiKeepsVersions ==
  /\ pc = "handler" /\ mode = "swi"
  /\ running' = [version |-> image, current |-> None]
  /\ Goto("root")
  /\ UNCHANGED <<settings, loader, data, unsynced, where, params, fetched, attempts,
                 done, spoilt>>

\* BOOTMODE=swi: swiget and swiprep --overlay in one; without overlayfs there is
\* nothing to boot.
BootSwi == /\ pc = "handler" /\ mode = "swi"
           /\ \/ TryAgain
              \/ NoInit("none")
              \/ /\ running' = [version |-> image, current |-> initrd]
                 /\ Goto("root")
                 /\ UNCHANGED <<settings, loader, data, unsynced, where, params, fetched,
                                attempts, done, spoilt>>

-----------------------------------------------------------------------------
(* /etc/boot.d/15.upgrade-loader with upgrade.loader.auto = force          *)

UpgradeIndicated == /\ running.version \in Versions
                    /\ running.current # running.version

UpgradeCheck == /\ pc = "root"
                /\ IF UpgradeIndicated THEN Goto("kernel") /\ done' = None
                                       ELSE Goto("up") /\ done' = done
                /\ UNCHANGED <<settings, loader, data, unsynced, ram, spoilt>>

\* copyfile of one file over the one the loader was booted from; a copy that
\* fails ends the upgrade, and the boot goes on.
CopyBegins(at, file, l) == /\ pc = at
                           /\ file' = Torn
                           /\ Goto(l)
                           /\ UNCHANGED <<settings, data, unsynced, ram, done, spoilt>>

CopyEnds(at, name, file, l) ==
  /\ pc = at
  /\ \/ /\ file' = running.version
        /\ unsynced' = unsynced \cup {name}
        /\ Goto(l)
     \/ /\ file' = file /\ unsynced' = unsynced
        /\ Goto("up")
  /\ UNCHANGED <<settings, data, ram, done, spoilt>>

CopyFiles == \/ /\ \/ CopyBegins("kernel", kernel, "kernel open")
                   \/ CopyEnds("kernel open", "kernel", kernel, "initrd")
                /\ UNCHANGED initrd
             \/ /\ \/ CopyBegins("initrd", initrd, "initrd open")
                   \/ CopyEnds("initrd open", "initrd", initrd, "umount")
                /\ UNCHANGED kernel

\* What is mounted under /mnt/onl is unmounted; if that fails the upgrade ends
\* there.
Umount == /\ pc = "umount"
          /\ \/ Goto("reboot") /\ unsynced' = {}
             \/ Goto("up") /\ unsynced' = unsynced
          /\ UNCHANGED <<settings, loader, data, ram, done, spoilt>>

\* The boot loader settings are rewritten, whatever comes of that, and reboot()
\* syncs.
UpgradeReboots == /\ pc = "reboot"
                  /\ Goto("off")
                  /\ unsynced' = {}
                  /\ done' = running.version
                  /\ UNCHANGED <<settings, loader, data, ram, spoilt>>
-----------------------------------------------------------------------------
(* The operator, the kernel and the power.                                 *)

Reboot == /\ pc = "up"
          /\ Goto("off")
          /\ unsynced' = {}
          /\ UNCHANGED <<settings, loader, data, ram, done, spoilt>>

Publish(v) == /\ image # v
              /\ image' = v
              /\ UNCHANGED <<mode, config, net, loader, data, unsynced, ram, pc, done,
                             spoilt>>

WriteBack == /\ unsynced # {}
             /\ unsynced' = {}
             /\ UNCHANGED <<settings, loader, data, ram, pc, done, spoilt>>

\* Any of what has not been synced is lost: files are there, but empty or short.
PowerLoss ==
  /\ pc \notin {"off", "dead"}
  /\ \E lost \in SUBSET unsynced :
       /\ content' = IF "content" \in lost THEN "partial" ELSE content
       /\ current' = IF "content" \in lost THEN None ELSE current
       /\ record' = IF "record" \in lost THEN None ELSE record
       /\ kernel' = IF "kernel" \in lost THEN Torn ELSE kernel
       /\ initrd' = IF "initrd" \in lost THEN Torn ELSE initrd
       /\ spoilt' = (spoilt \/ ("content" \in lost /\ record' # None))
  /\ unsynced' = {}
  /\ Goto("off")
  /\ UNCHANGED <<settings, ram, done>>

LoaderStep == \/ Sysinit \/ Autoboot \/ InstalledGivesUp \/ Installed \/ Wipe \/ Unpack
              \/ CopyEtc \/ Mark \/ BootInstalled \/ BootSwi
SystemStep == UpgradeCheck \/ CopyFiles \/ Umount \/ UpgradeReboots

Next == \/ PowerOn \/ LoaderStep \/ InitReboots \/ Login \/ SystemStep
        \/ Reboot \/ WriteBack \/ PowerLoss
        \/ \E v \in Versions : Publish(v)

Spec == Init /\ [][Next]_vars

\* A script may hang here, for nothing has a timeout.
Waiting == Configuring \/ Downloading

\* A script goes on, unless it waits for an address or a download, and init gets
\* round to the reboot it was told to do.
FairSpec == Spec /\ WF_vars(~Waiting /\ LoaderStep) /\ WF_vars(InitReboots)
-----------------------------------------------------------------------------
\* The inductive strengthening.  What is unpacked where, and what that says about
\* the record; and that no upgrade went to its end since the loader was touched.
UnpackInv ==
  /\ pc \in {"wipe", "unpack", "etc", "mark"} => record = None
  /\ pc \in {"wipe", "unpack", "etc", "mark", "boot"} =>
       mode = "installed" /\ where = "data"
  /\ pc \in {"unpack", "etc", "mark"} => fetched # None
  /\ pc \in {"etc", "mark"} /\ ~spoilt => content = fetched
  /\ record # None /\ ~spoilt => content = record
  /\ where = "newroot" /\ record # None => spoilt
  /\ pc = "login" /\ record # None => where # "data"

UpgradeInv ==
  /\ pc \in Upgrading => done = None /\ running.version \in Versions
  /\ pc \in {"initrd", "initrd open", "umount", "reboot"} => kernel = running.version
  /\ pc \in {"umount", "reboot"} => initrd = running.version
  /\ done # None => /\ kernel = done /\ initrd = done
                    /\ {"kernel", "initrd"} \cap unsynced = {}
  /\ pc \in Booting \cup {"sysinit", "root"} => Torn \notin {kernel, initrd}
  /\ pc = "root" /\ mode = "swi" => running.current = initrd

IInv == TypeOK /\ UnpackInv /\ UpgradeInv
-----------------------------------------------------------------------------
\* "Found valid (current) image at /mnt/onl/data": the record vouches for the
\* whole root it names, wherever the power failed in the unpacking.  The two
\* exceptions are in spoilt: unsquashfs stopped half-way and nobody looked, or the
\* record reached the disk before the files did (nothing syncs).
RecordedMeansWhole == record # None /\ ~spoilt => content = record

\* "Potentially recoverable error.  Continue trying": a switch with an installed
\* root never ends in the login shell, though downloads and boots fail at every
\* attempt and the attempts find their settings rewritten, unless its data
\* partition could not be mounted or has lost something.
NeverGivesUp == pc = "login" /\ record # None => spoilt \/ where = "none"

\* "A single reboot will be required to complete this upgrade."
SingleReboot == pc = "root" /\ done = running.version => ~UpgradeIndicated

\* It is so for BOOTMODE=swi, whenever images were published and power was lost.
UpgradeSettles == mode = "swi" => SingleReboot

\* Every run of autoboot comes to a root, the login shell or a reboot: no attempts
\* follow each other for ever.  It can hang, where nothing has a timeout: for an
\* address, if boot-config says so, or in the download of BOOTMODE=installed (the one
\* of BOOTMODE=swi has one).  And an image without an init brings the loader's /init
\* back, where nothing is counted: again and again with BOOTMODE=swi, while the mode
\* installed finds its partition on /newroot and gives up.
AutobootEnds == pc = "autoboot" ~> \/ pc \notin Booting \cup {"sysinit"}
                                   \/ []Waiting
                                   \/ mode = "swi" /\ []<>(pc = "sysinit")
=============================================================================
