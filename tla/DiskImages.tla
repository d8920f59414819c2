------------------------------ MODULE DiskImages ------------------------------
(***************************************************************************)
(* The disk images of the machine: what the menu mounts (menu_disk.cpp,    *)
(* diskdrv.c, fddfile.c), what the emulated drives read and write          *)
(* (fdd_d88.c, fdd_xdf.c, sxsihdd.c), what the NVS keeps and what a boot   *)
(* restores (main.cpp), all through the descriptor cache of module         *)
(* DosioCache.                                                             *)
(*                                                                         *)
(* Everything runs on the emulator task, one call after the other; the     *)
(* orders of calls are what there is to check.  Two floppy drives and one  *)
(* fixed disk.  A D88 image has a header that the mount reads, and its     *)
(* tracks are accessed through one write-back track buffer that both       *)
(* drives share; a raw image is accessed sector by sector; a fixed disk    *)
(* has a header too and keeps its handle.  A track and a sector are each   *)
(* a block here, and what a block holds is the number of the write that    *)
(* put it there.  Formatting, write protection and images that vanish      *)
(* from the card are left out.                                             *)
(***************************************************************************)
EXTENDS DosioCache

CONSTANTS
  D88, Raw,     \* floppy images, of the two kinds
  Hdds,         \* fixed disk images
  BiosRom,      \* the ROM files that a boot opens, or NoImage when the card
  FontRom,      \*   has none (those in flash are no files)
  Failing,      \* sets of paths of which a save may store none while the
                \*   machine stays on: its calls on NVS that may fail
  LastBlock,    \* the last block of an image; block 0 is a header
  MaxWrites     \* bound on the number of sectors the guest writes

Keys == {"fdd0", "fdd1", "hdd"}
Images == D88 \cup Raw \cup Hdds
NoImage == "none"

ASSUME FilesAssumption ==
  /\ Files \subseteq Images \cup {BiosRom, FontRom}
  /\ Images \subseteq Files /\ {BiosRom, FontRom} \subseteq Files \cup {NoImage}
  /\ D88 \cap Raw = {} /\ Hdds \cap (D88 \cup Raw \cup {BiosRom, FontRom}) = {}
  /\ Failing \subseteq SUBSET Keys
  /\ LastBlock \in Nat \ {0} /\ MaxWrites \in Nat

VARIABLES
  pc,           \* off, run (pccore_exec) or menu
  layer,        \* the file layer: its cache, the descriptors behind it
  content,      \* what each block of an image file holds
  drive,        \* the floppy drives: image, and whether its header is right
  d88trk,       \* the track buffer: drive, track, block of the file, value
  hdd,          \* np2cfg.sasihdd[0], and the device's handle
  nvs,          \* the mounts as last saved
  writes,
  written,      \* ghost: what the guest last wrote to each block
  misread,      \* ghost: whether a read by the guest gave anything else
  spoilt        \* ghost: images that a bad header or a failed flush touched

vars == <<pc, layer, content, drive, d88trk, hdd, nvs, writes, written,
          misread, spoilt>>
disks == <<content, drive, d88trk, spoilt>>

Drives == {0, 1}
NoDrive == 2
Blocks == 0 .. LastBlock
Tracks == 1 .. LastBlock

EmptyDrive == [fname |-> NoImage, head |-> "none"]
NoTrack == [fdd |-> NoDrive, track |-> 0, at |-> 0, val |-> 0, write |-> FALSE]
NoHdd == [path |-> NoImage, hdl |-> NoFd]
NoMounts == [fdd0 |-> NoImage, fdd1 |-> NoImage, hdd |-> NoImage]
Untouched == [i \in Images |-> [b \in Blocks |-> 0]]

Init ==
  /\ pc = "off" /\ layer = dosio_init
  /\ content = Untouched /\ written = Untouched
  /\ drive = [d \in Drives |-> EmptyDrive]
  /\ d88trk = NoTrack /\ hdd = NoHdd /\ nvs = NoMounts
  /\ writes = 0 /\ misread = FALSE
  /\ spoilt = {}

-----------------------------------------------------------------------------
(* Calls that several operations make: each takes the disks' state s, a    *)
(* record of the variables it may change, and returns the next one.        *)

State == [layer |-> layer, content |-> content, drive |-> drive,
          d88trk |-> d88trk, spoilt |-> spoilt]

(* The variables take the values of s. *)
Becomes(s) ==
  /\ layer' = s.layer /\ content' = s.content /\ drive' = s.drive
  /\ d88trk' = s.d88trk /\ spoilt' = s.spoilt

(* The buffer goes back to the image of the drive it was read from.  When  *)
(* that image cannot be opened the buffer is lost.                         *)
d88trk_flushdata(s) ==
  LET trk == s.d88trk
      img == s.drive[trk.fdd].fname
      a == Access(s.layer, img)
  IN IF trk.fdd = NoDrive \/ ~trk.write THEN [s EXCEPT !.d88trk = NoTrack]
     ELSE IF ~a.ok THEN [s EXCEPT !.d88trk = NoTrack,
                                  !.spoilt = s.spoilt \cup {img}]
     ELSE [s EXCEPT !.d88trk = NoTrack, !.layer = a.st,
                    !.content[img][trk.at] = trk.val]

(* Mutant: a new image needs no flush of the old one. *)
EjectNothing(s, d) == s

(* The eject function of a drive: only a D88's has something to do. *)
drvflush(s, d) == IF s.d88trk.fdd = d THEN d88trk_flushdata(s) ELSE s

(* The header is read from wherever the position of the descriptor is; eof *)
(* tells whether that is too near the end of the file, when it is not the  *)
(* start.                                                                  *)
ReadHeader(st, img, eof) ==
  LET o == cache_open(st, img) IN
    IF o.fd = NoFd THEN [st |-> st, head |-> "none", fd |-> NoFd]
    ELSE [st |-> Transfer(o.st, o.fd), fd |-> o.fd,
          head |-> IF ~o.st.fds[o.fd].moved THEN "good"
                   ELSE IF eof THEN "none" ELSE "garbage"]

(* The setter of an image's kind: what it makes of the drive, if anything. *)
OpenImage(st, img, eof) ==
  LET h == ReadHeader(st, img, eof)
      e == sd_file_exists(st, img)
  IN IF img \in D88 THEN [st |-> file_close(h.st, h.fd), head |-> h.head]
     ELSE [st |-> e.st, head |-> IF e.ok THEN "good" ELSE "none"]

(* An image into a drive, over whatever is there; when the setter fails    *)
(* the drive keeps what it had.                                            *)
fdd_set(s, d, img, eof) ==
  LET f == drvflush(s, d)
      o == OpenImage(f.layer, img, eof)
      g == [f EXCEPT !.layer = o.st]
  IN IF o.head = "none" THEN g
     ELSE [g EXCEPT !.drive[d] = [fname |-> img, head |-> o.head],
                    !.spoilt = IF o.head = "good" THEN @ ELSE @ \cup {img}]

(* A fixed disk's header has a signature or a geometry that must be right; *)
(* the path stays when the image cannot be bound.                          *)
hddbind(st, img) ==
  LET h == ReadHeader(st, img, FALSE) IN
    IF img = NoImage THEN [st |-> st, hdl |-> NoFd]
    ELSE IF h.head = "good" THEN [st |-> h.st, hdl |-> h.fd]
    ELSE [st |-> file_close(h.st, h.fd), hdl |-> NoFd]

-----------------------------------------------------------------------------
(* The guest, inside pccore_exec().                                        *)

D88Drive(d) == drive[d].fname \in D88
RawDrive(d) == drive[d].fname \in Raw

(* Where a header says that track t lies: anywhere, when it is garbage. *)
Places(d, t) == IF drive[d].head = "good" THEN {t} ELSE Blocks

(* Mutant: the buffer is recognised by its track alone. *)
BufferedTrack(d, t) == d88trk.fdd # NoDrive /\ d88trk.track = t

Buffered(d, t) == d88trk.fdd = d /\ d88trk.track = t

(* Track t of drive d into the buffer, from block b, unless it is there;   *)
(* the buffer is empty when that fails.                                    *)
trkseek(d, t, b) ==
  LET f == d88trk_flushdata(State)
      img == drive[d].fname
      a == Access(f.layer, img)
  IN IF Buffered(d, t) THEN State
     ELSE IF ~a.ok THEN f
     ELSE [f EXCEPT !.layer = a.st,
                    !.d88trk = [fdd |-> d, track |-> t, at |-> b,
                                val |-> f.content[img][b], write |-> FALSE]]

(* The guest reads val where it thinks it reads block b of img. *)
Answer(img, val, b) ==
  misread' = (misread \/ (img \notin spoilt /\ val # written[img][b]))

fdd_read_d88(d, t) ==
  /\ pc = "run" /\ D88Drive(d)
  /\ \E b \in Places(d, t) :
       LET s == trkseek(d, t, b) IN
         /\ Becomes(s)
         /\ IF s.d88trk.fdd = NoDrive THEN UNCHANGED misread
            ELSE Answer(drive[d].fname, s.d88trk.val, t)
  /\ UNCHANGED <<pc, hdd, nvs, writes, written>>

fdd_write_d88(d, t) ==
  /\ pc = "run" /\ D88Drive(d) /\ writes < MaxWrites
  /\ \E b \in Places(d, t) :
       LET s == trkseek(d, t, b) IN
         IF s.d88trk.fdd = NoDrive THEN Becomes(s) /\ UNCHANGED <<writes, written>>
         ELSE /\ Becomes([s EXCEPT !.d88trk = [s.d88trk EXCEPT
                                        !.val = writes + 1, !.write = TRUE]])
              /\ writes' = writes + 1
              /\ written' = [written EXCEPT ![drive[d].fname][t] = writes + 1]
  /\ UNCHANGED <<pc, hdd, nvs, misread>>

(* A sector of a raw image: the file is opened and closed around it. *)
fdd_read_xdf(d, b) ==
  /\ pc = "run" /\ RawDrive(d)
  /\ LET img == drive[d].fname
         a == Access(layer, img)
     IN /\ layer' = a.st
        /\ IF a.ok THEN Answer(img, content[img][b], b) ELSE UNCHANGED misread
  /\ UNCHANGED <<pc, disks, hdd, nvs, writes, written>>

fdd_write_xdf(d, b) ==
  /\ pc = "run" /\ RawDrive(d) /\ writes < MaxWrites
  /\ LET img == drive[d].fname
         a == Access(layer, img)
     IN /\ layer' = a.st
        /\ IF a.ok
             THEN /\ content' = [content EXCEPT ![img][b] = writes + 1]
                  /\ written' = [written EXCEPT ![img][b] = writes + 1]
                  /\ writes' = writes + 1
             ELSE UNCHANGED <<content, written, writes>>
  /\ UNCHANGED <<pc, drive, d88trk, spoilt, hdd, nvs, misread>>

(* A sector of the fixed disk, through the handle it keeps: the data goes  *)
(* to whatever file the descriptor is of.                                  *)
hdd_read(b) ==
  /\ pc = "run" /\ hdd.hdl # NoFd
  /\ layer' = Transfer(layer, hdd.hdl)
  /\ Answer(hdd.path, content[layer.fds[hdd.hdl].path][b], b)
  /\ UNCHANGED <<pc, disks, hdd, nvs, writes, written>>

hdd_write(b) ==
  /\ pc = "run" /\ hdd.hdl # NoFd /\ writes < MaxWrites
  /\ layer' = Transfer(layer, hdd.hdl)
  /\ content' = [content EXCEPT ![layer.fds[hdd.hdl].path][b] = writes + 1]
  /\ written' = [written EXCEPT ![hdd.path][b] = writes + 1]
  /\ writes' = writes + 1
  /\ UNCHANGED <<pc, drive, d88trk, spoilt, hdd, nvs, misread>>

-----------------------------------------------------------------------------
(* The menu.                                                               *)

menu_disk_run ==
  /\ pc = "run" /\ pc' = "menu"
  /\ UNCHANGED <<layer, disks, hdd, nvs, writes, written, misread>>

(* diskdrv_readyfddex(): an image picked for a floppy drive. *)
Insert(d, img) ==
  /\ pc = "menu" /\ \E eof \in BOOLEAN : Becomes(fdd_set(State, d, img, eof))
  /\ UNCHANGED <<pc, hdd, nvs, writes, written, misread>>

(* diskdrv_setfddex() with no image. *)
fdd_eject(d) ==
  /\ pc = "menu"
  /\ Becomes([drvflush(State, d) EXCEPT !.drive[d] = EmptyDrive])
  /\ UNCHANGED <<pc, hdd, nvs, writes, written, misread>>

(* diskdrv_setsxsi() and diskdrv_hddbind(). *)
PickHdd(img) ==
  LET h == hddbind(file_close(layer, hdd.hdl), img) IN
    /\ pc = "menu"
    /\ layer' = h.st /\ hdd' = [path |-> img, hdl |-> h.hdl]
    /\ UNCHANGED <<pc, disks, nvs, writes, written, misread>>

(* Mutant: the paths of two drives are saved under each other's keys. *)
MountsCrossed(hddPath) ==
  [fdd0 |-> drive[0].fname, fdd1 |-> hddPath, hdd |-> drive[1].fname]

Mounts(hddPath) ==
  [fdd0 |-> drive[0].fname, fdd1 |-> drive[1].fname, hdd |-> hddPath]

(* save_settings() stores the three paths one after another and looks at   *)
(* no result: each gets there or, when it is in lost, keeps what it had.   *)
Saves(hddPath, lost) ==
  LET m == Mounts(hddPath)
  IN  nvs' = [fdd0 |-> IF "fdd0" \in lost THEN nvs.fdd0 ELSE m.fdd0,
              fdd1 |-> IF "fdd1" \in lost THEN nvs.fdd1 ELSE m.fdd1,
              hdd  |-> IF "hdd" \in lost THEN nvs.hdd ELSE m.hdd]

(* The machine is gone: the file layer, the drives and the track buffer    *)
(* with what it held; the images are as they are on the card.              *)
Restart ==
  /\ pc' = "off" /\ layer' = dosio_init
  /\ drive' = [d \in Drives |-> EmptyDrive]
  /\ d88trk' = NoTrack /\ hdd' = NoHdd
  /\ written' = content
  /\ UNCHANGED <<content, writes, misread, spoilt>>

(* ESC leaves the menu, RESET restarts; both save first. *)
Leave ==
  /\ pc = "menu" /\ pc' = "run"
  /\ \E lost \in Failing : Saves(hdd.path, lost)
  /\ UNCHANGED <<layer, disks, hdd, writes, written, misread>>
Reset ==
  pc = "menu" /\ Restart /\ \E lost \in SUBSET Keys : Saves(hdd.path, lost)

(* The fixed disk is ejected by a restart without it. *)
EjectHdd ==
  pc = "menu" /\ Restart /\ \E lost \in SUBSET Keys : Saves(NoImage, lost)

(* In the middle of a save, one that was to leave the menu too, it is a    *)
(* Reset or an EjectHdd of which only some of the paths got there.         *)
PowerCut == pc # "off" /\ Restart /\ UNCHANGED nvs

-----------------------------------------------------------------------------
(* emu_task() up to the main loop.                                         *)

(* Mutant: the check that a file is there leaves it open. *)
ExistsOpen(st, img) == IF img = NoImage THEN st ELSE SysOpen(st, img).st

Exists(st, img) == IF img = NoImage THEN st ELSE sd_file_exists(st, img).st

(* The mount of a saved floppy, after pccore_reset(). *)
Mount(s, d, img, eof) ==
  IF img = NoImage THEN s
  ELSE fdd_set([s EXCEPT !.layer = Exists(s.layer, img)], d, img, eof)

(* Files are looked at in this order: the fixed disk, then what            *)
(* have_media needs to know, the ROMs, and the fixed disk again, bound.    *)
Boot ==
  LET st1 == Exists(dosio_init, nvs.hdd)
      media == IF nvs.fdd0 # NoImage THEN nvs.fdd0 ELSE nvs.fdd1
      st2 == IF nvs.hdd # NoImage THEN st1 ELSE Exists(st1, media)
      st3 == Exists(Exists(st2, BiosRom), FontRom)
      h == hddbind(st3, nvs.hdd)
      s0 == [State EXCEPT !.layer = h.st]
  IN /\ pc = "off" /\ pc' = "run"
     /\ hdd' = [path |-> nvs.hdd, hdl |-> h.hdl]
     /\ \E eof \in BOOLEAN :
          Becomes(Mount(Mount(s0, 0, nvs.fdd0, eof), 1, nvs.fdd1, eof))
     /\ UNCHANGED <<nvs, writes, written, misread>>

-----------------------------------------------------------------------------
Guest ==
  \E b \in Tracks :
    \/ \E d \in Drives : \/ fdd_read_d88(d, b) \/ fdd_write_d88(d, b)
                         \/ fdd_read_xdf(d, b) \/ fdd_write_xdf(d, b)
    \/ hdd_read(b) \/ hdd_write(b)

Menu ==
  \/ \E d \in Drives : \/ \E img \in D88 \cup Raw : Insert(d, img)
                       \/ fdd_eject(d)
  \/ \E img \in Hdds : PickHdd(img)
  \/ Leave \/ Reset \/ EjectHdd

Next == Guest \/ menu_disk_run \/ Menu \/ PowerCut \/ Boot

Spec == Init /\ [][Next]_vars

-----------------------------------------------------------------------------
Heads == {"none", "good", "garbage"}

(* Every variable has the shape the code gives it. *)
TypeOK ==
  /\ pc \in {"off", "run", "menu"} /\ layer \in Layers
  /\ content \in [Images -> [Blocks -> 0 .. MaxWrites]]
  /\ written \in [Images -> [Blocks -> 0 .. MaxWrites]]
  /\ drive \in [Drives -> [fname : D88 \cup Raw \cup {NoImage}, head : Heads]]
  /\ d88trk \in [fdd : Drives \cup {NoDrive}, track : 0 .. LastBlock,
                 at : Blocks, val : 0 .. MaxWrites, write : BOOLEAN]
  /\ hdd \in [path : Hdds \cup {NoImage}, hdl : FdIds \cup {NoFd}]
  /\ nvs \in [fdd0 : D88 \cup Raw \cup {NoImage},
              fdd1 : D88 \cup Raw \cup {NoImage}, hdd : Hdds \cup {NoImage}]
  /\ writes \in 0 .. MaxWrites /\ misread \in BOOLEAN /\ spoilt \subseteq Images

(* The block of an image as the guest would find it: in the track buffer   *)
(* when that has been written to, else in the file.                        *)
Pending(img, b) ==
  d88trk.fdd # NoDrive /\ d88trk.write /\ drive[d88trk.fdd].fname = img
    /\ d88trk.at = b
Held(img, b) == IF Pending(img, b) THEN d88trk.val ELSE content[img][b]

(* Nothing that the guest wrote is lost or misplaced by a mount, an eject, *)
(* a swap, an access of the other drive or a second look at the same image *)
(* in it: what it last wrote to a block is in the image, or in the track   *)
(* buffer on its way there.  So a restart can lose one track at most.      *)
WritesKept ==
  \A img \in Images \ spoilt, b \in Blocks : Held(img, b) = written[img][b]

(* A read by the guest gives what was last written to that place of the    *)
(* image, through whichever drive.                                         *)
ReadsLatest == ~misread

(* The descriptors are in order: each slot's is open on the slot's file,   *)
(* the fixed disk's handle is open on its image, no file has two, and none *)
(* is open that nobody uses.                                               *)
DescriptorsSound ==
  /\ SlotsOpen(layer) /\ OneFdPerFile(layer)
  /\ NoneLeaked(layer, {hdd.hdl})
  /\ hdd.hdl # NoFd => layer.fds[hdd.hdl].path = hdd.path

(* After a boot every drive holds the image that reached NVS for it, out   *)
(* of one save or, where calls failed or the power went, of several; and   *)
(* the fixed disk can be read (the second drive may fail when both held    *)
(* the same image: HeadersRead).                                           *)
Restored ==
  /\ drive'[0].fname = nvs.fdd0
  /\ nvs.fdd0 # nvs.fdd1 => drive'[1].fname = nvs.fdd1
  /\ hdd'.path = nvs.hdd /\ (nvs.hdd # NoImage => hdd'.hdl # NoFd)
BootRestores == [][pc = "off" /\ pc' # "off" => Restored]_vars

(* dosio_sd.cpp:37 says that whoever opens a path and reads it need not    *)
(* know what serves it; a header is read from the start of its image.      *)
HeadersRead == \A d \in Drives : drive[d].head # "garbage"
=============================================================================
