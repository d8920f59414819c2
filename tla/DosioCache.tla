------------------------------ MODULE DosioCache ------------------------------
(***************************************************************************)
(* The file layer of dosio_sd.cpp: descriptors of the SD file system, a    *)
(* few of them kept open for ever in a cache that is looked up by path.    *)
(*                                                                         *)
(* The layer has no task of its own: every call runs to its end on the     *)
(* emulator task, so calls are operators from one state of the layer to    *)
(* the next.  A state is a record st: st.s_cache holds a path and a        *)
(* descriptor per slot, st.fds the file behind each descriptor and whether *)
(* its position has moved from the start, which is all that a reader who   *)
(* does not seek can tell.                                                 *)
(***************************************************************************)
EXTENDS Integers

CONSTANTS
  Files,        \* the files on the card
  Slots,        \* OPEN_CACHE_SLOTS
  MaxFds        \* descriptors the SD file system has (SD.begin's default)

ASSUME SizesAssumption ==
  /\ Slots \in Nat \ {0} /\ MaxFds \in Nat /\ MaxFds > Slots
  /\ "closed" \notin Files /\ "none" \notin Files

NoFd == -1
Closed == [path |-> "closed", moved |-> FALSE]
FdIds == 0 .. MaxFds - 1
SlotIds == 0 .. Slots - 1

Layers ==
  [s_cache : [SlotIds -> [path : Files \cup {"none"}, fd : FdIds \cup {NoFd}]],
   fds : [FdIds -> [path : Files \cup {"closed"}, moved : BOOLEAN]]]

dosio_init ==
  [s_cache |-> [i \in SlotIds |-> [path |-> "none", fd |-> NoFd]],
   fds |-> [f \in FdIds |-> Closed]]

-----------------------------------------------------------------------------
(* Descriptors and slots that may be taken. *)
FreeFds(st) == {f \in FdIds : st.fds[f] = Closed}
FreeSlots(st) == {i \in SlotIds : st.s_cache[i].fd = NoFd}

(* Slots that hold path p. *)
Hits(st, p) == {i \in SlotIds : st.s_cache[i].fd # NoFd /\ st.s_cache[i].path = p}

(* One of a set of descriptors or slots; the code takes the first, and     *)
(* nothing depends on which it is.                                         *)
OneOf(S) == CHOOSE x \in S : TRUE

(* ::open(), which starts at position 0. *)
SysOpen(st, p) ==
  LET f == OneOf(FreeFds(st)) IN
    IF FreeFds(st) = {} THEN [st |-> st, fd |-> NoFd]
    ELSE [st |-> [st EXCEPT !.fds[f] = [path |-> p, moved |-> FALSE]], fd |-> f]

(* The descriptor for a path, with the state it leaves.  A cached one is   *)
(* returned as it is, wherever its position stands.                        *)
cache_open(st, p) ==
  LET o == SysOpen(st, p) IN
    IF Hits(st, p) # {}
      THEN [st |-> st, fd |-> st.s_cache[OneOf(Hits(st, p))].fd]
    ELSE IF o.fd = NoFd \/ FreeSlots(st) = {} THEN o
    ELSE [o EXCEPT !.st.s_cache[OneOf(FreeSlots(st))] = [path |-> p, fd |-> o.fd]]

(* Mutant: a close closes. *)
cache_ownsNone(st, fd) == FALSE

cache_owns(st, fd) == \E i \in SlotIds : st.s_cache[i].fd = fd

file_close(st, fd) ==
  IF fd = NoFd \/ cache_owns(st, fd) THEN st ELSE [st EXCEPT !.fds[fd] = Closed]

(* file_read() or file_write(), after a file_seek() or not. *)
Transfer(st, fd) ==
  [st EXCEPT !.fds[fd] = [path |-> st.fds[fd].path, moved |-> TRUE]]

-----------------------------------------------------------------------------
(* The calls made together by the layers above.                            *)

(* sd_file_exists(), and a setter that only asks for the size. *)
sd_file_exists(st, p) ==
  LET o == cache_open(st, p) IN [st |-> file_close(o.st, o.fd), ok |-> o.fd # NoFd]

(* One block of a file, the way every floppy access does it. *)
Access(st, p) ==
  LET o == cache_open(st, p) IN
    IF o.fd = NoFd THEN [st |-> st, ok |-> FALSE]
    ELSE [st |-> file_close(Transfer(o.st, o.fd), o.fd), ok |-> TRUE]

-----------------------------------------------------------------------------
(* What the callers rely on.                                               *)

(* Every slot's descriptor is open on the slot's own file. *)
SlotsOpen(st) ==
  \A i \in SlotIds : st.s_cache[i].fd # NoFd =>
    st.fds[st.s_cache[i].fd].path = st.s_cache[i].path

(* A file has at most one descriptor: the SD file system does not know     *)
(* that two of them are the same file.                                     *)
OneFdPerFile(st) ==
  \A f, g \in FdIds :
    st.fds[f] # Closed /\ st.fds[f].path = st.fds[g].path => f = g

(* The only open descriptors are the cache's and those in kept. *)
NoneLeaked(st, kept) ==
  \A f \in FdIds : st.fds[f] # Closed => cache_owns(st, f) \/ f \in kept
=============================================================================
