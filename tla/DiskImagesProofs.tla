--------------------------- MODULE DiskImagesProofs ---------------------------
(***************************************************************************)
(* Proofs about DiskImages, for any number of images, cache slots and      *)
(* descriptors: the descriptors stay in order, what the guest writes is    *)
(* kept and read back, and a boot mounts what was saved.                   *)
(***************************************************************************)
EXTENDS DiskImages, FiniteSetTheorems, TLAPS

(* A layer in order, but for descriptors that nobody uses. *)
LayerOK(st) ==
  /\ st \in Layers
  /\ SlotsOpen(st) /\ OneFdPerFile(st)
  /\ \A f \in FdIds : st.fds[f].path = "closed" => st.fds[f] = Closed

(* A layer in order, where k is the handle kept on image p, or NoFd. *)
Sound(st, k, p) ==
  /\ LayerOK(st) /\ k \in FdIds \cup {NoFd} /\ NoneLeaked(st, {k})
  /\ k # NoFd => p \in Files /\ st.fds[k].path = p

-----------------------------------------------------------------------------
(* The lemmas on single calls of the layer.                                *)

(* ::open() takes a free descriptor, unless there is none. *)
LEMMA SysOpens ==
  ASSUME NEW st \in Layers, NEW p \in Files
  PROVE  LET o == SysOpen(st, p) IN
    \/ o.fd = NoFd /\ o.st = st
    \/ /\ o.fd \in FdIds /\ st.fds[o.fd] = Closed
       /\ o.st \in Layers
       /\ o.st.s_cache = st.s_cache
       /\ o.st.fds = [st.fds EXCEPT ![o.fd] = [path |-> p, moved |-> FALSE]]
<1> DEFINE f == OneOf(FreeFds(st))
           o == SysOpen(st, p)
<1>1. CASE FreeFds(st) = {}
  BY <1>1 DEF SysOpen
<1>2. CASE FreeFds(st) # {}
  <2>1. f \in FreeFds(st)
    BY <1>2 DEF OneOf
  <2>2. f \in FdIds /\ st.fds[f] = Closed
    BY <2>1 DEF FreeFds
  <2>3. o = [st |-> [st EXCEPT !.fds[f] = [path |-> p, moved |-> FALSE]], fd |-> f]
    BY <1>2 DEF SysOpen
  <2>4. o.fd = f /\ o.st = [st EXCEPT !.fds[f] = [path |-> p, moved |-> FALSE]]
    BY <2>3
  <2>5. st = [s_cache |-> st.s_cache, fds |-> st.fds]
    BY DEF Layers
  <2>6. o.st.fds = [st.fds EXCEPT ![f] = [path |-> p, moved |-> FALSE]]
    BY <2>4, <2>5
  <2>7. o.st = [s_cache |-> st.s_cache, fds |-> o.st.fds]
    BY <2>4, <2>5
  <2>8. o.st.fds \in [FdIds -> [path : Files \cup {"closed"}, moved : BOOLEAN]]
    BY <2>2, <2>6 DEF Layers
  <2>9. o.st \in Layers
    BY <2>7, <2>8 DEF Layers
  <2> QED BY <2>2, <2>4, <2>6, <2>7, <2>9
<1> QED BY <1>1, <1>2

(* What o says of opening p in st: the descriptor is open on its file;     *)
(* nothing else changes but that its slot may be new.                      *)
Opened(st, p, o) ==
  /\ LayerOK(o.st)
  /\ o.fd = NoFd => o.st = st
  /\ o.fd # NoFd => /\ o.fd \in FdIds /\ o.st.fds[o.fd].path = p
                    /\ st.fds[o.fd] # Closed => o.st = st /\ cache_owns(st, o.fd)
  /\ \A f \in FdIds : f # o.fd => o.st.fds[f] = st.fds[f]
  /\ \A f \in FdIds : cache_owns(st, f) => cache_owns(o.st, f)

(* A file that is open only in the cache, if at all, is opened. *)
LEMMA CacheOpens ==
  ASSUME NEW st, LayerOK(st), NEW p \in Files,
         \A f \in FdIds : st.fds[f].path = p => cache_owns(st, f)
  PROVE  Opened(st, p, cache_open(st, p))
<1> DEFINE o == cache_open(st, p)
           s == SysOpen(st, p)
<1>0. st \in Layers BY DEF LayerOK
<1>1. CASE Hits(st, p) # {}
  <2> DEFINE i == OneOf(Hits(st, p))
  <2>1. i \in Hits(st, p)
    BY <1>1 DEF OneOf
  <2>2. i \in SlotIds /\ st.s_cache[i].fd # NoFd /\ st.s_cache[i].path = p
    BY <2>1 DEF Hits
  <2>3. o = [st |-> st, fd |-> st.s_cache[i].fd]
    BY <1>1 DEF cache_open
  <2>4. o.st = st /\ o.fd = st.s_cache[i].fd
    BY <2>3
  <2>5. o.fd \in FdIds
    BY <1>0, <2>2, <2>4 DEF Layers
  <2>6. o.st.fds[o.fd].path = p
    BY <2>2, <2>4 DEF LayerOK, SlotsOpen
  <2>7. cache_owns(o.st, o.fd)
    BY <2>2, <2>4 DEF cache_owns
  <2> QED BY <2>2, <2>4, <2>5, <2>6, <2>7 DEF Opened
<1>2. CASE Hits(st, p) = {}
  <2>1. \A f \in FdIds : st.fds[f].path # p
    <3> SUFFICES ASSUME NEW f \in FdIds, st.fds[f].path = p PROVE FALSE
      OBVIOUS
    <3>1. PICK i \in SlotIds : st.s_cache[i].fd = f
      BY DEF cache_owns
    <3>2. st.s_cache[i].fd # NoFd
      BY <3>1 DEF FdIds, NoFd
    <3>3. st.s_cache[i].path = p
      BY <3>1, <3>2 DEF LayerOK, SlotsOpen
    <3> QED BY <3>2, <3>3, <1>2 DEF Hits
  <2>2. CASE s.fd = NoFd
    <3>0. NoFd \notin FdIds
      BY DEF FdIds, NoFd
    <3>1. s.st = st
      BY <2>2, <3>0, <1>0, SysOpens
    <3>2. o = s
      BY <1>2, <2>2 DEF cache_open
    <3> QED BY <2>2, <3>1, <3>2 DEF Opened
  <2>3. CASE s.fd # NoFd
    <3>1. /\ s.fd \in FdIds /\ st.fds[s.fd] = Closed /\ s.st \in Layers
          /\ s.st.s_cache = st.s_cache
          /\ s.st.fds = [st.fds EXCEPT ![s.fd] = [path |-> p, moved |-> FALSE]]
      BY <2>3, <1>0, SysOpens
    <3>2. \A f \in FdIds : s.st.fds[f] = IF f = s.fd THEN [path |-> p, moved |-> FALSE]
                                         ELSE st.fds[f]
      BY <1>0, <3>1 DEF Layers
    <3>3. \A i \in SlotIds : st.s_cache[i].fd # s.fd
      <4> SUFFICES ASSUME NEW i \in SlotIds, st.s_cache[i].fd = s.fd PROVE FALSE
        OBVIOUS
      <4>1. st.s_cache[i].path = "closed"
        BY <2>3, <3>1 DEF LayerOK, SlotsOpen, Closed
      <4>2. st.s_cache[i].path \in Files \cup {"none"}
        BY <1>0 DEF Layers
      <4> QED BY <4>1, <4>2, SizesAssumption
    <3>4. SlotsOpen(s.st)
      BY <1>0, <3>1, <3>2, <3>3 DEF SlotsOpen, LayerOK, Layers
    <3>5. OneFdPerFile(s.st)
      BY <2>1, <3>1, <3>2 DEF OneFdPerFile, LayerOK
    <3>6. \A f \in FdIds : s.st.fds[f].path = "closed" => s.st.fds[f] = Closed
      BY <3>2, SizesAssumption DEF LayerOK
    <3>7. LayerOK(s.st)
      BY <3>1, <3>4, <3>5, <3>6 DEF LayerOK
    <3>8. \A f \in FdIds : cache_owns(s.st, f) <=> cache_owns(st, f)
      BY <3>1 DEF cache_owns
    <3>a. /\ s.st.fds[s.fd].path = p
          /\ \A f \in FdIds : f # s.fd => s.st.fds[f] = st.fds[f]
      BY <3>1, <3>2
    <3>9. CASE FreeSlots(st) = {}
      <4>1. o = s
        BY <1>2, <3>9 DEF cache_open
      <4>2. o.fd = s.fd /\ o.st = s.st
        BY <4>1
      <4>3. Opened(st, p, o)
        <5> HIDE DEF o, s
        <5> QED BY <2>3, <3>1, <3>a, <3>7, <3>8, <4>2 DEF Opened
      <4> QED BY <4>3
    <3>10. CASE FreeSlots(st) # {}
      <4> DEFINE j == OneOf(FreeSlots(st))
                 c == [path |-> p, fd |-> s.fd]
      <4>1. j \in SlotIds /\ st.s_cache[j].fd = NoFd
        BY <3>10 DEF OneOf, FreeSlots
      <4>2. o = [s EXCEPT !.st.s_cache[j] = c]
        BY <1>2, <2>3, <3>10 DEF cache_open
      <4>3. s = [st |-> s.st, fd |-> s.fd]
        BY DEF SysOpen
      <4>4. o.fd = s.fd /\ o.st = [s.st EXCEPT !.s_cache[j] = c]
        BY <4>2, <4>3
      <4>12. s.st = [s_cache |-> st.s_cache, fds |-> s.st.fds]
        BY <3>1 DEF Layers
      <4>13. o.st = [s_cache |-> [st.s_cache EXCEPT ![j] = c], fds |-> s.st.fds]
        BY <4>4, <4>12
      <4>14. /\ c \in [path : Files \cup {"none"}, fd : FdIds \cup {NoFd}]
             /\ st.s_cache \in
                  [SlotIds -> [path : Files \cup {"none"}, fd : FdIds \cup {NoFd}]]
             /\ s.st.fds \in [FdIds -> [path : Files \cup {"closed"}, moved : BOOLEAN]]
        BY <1>0, <3>1 DEF Layers
      <4>15. [st.s_cache EXCEPT ![j] = c] \in
                [SlotIds -> [path : Files \cup {"none"}, fd : FdIds \cup {NoFd}]]
        BY <4>14
      <4>5. /\ o.st \in Layers /\ o.st.fds = s.st.fds
            /\ o.st.s_cache = [st.s_cache EXCEPT ![j] = c]
        BY <4>13, <4>14, <4>15 DEF Layers
      <4>6. \A i \in SlotIds : o.st.s_cache[i] = IF i = j THEN c ELSE st.s_cache[i]
        BY <1>0, <4>5 DEF Layers
      <4>7. SlotsOpen(o.st)
        BY <3>1, <3>2, <3>4, <4>5, <4>6 DEF SlotsOpen
      <4>8. OneFdPerFile(o.st)
        BY <3>5, <4>5 DEF OneFdPerFile
      <4>9. LayerOK(o.st)
        BY <3>6, <4>5, <4>7, <4>8 DEF LayerOK
      <4>10. cache_owns(o.st, o.fd)
        BY <4>1, <4>4, <4>6 DEF cache_owns
      <4>11. \A f \in FdIds : cache_owns(st, f) => cache_owns(o.st, f)
        BY <4>1, <4>6 DEF cache_owns, FdIds, NoFd
      <4>16. Opened(st, p, o)
        <5> HIDE DEF o, s
        <5> QED BY <2>3, <3>1, <3>a, <4>4, <4>5, <4>9, <4>10, <4>11 DEF Opened
      <4> QED BY <4>16
    <3> QED BY <3>9, <3>10
  <2> QED BY <2>2, <2>3
<1> QED BY <1>1, <1>2

(* A transfer moves one descriptor's position and changes nothing else. *)
LEMMA Transfers ==
  ASSUME NEW st, LayerOK(st), NEW fd \in FdIds, st.fds[fd].path # "closed"
  PROVE  /\ LayerOK(Transfer(st, fd))
         /\ Transfer(st, fd).s_cache = st.s_cache
         /\ \A f \in FdIds : Transfer(st, fd).fds[f].path = st.fds[f].path
         /\ \A f \in FdIds : f # fd => Transfer(st, fd).fds[f] = st.fds[f]
<1> DEFINE t == Transfer(st, fd)
           Fds == [FdIds -> [path : Files \cup {"closed"}, moved : BOOLEAN]]
<1>1. st \in Layers
  BY DEF LayerOK
<1>2. st = [s_cache |-> st.s_cache, fds |-> st.fds] /\ st.fds \in Fds
  BY <1>1 DEF Layers
<1> DEFINE r == [path |-> st.fds[fd].path, moved |-> TRUE]
<1>3. t = [st EXCEPT !.fds[fd] = r]
  BY DEF Transfer
<1>4. /\ t.s_cache = st.s_cache /\ t.fds = [st.fds EXCEPT ![fd] = r]
      /\ t = [s_cache |-> t.s_cache, fds |-> t.fds]
  BY <1>2, <1>3
<1>6. r \in [path : Files \cup {"closed"}, moved : BOOLEAN]
  BY <1>2
<1>b. DOMAIN st.fds = FdIds
  BY <1>2
<1>c. t.fds[fd] = r
  BY <1>4, <1>b
<1>d. \A f \in FdIds : f # fd => t.fds[f] = st.fds[f]
  BY <1>4, <1>b
<1>e. t.fds[fd].path = st.fds[fd].path
  BY <1>c
<1>7. /\ \A f \in FdIds : t.fds[f].path = st.fds[f].path
      /\ \A f \in FdIds : f # fd => t.fds[f] = st.fds[f]
  BY <1>d, <1>e
<1>8. t.fds \in Fds
  BY <1>2, <1>4, <1>6
<1>9. t \in Layers
  BY <1>1, <1>4, <1>8 DEF Layers
<1>10. SlotsOpen(t)
  BY <1>1, <1>4, <1>7 DEF SlotsOpen, LayerOK, Layers
<1>11. \A f \in FdIds : st.fds[f] = Closed <=> st.fds[f].path = "closed"
  BY DEF LayerOK, Closed
<1>12. \A f \in FdIds : t.fds[f] = Closed => st.fds[f] = Closed
  BY <1>7, <1>11 DEF Closed
<1>13. OneFdPerFile(t)
  <2> SUFFICES ASSUME NEW f \in FdIds, NEW g \in FdIds,
                      t.fds[f] # Closed, t.fds[f].path = t.fds[g].path
               PROVE  f = g
    BY DEF OneFdPerFile
  <2>1. st.fds[f] # Closed
    <3>1. CASE f = fd
      BY <3>1, <1>11
    <3>2. CASE f # fd
      BY <3>2, <1>7
    <3> QED BY <3>1, <3>2
  <2> QED BY <2>1, <1>7 DEF LayerOK, OneFdPerFile
<1>14. \A f \in FdIds : t.fds[f].path = "closed" => t.fds[f] = Closed
  BY <1>7 DEF LayerOK
<1> QED BY <1>4, <1>7, <1>9, <1>10, <1>13, <1>14 DEF LayerOK

(* A close leaves the cache's descriptors and closes any other. *)
LEMMA Closes ==
  ASSUME NEW st, LayerOK(st), NEW fd \in FdIds \cup {NoFd}
  PROVE  /\ LayerOK(file_close(st, fd))
         /\ file_close(st, fd).s_cache = st.s_cache
         /\ \A f \in FdIds : f # fd => file_close(st, fd).fds[f] = st.fds[f]
         /\ fd # NoFd => IF cache_owns(st, fd) THEN file_close(st, fd) = st
                         ELSE file_close(st, fd).fds[fd] = Closed
<1> DEFINE c == file_close(st, fd)
           Fds == [FdIds -> [path : Files \cup {"closed"}, moved : BOOLEAN]]
<1>1. CASE fd = NoFd \/ cache_owns(st, fd)
  BY <1>1 DEF file_close
<1>2. CASE fd # NoFd /\ ~cache_owns(st, fd)
  <2>1. st \in Layers /\ fd \in FdIds
    BY <1>2 DEF LayerOK
  <2>2. st = [s_cache |-> st.s_cache, fds |-> st.fds] /\ st.fds \in Fds
    BY <2>1 DEF Layers
  <2>3. c = [st EXCEPT !.fds[fd] = Closed]
    BY <1>2 DEF file_close
  <2>4. /\ c.s_cache = st.s_cache /\ c.fds = [st.fds EXCEPT ![fd] = Closed]
        /\ c = [s_cache |-> c.s_cache, fds |-> c.fds]
    BY <2>2, <2>3
  <2>5. \A f \in FdIds : c.fds[f] = IF f = fd THEN Closed ELSE st.fds[f]
    BY <2>2, <2>4
  <2>6. Closed \in [path : Files \cup {"closed"}, moved : BOOLEAN]
    BY DEF Closed
  <2>7. c.fds \in Fds
    BY <2>2, <2>4, <2>6
  <2>8. c \in Layers
    BY <2>1, <2>4, <2>7 DEF Layers
  <2>9. SlotsOpen(c)
    BY <1>2, <2>1, <2>4, <2>5 DEF SlotsOpen, LayerOK, Layers, cache_owns
  <2>10. OneFdPerFile(c)
    <3> SUFFICES ASSUME NEW f \in FdIds, NEW g \in FdIds,
                        c.fds[f] # Closed, c.fds[f].path = c.fds[g].path
                 PROVE  f = g
      BY DEF OneFdPerFile
    <3>1. f # fd /\ c.fds[f] = st.fds[f]
      BY <2>5
    <3>2. CASE g = fd
      <4>1. st.fds[f].path = "closed"
        BY <2>5, <3>1, <3>2 DEF Closed
      <4> QED BY <3>1, <4>1 DEF LayerOK
    <3>3. CASE g # fd
      BY <2>5, <3>1, <3>3 DEF LayerOK, OneFdPerFile
    <3> QED BY <3>2, <3>3
  <2>11. \A f \in FdIds : c.fds[f].path = "closed" => c.fds[f] = Closed
    BY <2>5 DEF LayerOK
  <2> QED BY <1>2, <2>1, <2>4, <2>5, <2>8, <2>9, <2>10, <2>11 DEF LayerOK
<1> QED BY <1>1, <1>2

-----------------------------------------------------------------------------
(* The lemmas on calls made together, beside a handle k kept on q.         *)

(* A file that is not the one with the kept handle may be opened. *)
LEMMA Opens ==
  ASSUME NEW st, NEW k, NEW q, Sound(st, k, q),
         NEW p \in Files, k = NoFd \/ p # q
  PROVE  Opened(st, p, cache_open(st, p))
<1>1. \A f \in FdIds : st.fds[f].path = p => cache_owns(st, f)
  <2> SUFFICES ASSUME NEW f \in FdIds, st.fds[f].path = p PROVE cache_owns(st, f)
    OBVIOUS
  <2>1. st.fds[f] # Closed
    BY SizesAssumption DEF Closed
  <2>2. f # k
    BY DEF Sound, FdIds, NoFd
  <2> QED BY <2>1, <2>2 DEF Sound, NoneLeaked
<1> QED BY <1>1, CacheOpens DEF Sound

(* What was opened, and transferred from or not, is closed again, and      *)
(* nothing is left of it but the cache's.                                  *)
LEMMA Returns ==
  ASSUME NEW st, NEW k, NEW q, Sound(st, k, q),
         NEW p \in Files, k = NoFd \/ p # q,
         NEW o, Opened(st, p, o), o.fd # NoFd,
         NEW s, LayerOK(s), s.s_cache = o.st.s_cache,
         \A f \in FdIds : f # o.fd => s.fds[f] = o.st.fds[f],
         o.st = st \/ s.fds[o.fd].path = p,
         s.fds[o.fd].path = o.st.fds[o.fd].path
  PROVE  Sound(file_close(s, o.fd), k, q)
<1> DEFINE c == file_close(s, o.fd)
<1>0. o.fd \in FdIds
  BY DEF Opened
<1>1. /\ LayerOK(c) /\ c.s_cache = s.s_cache
      /\ \A f \in FdIds : f # o.fd => c.fds[f] = s.fds[f]
      /\ IF cache_owns(s, o.fd) THEN c = s ELSE c.fds[o.fd] = Closed
  BY <1>0, Closes
<1>2. \A f \in FdIds : cache_owns(c, f) <=> cache_owns(o.st, f)
  BY <1>1 DEF cache_owns
<1>3. \A f \in FdIds : f # o.fd => c.fds[f] = st.fds[f]
  BY <1>1 DEF Opened
<1>4. NoneLeaked(c, {k})
  <2> SUFFICES ASSUME NEW f \in FdIds, c.fds[f] # Closed
               PROVE  cache_owns(c, f) \/ f = k
    BY DEF NoneLeaked
  <2>1. CASE f = o.fd
    <3>1. cache_owns(s, o.fd)
      BY <1>1, <2>1
    <3> QED BY <3>1, <1>1, <2>1
  <2>2. CASE f # o.fd
    <3>1. cache_owns(st, f) \/ f = k
      BY <1>3, <2>2 DEF Sound, NoneLeaked
    <3> QED BY <3>1, <1>2 DEF Opened
  <2> QED BY <2>1, <2>2
<1>5. ASSUME k # NoFd PROVE k # o.fd /\ c.fds[k].path = q
  <2>0. k \in FdIds /\ q \in Files /\ st.fds[k].path = q /\ p # q
    BY <1>5 DEF Sound
  <2>1. st.fds[k] # Closed
    BY <2>0, SizesAssumption DEF Closed
  <2>2. k # o.fd
    <3> SUFFICES ASSUME k = o.fd PROVE FALSE
      OBVIOUS
    <3>1. o.st = st
      BY <2>1 DEF Opened
    <3> QED BY <3>1, <2>0 DEF Opened
  <2> QED BY <2>0, <2>2, <1>3
<1> QED BY <1>1, <1>4, <1>5 DEF Sound

(* Access() and sd_file_exists() leave the layer in order. *)
LEMMA Accesses ==
  ASSUME NEW st, NEW k, NEW q, Sound(st, k, q),
         NEW p \in Files, k = NoFd \/ p # q
  PROVE  Sound(Access(st, p).st, k, q) /\ Sound(sd_file_exists(st, p).st, k, q)
<1> DEFINE o == cache_open(st, p)
<1>0. Opened(st, p, o)
  BY Opens
<1>1. CASE o.fd = NoFd
  <2>1. o.st = st
    BY <1>0, <1>1 DEF Opened
  <2>2. Access(st, p).st = st
    BY <1>1 DEF Access
  <2>3. sd_file_exists(st, p).st = st
    BY <1>1, <2>1 DEF sd_file_exists, file_close
  <2> QED BY <2>2, <2>3
<1>2. CASE o.fd # NoFd
  <2>1. o.fd \in FdIds /\ LayerOK(o.st) /\ o.st.fds[o.fd].path = p /\ p # "closed"
    BY <1>0, <1>2, SizesAssumption DEF Opened
  <2>2. /\ LayerOK(Transfer(o.st, o.fd))
        /\ Transfer(o.st, o.fd).s_cache = o.st.s_cache
        /\ \A f \in FdIds : Transfer(o.st, o.fd).fds[f].path = o.st.fds[f].path
        /\ \A f \in FdIds : f # o.fd => Transfer(o.st, o.fd).fds[f] = o.st.fds[f]
    <3> HIDE DEF o
    <3> QED BY <2>1, Transfers
  <2>3. Sound(file_close(Transfer(o.st, o.fd), o.fd), k, q)
    <3> HIDE DEF o
    <3> QED BY <1>0, <1>2, <2>1, <2>2, Returns
  <2>4. Sound(file_close(o.st, o.fd), k, q)
    <3> HIDE DEF o
    <3> QED BY <1>0, <1>2, <2>1, Returns
  <2>5. Access(st, p).st = file_close(Transfer(o.st, o.fd), o.fd)
    BY <1>2 DEF Access
  <2>6. sd_file_exists(st, p).st = file_close(o.st, o.fd)
    BY DEF sd_file_exists
  <2> QED BY <2>3, <2>4, <2>5, <2>6
<1> QED BY <1>1, <1>2

(* A header that was read leaves its descriptor open, and the layer in     *)
(* order once that is closed; with no other handle it may also be kept.    *)
LEMMA HeaderReads ==
  ASSUME NEW st, NEW k, NEW q, Sound(st, k, q), NEW eof,
         NEW p \in Files, k = NoFd \/ p # q
  PROVE  /\ Sound(file_close(ReadHeader(st, p, eof).st, ReadHeader(st, p, eof).fd), k, q)
         /\ ReadHeader(st, p, eof).head \in Heads
         /\ ReadHeader(st, p, eof).head = "good" => ReadHeader(st, p, eof).fd # NoFd
         /\ k = NoFd => Sound(ReadHeader(st, p, eof).st, ReadHeader(st, p, eof).fd, p)
<1> DEFINE o == cache_open(st, p)
           h == ReadHeader(st, p, eof)
<1>0. Opened(st, p, o)
  BY Opens
<1>1. CASE o.fd = NoFd
  <2>1. h.st = st /\ h.fd = NoFd /\ h.head = "none"
    BY <1>1 DEF ReadHeader
  <2>2. file_close(h.st, h.fd) = st
    BY <2>1 DEF file_close
  <2>3. k = NoFd => Sound(st, NoFd, p)
    BY DEF Sound
  <2>4. h.head \in Heads /\ (h.head = "good" => h.fd # NoFd)
    BY <2>1 DEF Heads
  <2> QED BY <2>1, <2>2, <2>3, <2>4
<1>2. CASE o.fd # NoFd
  <2> DEFINE t == Transfer(o.st, o.fd)
  <2>1. o.fd \in FdIds /\ LayerOK(o.st) /\ o.st.fds[o.fd].path = p /\ p # "closed"
    BY <1>0, <1>2, SizesAssumption DEF Opened
  <2>2. /\ LayerOK(t) /\ t.s_cache = o.st.s_cache
        /\ \A f \in FdIds : t.fds[f].path = o.st.fds[f].path
        /\ \A f \in FdIds : f # o.fd => t.fds[f] = o.st.fds[f]
    <3> HIDE DEF o
    <3> QED BY <2>1, Transfers
  <2>3. Sound(file_close(t, o.fd), k, q)
    <3> HIDE DEF o, t
    <3> QED BY <1>0, <1>2, <2>1, <2>2, Returns
  <2>4. h = [st |-> t, fd |-> o.fd,
             head |-> IF ~o.st.fds[o.fd].moved THEN "good"
                      ELSE IF eof THEN "none" ELSE "garbage"]
    BY <1>2 DEF ReadHeader
  <2>5. h.st = t /\ h.fd = o.fd /\ h.head \in Heads
    <3> HIDE DEF o, t
    <3> QED BY <2>4 DEF Heads
  <2>6. ASSUME k = NoFd PROVE Sound(t, o.fd, p)
    <3> HIDE DEF o, t
    <3>1. t.fds[o.fd].path = p
      BY <2>1, <2>2
    <3>2. NoneLeaked(t, {o.fd})
      <4> SUFFICES ASSUME NEW f \in FdIds, t.fds[f] # Closed, f # o.fd
                   PROVE  cache_owns(t, f)
        BY DEF NoneLeaked
      <4>1. st.fds[f] # Closed
        BY <1>0, <2>2 DEF Opened
      <4>2. cache_owns(st, f)
        BY <4>1, <2>6 DEF Sound, NoneLeaked, FdIds, NoFd
      <4>3. cache_owns(o.st, f)
        BY <4>2, <1>0 DEF Opened
      <4> QED BY <4>3, <2>2 DEF cache_owns
    <3> QED BY <2>1, <2>2, <3>1, <3>2 DEF Sound
  <2>7. /\ Sound(file_close(h.st, h.fd), k, q)
        /\ h.head \in Heads /\ h.fd # NoFd
        /\ k = NoFd => Sound(h.st, h.fd, p)
    <3> HIDE DEF o, t, h
    <3> QED BY <1>2, <2>3, <2>5, <2>6
  <2> QED BY <2>7
<1> QED BY <1>1, <1>2

-----------------------------------------------------------------------------
(* The disks' state, and the lemmas on the calls that change it.           *)

Contents == [Images -> [Blocks -> 0 .. MaxWrites]]
DriveStates == [Drives -> [fname : D88 \cup Raw \cup {NoImage}, head : Heads]]
TrackBuffers == [fdd : Drives \cup {NoDrive}, track : 0 .. LastBlock,
                 at : Blocks, val : 0 .. MaxWrites, write : BOOLEAN]
States == [layer : Layers, content : Contents, drive : DriveStates,
           d88trk : TrackBuffers, spoilt : SUBSET Images]

(* The layer is in order beside the fixed disk's handle k on its image q,  *)
(* and the track buffer belongs to a drive that holds a D88 image.         *)
StateOK(s, k, q) ==
  /\ s \in States /\ Sound(s.layer, k, q) /\ q \in Hdds \cup {NoImage}
  /\ s.d88trk.fdd # NoDrive => s.drive[s.d88trk.fdd].fname \in D88

(* A floppy image is no fixed disk, and every image is a file. *)
LEMMA ImagesApart ==
  /\ Images \subseteq Files /\ NoImage \notin Files
  /\ D88 \cap Raw = {} /\ Hdds \cap (D88 \cup Raw) = {}
BY SizesAssumption, FilesAssumption DEF NoImage

LEMMA NoTrackIsEmpty == NoTrack \in TrackBuffers /\ NoTrack.fdd = NoDrive
BY FilesAssumption DEF NoTrack, TrackBuffers, Blocks

(* The buffer is empty after a flush, and the drives are as they were. *)
LEMMA Flushes ==
  ASSUME NEW s, NEW k, NEW q, StateOK(s, k, q)
  PROVE  /\ StateOK(d88trk_flushdata(s), k, q)
         /\ d88trk_flushdata(s).drive = s.drive
         /\ d88trk_flushdata(s).d88trk = NoTrack
<1> DEFINE t == d88trk_flushdata(s)
           trk == s.d88trk
           img == s.drive[trk.fdd].fname
           acc == Access(s.layer, img)
<1>1. /\ s = [layer |-> s.layer, content |-> s.content, drive |-> s.drive,
              d88trk |-> s.d88trk, spoilt |-> s.spoilt]
      /\ s.layer \in Layers /\ s.content \in Contents /\ s.drive \in DriveStates
      /\ trk \in TrackBuffers /\ s.spoilt \in SUBSET Images
  BY DEF StateOK, States
<1>2. CASE trk.fdd = NoDrive \/ ~trk.write
  <2>1. t = [s EXCEPT !.d88trk = NoTrack]
    BY <1>2 DEF d88trk_flushdata
  <2>2. t = [layer |-> s.layer, content |-> s.content, drive |-> s.drive,
             d88trk |-> NoTrack, spoilt |-> s.spoilt]
    BY <1>1, <2>1
  <2>3. t \in States
    <3> HIDE DEF t
    <3> QED BY <1>1, <2>2, NoTrackIsEmpty DEF States
  <2>4. t.layer = s.layer /\ t.drive = s.drive /\ t.d88trk = NoTrack
    BY <2>2
  <2>5. StateOK(t, k, q) /\ t.drive = s.drive /\ t.d88trk = NoTrack
    <3> HIDE DEF t
    <3> QED BY <2>3, <2>4, NoTrackIsEmpty DEF StateOK
  <2> QED BY <2>5
<1>3. CASE trk.fdd # NoDrive /\ trk.write
  <2>1. img \in D88 /\ trk.at \in Blocks /\ trk.val \in 0 .. MaxWrites
    BY <1>1, <1>3 DEF StateOK, TrackBuffers
  <2>2. img \in Files /\ img # q /\ img \in Images
    BY <2>1, ImagesApart DEF StateOK, Images
  <2>3. Sound(acc.st, k, q) /\ acc.st \in Layers
    <3>1. Sound(s.layer, k, q)
      BY DEF StateOK
    <3>2. Sound(acc.st, k, q)
      <4> HIDE DEF img
      <4> QED BY <3>1, <2>2, Accesses
    <3> QED BY <3>2 DEF Sound, LayerOK
  <2>4. CASE ~acc.ok
    <3>1. t = [s EXCEPT !.d88trk = NoTrack, !.spoilt = s.spoilt \cup {img}]
      BY <1>3, <2>4 DEF d88trk_flushdata
    <3>2. t = [layer |-> s.layer, content |-> s.content, drive |-> s.drive,
               d88trk |-> NoTrack, spoilt |-> s.spoilt \cup {img}]
      BY <1>1, <3>1
    <3>3. t \in States
      <4> HIDE DEF t, img
      <4> QED BY <1>1, <2>2, <3>2, NoTrackIsEmpty DEF States
    <3>4. t.layer = s.layer /\ t.drive = s.drive /\ t.d88trk = NoTrack
      BY <3>2
    <3>5. StateOK(t, k, q) /\ t.drive = s.drive /\ t.d88trk = NoTrack
      <4> HIDE DEF t
      <4> QED BY <3>3, <3>4, NoTrackIsEmpty DEF StateOK
    <3> QED BY <3>5
  <2>5. CASE acc.ok
    <3> DEFINE c == [s.content EXCEPT ![img][trk.at] = trk.val]
    <3>1. t = [s EXCEPT !.d88trk = NoTrack, !.layer = acc.st,
                        !.content[img][trk.at] = trk.val]
      BY <1>3, <2>5 DEF d88trk_flushdata
    <3>2. t = [layer |-> acc.st, content |-> c, drive |-> s.drive,
               d88trk |-> NoTrack, spoilt |-> s.spoilt]
      <4> HIDE DEF acc, img, trk
      <4> QED BY <1>1, <3>1
    <3>3. c \in Contents
      <4> HIDE DEF img, trk
      <4> QED BY <1>1, <2>1, <2>2 DEF Contents
    <3>4. t \in States
      <4> HIDE DEF t, c, acc
      <4> QED BY <1>1, <2>3, <3>2, <3>3, NoTrackIsEmpty DEF States
    <3>5. t.layer = acc.st /\ t.drive = s.drive /\ t.d88trk = NoTrack
      <4> HIDE DEF acc
      <4> QED BY <3>2
    <3>6. StateOK(t, k, q) /\ t.drive = s.drive /\ t.d88trk = NoTrack
      <4> HIDE DEF t, acc
      <4> QED BY <2>3, <3>4, <3>5, NoTrackIsEmpty DEF StateOK
    <3> QED BY <3>6
  <2> QED BY <2>4, <2>5
<1> QED BY <1>2, <1>3

(* An eject function leaves no buffer that belongs to its drive. *)
LEMMA DrvFlushes ==
  ASSUME NEW s, NEW k, NEW q, StateOK(s, k, q), NEW d \in Drives
  PROVE  /\ StateOK(drvflush(s, d), k, q)
         /\ drvflush(s, d).drive = s.drive
         /\ drvflush(s, d).d88trk.fdd # d
<1>1. d # NoDrive
  BY DEF Drives, NoDrive
<1>2. CASE s.d88trk.fdd = d
  BY <1>1, <1>2, Flushes, NoTrackIsEmpty DEF drvflush
<1>3. CASE s.d88trk.fdd # d
  BY <1>3 DEF drvflush
<1> QED BY <1>2, <1>3

(* A setter leaves the layer in order. *)
LEMMA ImageOpens ==
  ASSUME NEW st, NEW k, NEW q, Sound(st, k, q), q \in Hdds \cup {NoImage},
         NEW img \in D88 \cup Raw, NEW eof
  PROVE  Sound(OpenImage(st, img, eof).st, k, q) /\ OpenImage(st, img, eof).head \in Heads
<1> DEFINE h == ReadHeader(st, img, eof)
           e == sd_file_exists(st, img)
<1>1. img \in Files /\ img # q
  BY ImagesApart DEF Images
<1>2. Sound(file_close(h.st, h.fd), k, q) /\ h.head \in Heads
  BY <1>1, HeaderReads
<1>3. Sound(e.st, k, q)
  BY <1>1, Accesses
<1>4. CASE img \in D88
  <2>1. OpenImage(st, img, eof) = [st |-> file_close(h.st, h.fd), head |-> h.head]
    BY <1>4 DEF OpenImage
  <2> QED
    <3> HIDE DEF h
    <3> QED BY <1>2, <2>1
<1>5. CASE img \notin D88
  <2>1. OpenImage(st, img, eof) = [st |-> e.st, head |-> IF e.ok THEN "good" ELSE "none"]
    BY <1>5 DEF OpenImage
  <2> QED
    <3> HIDE DEF e
    <3> QED BY <1>3, <2>1 DEF Heads
<1> QED BY <1>4, <1>5

(* An image goes into a drive, or the drive keeps what it has. *)
LEMMA FddSets ==
  ASSUME NEW s, NEW k, NEW q, StateOK(s, k, q), NEW d \in Drives,
         NEW img \in D88 \cup Raw, NEW eof
  PROVE  StateOK(fdd_set(s, d, img, eof), k, q)
<1> DEFINE f == drvflush(s, d)
           o == OpenImage(f.layer, img, eof)
           g == [f EXCEPT !.layer = o.st]
           n == fdd_set(s, d, img, eof)
<1>1. /\ StateOK(f, k, q) /\ f.drive = s.drive /\ f.d88trk.fdd # d
  BY DrvFlushes
<1>2. Sound(o.st, k, q) /\ o.head \in Heads
  <2>1. Sound(f.layer, k, q) /\ q \in Hdds \cup {NoImage}
    BY <1>1 DEF StateOK
  <2> QED
    <3> HIDE DEF f
    <3> QED BY <2>1, ImageOpens
<1>3. /\ f = [layer |-> f.layer, content |-> f.content, drive |-> f.drive,
              d88trk |-> f.d88trk, spoilt |-> f.spoilt]
      /\ f.layer \in Layers /\ f.content \in Contents /\ f.drive \in DriveStates
      /\ f.d88trk \in TrackBuffers /\ f.spoilt \in SUBSET Images
  <2> HIDE DEF f
  <2> QED BY <1>1 DEF StateOK, States
<1>4. g = [layer |-> o.st, content |-> f.content, drive |-> f.drive,
           d88trk |-> f.d88trk, spoilt |-> f.spoilt]
  <2> HIDE DEF f, o
  <2> QED BY <1>3
<1>5. o.st \in Layers
  BY <1>2 DEF Sound, LayerOK
<1>6. StateOK(g, k, q)
  <2> HIDE DEF f, o
  <2>1. g \in States
    BY <1>3, <1>4, <1>5 DEF States
  <2>2. g.layer = o.st /\ g.drive = f.drive /\ g.d88trk = f.d88trk
    BY <1>4
  <2>3. f.d88trk.fdd # NoDrive => f.drive[f.d88trk.fdd].fname \in D88
    BY <1>1 DEF StateOK
  <2>4. q \in Hdds \cup {NoImage}
    BY <1>1 DEF StateOK
  <2> HIDE DEF g
  <2> QED BY <1>2, <2>1, <2>2, <2>3, <2>4 DEF StateOK
<1>7. CASE o.head = "none"
  <2>1. n = g
    BY <1>7 DEF fdd_set
  <2> QED
    <3> HIDE DEF g
    <3> QED BY <1>6, <2>1
<1>8. CASE o.head # "none"
  <2> DEFINE r == [fname |-> img, head |-> o.head]
             dr == [f.drive EXCEPT ![d] = r]
             sp == IF o.head = "good" THEN f.spoilt ELSE f.spoilt \cup {img}
  <2>1. n = [g EXCEPT !.drive[d] = r,
                      !.spoilt = IF o.head = "good" THEN @ ELSE @ \cup {img}]
    BY <1>8 DEF fdd_set
  <2>2. n = [layer |-> o.st, content |-> f.content, drive |-> dr,
             d88trk |-> f.d88trk, spoilt |-> sp]
    <3> HIDE DEF f, o, n, r
    <3> QED BY <2>1, <1>4
  <2>3. r \in [fname : D88 \cup Raw \cup {NoImage}, head : Heads]
    <3> HIDE DEF o
    <3> QED BY <1>2
  <2>4. dr \in DriveStates /\ sp \in SUBSET Images
    <3> HIDE DEF f, o, r
    <3> QED BY <1>3, <2>3 DEF DriveStates, Images
  <2>5. n \in States /\ n.layer = o.st /\ n.drive = dr /\ n.d88trk = f.d88trk
    <3> HIDE DEF f, o, n, dr, sp
    <3> QED BY <1>3, <1>5, <2>2, <2>4 DEF States
  <2>6. ASSUME f.d88trk.fdd # NoDrive PROVE dr[f.d88trk.fdd].fname \in D88
    <3> HIDE DEF f, o, r
    <3>1. dr[f.d88trk.fdd] = f.drive[f.d88trk.fdd]
      BY <1>1, <1>3, <2>6 DEF DriveStates, TrackBuffers
    <3> QED BY <3>1, <1>1, <2>6 DEF StateOK
  <2>7. q \in Hdds \cup {NoImage}
    BY <1>1 DEF StateOK
  <2>8. StateOK(n, k, q)
    <3> HIDE DEF f, o, n, dr
    <3> QED BY <1>2, <2>5, <2>6, <2>7 DEF StateOK
  <2> QED BY <2>8
<1> QED BY <1>7, <1>8

-----------------------------------------------------------------------------
(* The inductive invariant: the types, a layer in order beside the fixed   *)
(* disk's handle, and a track buffer that belongs to a D88 drive.          *)
Rest ==
  /\ pc \in {"off", "run", "menu"} /\ written \in Contents
  /\ hdd \in [path : Hdds \cup {NoImage}, hdl : FdIds \cup {NoFd}]
  /\ nvs \in [fdd0 : D88 \cup Raw \cup {NoImage},
              fdd1 : D88 \cup Raw \cup {NoImage}, hdd : Hdds \cup {NoImage}]
  /\ writes \in 0 .. MaxWrites /\ misread \in BOOLEAN

Inv == Rest /\ StateOK(State, hdd.hdl, hdd.path)

(* The state that follows is the one that an operator gave. *)
LEMMA StateBecomes ==
  ASSUME NEW STATE s, s \in States, Becomes(s)
  PROVE  State' = s
<1>1. s = [layer |-> s.layer, content |-> s.content, drive |-> s.drive,
           d88trk |-> s.d88trk, spoilt |-> s.spoilt]
  BY DEF States
<1> QED BY <1>1 DEF Becomes, State

(* After a seek the buffer is empty or the drive's own. *)
LEMMA TrkSeeks ==
  ASSUME NEW k, NEW q, StateOK(State, k, q), NEW d \in Drives, D88Drive(d),
         NEW t \in Tracks, NEW b \in Blocks
  PROVE  /\ StateOK(trkseek(d, t, b), k, q)
         /\ trkseek(d, t, b).d88trk.fdd \in {d, NoDrive}
         /\ trkseek(d, t, b).drive = drive
<1> DEFINE f == d88trk_flushdata(State)
           img == drive[d].fname
           acc == Access(f.layer, img)
           s == trkseek(d, t, b)
<1>0. State.drive = drive /\ State.d88trk = d88trk
  BY DEF State
<1>1. StateOK(f, k, q) /\ f.drive = drive /\ f.d88trk = NoTrack
  BY <1>0, Flushes
<1>2. CASE Buffered(d, t)
  <2>1. s = State
    BY <1>2 DEF trkseek
  <2> QED BY <1>0, <1>2, <2>1 DEF Buffered
<1>3. CASE ~Buffered(d, t) /\ ~acc.ok
  <2>1. s = f
    BY <1>3 DEF trkseek
  <2>2. StateOK(s, k, q) /\ s.d88trk.fdd \in {d, NoDrive} /\ s.drive = drive
    <3> HIDE DEF f, s
    <3> QED BY <1>1, <2>1, NoTrackIsEmpty
  <2> QED BY <2>2
<1>4. CASE ~Buffered(d, t) /\ acc.ok
  <2> DEFINE trk == [fdd |-> d, track |-> t, at |-> b,
                     val |-> f.content[img][b], write |-> FALSE]
  <2>1. s = [f EXCEPT !.layer = acc.st, !.d88trk = trk]
    BY <1>4 DEF trkseek
  <2>2. /\ f = [layer |-> f.layer, content |-> f.content, drive |-> f.drive,
                d88trk |-> f.d88trk, spoilt |-> f.spoilt]
        /\ f.layer \in Layers /\ f.content \in Contents /\ f.drive \in DriveStates
        /\ f.spoilt \in SUBSET Images
    <3> HIDE DEF f
    <3> QED BY <1>1 DEF StateOK, States
  <2>3. s = [layer |-> acc.st, content |-> f.content, drive |-> f.drive,
             d88trk |-> trk, spoilt |-> f.spoilt]
    <3> HIDE DEF f, acc, trk
    <3> QED BY <2>1, <2>2
  <2>4. img \in D88 /\ img \in Files /\ img \in Images /\ img # q
    BY ImagesApart DEF D88Drive, StateOK, Images
  <2>5. Sound(f.layer, k, q) /\ q \in Hdds \cup {NoImage}
    <3> HIDE DEF f
    <3> QED BY <1>1 DEF StateOK
  <2>6. Sound(acc.st, k, q) /\ acc.st \in Layers
    <3>1. Sound(acc.st, k, q)
      <4> HIDE DEF f, img
      <4> QED BY <2>4, <2>5, Accesses
    <3> QED BY <3>1 DEF Sound, LayerOK
  <2>7. trk \in TrackBuffers
    <3>1. f.content[img][b] \in 0 .. MaxWrites
      <4> HIDE DEF f, img
      <4> QED BY <2>2, <2>4 DEF Contents
    <3>2. t \in 0 .. LastBlock
      BY FilesAssumption DEF Tracks
    <3> HIDE DEF f, img
    <3> QED BY <3>1, <3>2 DEF TrackBuffers
  <2>8. s \in States /\ s.layer = acc.st /\ s.drive = f.drive /\ s.d88trk = trk
    <3> HIDE DEF f, acc, trk, s
    <3> QED BY <2>2, <2>3, <2>6, <2>7 DEF States
  <2>9. s.drive[d].fname \in D88 /\ s.d88trk.fdd = d /\ s.drive = drive
    <3> HIDE DEF s, f
    <3> QED BY <2>4, <2>8, <1>1
  <2>10. StateOK(s, k, q)
    <3> HIDE DEF s, f, acc
    <3> QED BY <2>5, <2>6, <2>8, <2>9 DEF StateOK
  <2>11. StateOK(s, k, q) /\ s.d88trk.fdd \in {d, NoDrive} /\ s.drive = drive
    <3> HIDE DEF s
    <3> QED BY <2>9, <2>10
  <2> QED BY <2>11
<1> QED BY <1>2, <1>3, <1>4

(* Closing the fixed disk leaves no handle. *)
LEMMA HddCloses ==
  ASSUME NEW st, NEW k, NEW q, Sound(st, k, q), NEW r
  PROVE  Sound(file_close(st, k), NoFd, r)
<1> DEFINE c == file_close(st, k)
<1>1. /\ LayerOK(c) /\ c.s_cache = st.s_cache
      /\ \A f \in FdIds : f # k => c.fds[f] = st.fds[f]
      /\ k # NoFd => IF cache_owns(st, k) THEN c = st ELSE c.fds[k] = Closed
  BY Closes DEF Sound
<1>2. NoneLeaked(c, {NoFd})
  <2> HIDE DEF c
  <2> SUFFICES ASSUME NEW f \in FdIds, c.fds[f] # Closed PROVE cache_owns(c, f)
    BY DEF NoneLeaked
  <2>1. f # NoFd
    BY DEF FdIds, NoFd
  <2>2. cache_owns(st, f)
    BY <1>1, <2>1 DEF Sound, NoneLeaked
  <2> QED BY <1>1, <2>2 DEF cache_owns
<1> QED BY <1>1, <1>2 DEF Sound

(* Binding a fixed disk keeps its handle, open on its image, or none. *)
LEMMA HddBinds ==
  ASSUME NEW st, NEW r, Sound(st, NoFd, r), NEW img \in Hdds \cup {NoImage}
  PROVE  /\ Sound(hddbind(st, img).st, hddbind(st, img).hdl, img)
         /\ hddbind(st, img).hdl \in FdIds \cup {NoFd}
<1> DEFINE h == ReadHeader(st, img, FALSE)
           n == hddbind(st, img)
<1>1. CASE img = NoImage
  <2>1. n.st = st /\ n.hdl = NoFd
    BY <1>1 DEF hddbind
  <2>2. Sound(st, NoFd, img)
    BY DEF Sound
  <2>3. Sound(n.st, n.hdl, img) /\ n.hdl \in FdIds \cup {NoFd}
    <3> HIDE DEF n
    <3> QED BY <2>1, <2>2
  <2> QED BY <2>3
<1>2. CASE img # NoImage
  <2>1. img \in Files
    BY <1>2, ImagesApart DEF Images
  <2>2. /\ Sound(file_close(h.st, h.fd), NoFd, r)
        /\ Sound(h.st, h.fd, img)
    BY <2>1, HeaderReads
  <2>3. Sound(file_close(h.st, h.fd), NoFd, img)
    <3> HIDE DEF h
    <3> QED BY <2>2, HddCloses
  <2>4. \/ n.st = h.st /\ n.hdl = h.fd
        \/ n.st = file_close(h.st, h.fd) /\ n.hdl = NoFd
    BY <1>2 DEF hddbind
  <2>5. Sound(n.st, n.hdl, img)
    <3> HIDE DEF n, h
    <3> QED BY <2>2, <2>3, <2>4
  <2>6. n.hdl \in FdIds \cup {NoFd}
    <3> HIDE DEF n
    <3> QED BY <2>5 DEF Sound
  <2> QED BY <2>5, <2>6
<1> QED BY <1>1, <1>2

(* dosio_init() leaves everything closed. *)
LEMMA InitSound ==
  ASSUME NEW r
  PROVE  Sound(dosio_init, NoFd, r)
<1> DEFINE st == dosio_init
<1>1. /\ st.s_cache = [i \in SlotIds |-> [path |-> "none", fd |-> NoFd]]
      /\ st.fds = [f \in FdIds |-> Closed]
  BY DEF dosio_init
<1>2. st \in Layers
  BY DEF dosio_init, Layers, Closed
<1>3. \A i \in SlotIds : st.s_cache[i].fd = NoFd
  BY <1>1
<1>4. \A f \in FdIds : st.fds[f] = Closed
  BY <1>1
<1> HIDE DEF st
<1>5. SlotsOpen(st)
  BY <1>3 DEF SlotsOpen
<1>6. OneFdPerFile(st)
  BY <1>4 DEF OneFdPerFile
<1>7. NoneLeaked(st, {NoFd})
  BY <1>4 DEF NoneLeaked
<1>8. LayerOK(st)
  BY <1>2, <1>4, <1>5, <1>6 DEF LayerOK
<1>9. Sound(st, NoFd, r)
  BY <1>7, <1>8 DEF Sound
<1> QED BY <1>9 DEF st

(* A look at a file that is not the fixed disk's. *)
LEMMA ExistsSound ==
  ASSUME NEW st, NEW k, NEW q, Sound(st, k, q),
         NEW img \in Files \cup {NoImage}, k = NoFd \/ img # q
  PROVE  Sound(Exists(st, img), k, q)
<1>1. CASE img = NoImage
  BY <1>1 DEF Exists
<1>2. CASE img # NoImage
  BY <1>2, Accesses DEF Exists
<1> QED BY <1>1, <1>2

(* Another layer in order keeps the state in order. *)
LEMMA LayerChanges ==
  ASSUME NEW s, NEW k, NEW q, StateOK(s, k, q), NEW l, Sound(l, k, q)
  PROVE  StateOK([s EXCEPT !.layer = l], k, q)
<1> DEFINE n == [s EXCEPT !.layer = l]
<1>1. /\ s = [layer |-> s.layer, content |-> s.content, drive |-> s.drive,
              d88trk |-> s.d88trk, spoilt |-> s.spoilt]
      /\ s.content \in Contents /\ s.drive \in DriveStates
      /\ s.d88trk \in TrackBuffers /\ s.spoilt \in SUBSET Images
  BY DEF StateOK, States
<1>2. n = [layer |-> l, content |-> s.content, drive |-> s.drive,
           d88trk |-> s.d88trk, spoilt |-> s.spoilt]
  BY <1>1
<1>3. l \in Layers
  BY DEF Sound, LayerOK
<1>4. n \in States /\ n.layer = l /\ n.drive = s.drive /\ n.d88trk = s.d88trk
  <2> HIDE DEF n
  <2> QED BY <1>1, <1>2, <1>3 DEF States
<1>5. StateOK(n, k, q)
  <2> HIDE DEF n
  <2> QED BY <1>4 DEF StateOK
<1> QED BY <1>5

(* The mount of a saved floppy. *)
LEMMA Mounting ==
  ASSUME NEW s, NEW k, NEW q, StateOK(s, k, q), NEW d \in Drives,
         NEW img \in D88 \cup Raw \cup {NoImage}, NEW eof
  PROVE  StateOK(Mount(s, d, img, eof), k, q)
<1>1. CASE img = NoImage
  BY <1>1 DEF Mount
<1>2. CASE img # NoImage
  <2> DEFINE n == [s EXCEPT !.layer = Exists(s.layer, img)]
  <2>1. img \in Files /\ img # q
    BY <1>2, ImagesApart DEF Images, StateOK
  <2>2. Sound(Exists(s.layer, img), k, q)
    BY <2>1, ExistsSound DEF StateOK
  <2>3. StateOK(n, k, q)
    BY <2>2, LayerChanges
  <2>4. Mount(s, d, img, eof) = fdd_set(n, d, img, eof)
    BY <1>2 DEF Mount
  <2> QED
    <3> HIDE DEF n
    <3> QED BY <1>2, <2>3, <2>4, FddSets
<1> QED BY <1>1, <1>2

-----------------------------------------------------------------------------
(* The steps.                                                              *)

LEMMA InitInv == Init => Inv
<1> SUFFICES ASSUME Init PROVE Inv
  OBVIOUS
<1>1. Untouched \in Contents
  BY FilesAssumption DEF Untouched, Contents, Blocks
<1>2. drive \in DriveStates
  BY DEF Init, DriveStates, EmptyDrive, Heads
<1>3. Sound(layer, NoFd, NoImage)
  BY InitSound DEF Init
<1>4. layer \in Layers
  BY <1>3 DEF Sound, LayerOK
<1>5. State \in States
  BY <1>1, <1>2, <1>4, NoTrackIsEmpty DEF Init, State, States
<1>6. State.layer = layer /\ State.d88trk = NoTrack
  BY DEF State, Init
<1>7. StateOK(State, NoFd, NoImage)
  <2> HIDE DEF Init
  <2> QED BY <1>3, <1>5, <1>6, NoTrackIsEmpty DEF StateOK
<1>8. hdd = NoHdd /\ hdd.hdl = NoFd /\ hdd.path = NoImage
  BY DEF Init, NoHdd
<1>9. Rest
  <2>1. pc \in {"off", "run", "menu"} /\ written \in Contents
    BY <1>1 DEF Init
  <2>2. hdd \in [path : Hdds \cup {NoImage}, hdl : FdIds \cup {NoFd}]
    BY DEF Init, NoHdd
  <2>3. nvs \in [fdd0 : D88 \cup Raw \cup {NoImage},
                 fdd1 : D88 \cup Raw \cup {NoImage}, hdd : Hdds \cup {NoImage}]
    BY DEF Init, NoMounts
  <2>4. writes \in 0 .. MaxWrites
    BY FilesAssumption DEF Init
  <2>5. misread \in BOOLEAN
    BY Zenon DEF Init
  <2> QED BY <2>1, <2>2, <2>3, <2>4, <2>5 DEF Rest
<1> QED BY <1>7, <1>8, <1>9 DEF Inv

(* A step that leaves the fixed disk alone and takes the disks to a state  *)
(* in order. *)
LEMMA DiskStep ==
  ASSUME Inv, NEW STATE s, StateOK(s, hdd.hdl, hdd.path), Becomes(s),
         UNCHANGED hdd, Rest'
  PROVE  Inv'
<1>1. State' = s
  BY StateBecomes DEF StateOK
<1>2. StateOK(State, hdd.hdl, hdd.path)' <=> StateOK(s, hdd.hdl, hdd.path)
  BY <1>1 DEF StateOK
<1> QED BY <1>2 DEF Inv

LEMMA ReadD88Step ==
  ASSUME Inv, NEW d \in Drives, NEW t \in Tracks, fdd_read_d88(d, t)
  PROVE  Inv'
<1>1. PICK b \in Places(d, t) :
        LET s == trkseek(d, t, b) IN
          /\ Becomes(s)
          /\ IF s.d88trk.fdd = NoDrive THEN UNCHANGED misread
             ELSE Answer(drive[d].fname, s.d88trk.val, t)
  BY DEF fdd_read_d88
<1> DEFINE s == trkseek(d, t, b)
<1>2. b \in Blocks
  BY FilesAssumption DEF Places, Tracks, Blocks
<1>3. StateOK(s, hdd.hdl, hdd.path)
  BY <1>2, TrkSeeks DEF Inv, fdd_read_d88
<1>4. Becomes(s)
  BY <1>1
<1>5. misread' \in BOOLEAN
  BY <1>1, Zenon DEF Answer, Inv, Rest
<1>6. Rest' /\ UNCHANGED hdd
  BY <1>5 DEF fdd_read_d88, Inv, Rest, Contents, Images, Blocks
<1> QED
  <2> HIDE DEF s
  <2> QED BY <1>3, <1>4, <1>6, DiskStep

LEMMA WriteD88Step ==
  ASSUME Inv, NEW d \in Drives, NEW t \in Tracks, fdd_write_d88(d, t)
  PROVE  Inv'
<1>1. PICK b \in Places(d, t) :
        LET s == trkseek(d, t, b) IN
          IF s.d88trk.fdd = NoDrive
            THEN Becomes(s) /\ UNCHANGED <<writes, written>>
            ELSE /\ Becomes([s EXCEPT !.d88trk = [s.d88trk EXCEPT
                                        !.val = writes + 1, !.write = TRUE]])
                 /\ writes' = writes + 1
                 /\ written' = [written EXCEPT ![drive[d].fname][t] = writes + 1]
  BY DEF fdd_write_d88
<1> DEFINE s == trkseek(d, t, b)
           w == [s.d88trk EXCEPT !.val = writes + 1, !.write = TRUE]
           n == [s EXCEPT !.d88trk = w]
<1>2. b \in Blocks
  BY FilesAssumption DEF Places, Tracks, Blocks
<1>3. /\ StateOK(s, hdd.hdl, hdd.path)
      /\ s.d88trk.fdd \in {d, NoDrive}
      /\ s.drive = drive
  BY <1>2, TrkSeeks DEF Inv, fdd_write_d88
<1>4. UNCHANGED <<pc, hdd, nvs, misread>> /\ writes < MaxWrites
  BY DEF fdd_write_d88
<1>5. CASE s.d88trk.fdd = NoDrive
  <2>1. Becomes(s) /\ UNCHANGED <<writes, written>>
    BY <1>1, <1>5
  <2>2. Rest'
    BY <2>1, <1>4 DEF Inv, Rest, Contents, Images, Blocks
  <2> QED
    <3> HIDE DEF s
    <3> QED BY <1>3, <1>4, <2>1, <2>2, DiskStep
<1>6. CASE s.d88trk.fdd # NoDrive
  <2>1. /\ Becomes(n) /\ writes' = writes + 1
        /\ written' = [written EXCEPT ![drive[d].fname][t] = writes + 1]
    BY <1>1, <1>6
  <2>2. writes' \in 0 .. MaxWrites
    BY <2>1, <1>4, FilesAssumption DEF Inv, Rest
  <2>3. written' \in Contents
    BY <2>1, <2>2 DEF Inv, Rest, Contents
  <2>4. Rest'
    BY <1>4, <2>2, <2>3 DEF Inv, Rest, Contents, Images, Blocks
  <2>5. StateOK(n, hdd.hdl, hdd.path)
    <3>1. /\ s = [layer |-> s.layer, content |-> s.content, drive |-> s.drive,
                  d88trk |-> s.d88trk, spoilt |-> s.spoilt]
          /\ s.layer \in Layers /\ s.content \in Contents /\ s.drive \in DriveStates
          /\ s.d88trk \in TrackBuffers /\ s.spoilt \in SUBSET Images
      <4> HIDE DEF s
      <4> QED BY <1>3 DEF StateOK, States
    <3>2. n = [layer |-> s.layer, content |-> s.content, drive |-> s.drive,
               d88trk |-> w, spoilt |-> s.spoilt]
      <4> HIDE DEF s, w
      <4> QED BY <3>1
    <3>3. w \in TrackBuffers /\ w.fdd = s.d88trk.fdd
      <4> HIDE DEF s
      <4> QED BY <3>1, <2>1, <2>2 DEF TrackBuffers
    <3>4. /\ n \in States /\ n.layer = s.layer /\ n.drive = s.drive
          /\ n.d88trk.fdd = s.d88trk.fdd
      <4> HIDE DEF s, n, w
      <4> QED BY <3>1, <3>2, <3>3 DEF States
    <3> HIDE DEF s, n
    <3> QED BY <1>3, <3>4 DEF StateOK
  <2> QED
    <3> HIDE DEF n
    <3> QED BY <1>4, <2>1, <2>4, <2>5, DiskStep
<1> QED BY <1>5, <1>6

(* A step described variable by variable. *)
LEMMA PartStep ==
  ASSUME layer' \in Layers, content' \in Contents, drive' \in DriveStates,
         d88trk' \in TrackBuffers, spoilt' \in SUBSET Images,
         Sound(layer', hdd'.hdl, hdd'.path), Rest',
         d88trk'.fdd # NoDrive => drive'[d88trk'.fdd].fname \in D88
  PROVE  Inv'
<1>1. hdd'.path \in Hdds \cup {NoImage}
  BY DEF Rest
<1>2. State' = [layer |-> layer', content |-> content', drive |-> drive',
                d88trk |-> d88trk', spoilt |-> spoilt']
  BY DEF State
<1>3. State' \in States
  BY <1>2 DEF States
<1>4. StateOK(State', hdd'.hdl, hdd'.path)
  BY <1>1, <1>2, <1>3 DEF StateOK
<1> QED BY <1>4 DEF Inv, StateOK, State

(* The invariant, variable by variable. *)
LEMMA InvParts ==
  ASSUME Inv
  PROVE  /\ layer \in Layers /\ content \in Contents /\ drive \in DriveStates
         /\ d88trk \in TrackBuffers /\ spoilt \in SUBSET Images
         /\ Sound(layer, hdd.hdl, hdd.path) /\ Rest
         /\ hdd.path \in Hdds \cup {NoImage} /\ hdd.hdl \in FdIds \cup {NoFd}
         /\ d88trk.fdd # NoDrive => drive[d88trk.fdd].fname \in D88
<1>1. State = [layer |-> layer, content |-> content, drive |-> drive,
               d88trk |-> d88trk, spoilt |-> spoilt]
  BY DEF State
<1>2. State \in States /\ Sound(State.layer, hdd.hdl, hdd.path)
  BY DEF Inv, StateOK
<1>3. /\ layer \in Layers /\ content \in Contents /\ drive \in DriveStates
      /\ d88trk \in TrackBuffers /\ spoilt \in SUBSET Images
  BY <1>1, <1>2 DEF States
<1>4. Sound(layer, hdd.hdl, hdd.path)
  BY <1>1, <1>2
<1>5. d88trk.fdd # NoDrive => drive[d88trk.fdd].fname \in D88
  BY <1>1 DEF Inv, StateOK
<1>6. hdd.path \in Hdds \cup {NoImage} /\ hdd.hdl \in FdIds \cup {NoFd}
  BY DEF Inv, Rest
<1> QED BY <1>3, <1>4, <1>5, <1>6 DEF Inv

LEMMA ReadXdfStep ==
  ASSUME Inv, NEW d \in Drives, NEW b \in Tracks, fdd_read_xdf(d, b)
  PROVE  Inv'
<1> DEFINE img == drive[d].fname
           acc == Access(layer, img)
<1>1. /\ layer' = acc.st /\ UNCHANGED <<pc, disks, hdd, nvs, writes, written>>
      /\ img \in Raw
      /\ IF acc.ok THEN Answer(img, content[img][b], b) ELSE UNCHANGED misread
  BY DEF fdd_read_xdf, RawDrive
<1>2. img \in Files /\ img # hdd.path
  BY <1>1, InvParts, ImagesApart DEF Images
<1>3. Sound(layer', hdd.hdl, hdd.path)
  <2> HIDE DEF img
  <2> QED BY <1>1, <1>2, InvParts, Accesses
<1>4. misread' \in BOOLEAN
  BY <1>1, Zenon DEF Answer, Inv, Rest
<1>5. Rest'
  BY <1>1, <1>4 DEF Inv, Rest, Contents, Images, Blocks
<1> QED BY <1>1, <1>3, <1>5, InvParts, PartStep DEF disks, Sound, LayerOK

LEMMA WriteXdfStep ==
  ASSUME Inv, NEW d \in Drives, NEW b \in Tracks, fdd_write_xdf(d, b)
  PROVE  Inv'
<1> DEFINE img == drive[d].fname
           acc == Access(layer, img)
<1>1. /\ layer' = acc.st
      /\ UNCHANGED <<pc, drive, d88trk, spoilt, hdd, nvs, misread>>
      /\ img \in Raw /\ writes < MaxWrites
      /\ \/ /\ content' = [content EXCEPT ![img][b] = writes + 1]
            /\ written' = [written EXCEPT ![img][b] = writes + 1]
            /\ writes' = writes + 1
         \/ UNCHANGED <<content, written, writes>>
  BY DEF fdd_write_xdf, RawDrive
<1>2. img \in Files /\ img # hdd.path
  BY <1>1, InvParts, ImagesApart DEF Images
<1>3. Sound(layer', hdd.hdl, hdd.path)
  <2> HIDE DEF img
  <2> QED BY <1>1, <1>2, InvParts, Accesses
<1>4. writes' \in 0 .. MaxWrites /\ content' \in Contents /\ written' \in Contents
  <2>1. writes + 1 \in 0 .. MaxWrites /\ writes \in 0 .. MaxWrites
    BY <1>1, FilesAssumption DEF Inv, Rest
  <2>2. content \in Contents /\ written \in Contents
    BY InvParts DEF Inv, Rest
  <2>3. CASE UNCHANGED <<content, written, writes>>
    BY <2>1, <2>2, <2>3
  <2>4. CASE /\ content' = [content EXCEPT ![img][b] = writes + 1]
             /\ written' = [written EXCEPT ![img][b] = writes + 1]
             /\ writes' = writes + 1
    <3> HIDE DEF img
    <3> QED BY <2>1, <2>2, <2>4 DEF Contents
  <2> QED BY <1>1, <2>3, <2>4
<1>5. Rest'
  BY <1>1, <1>4 DEF Inv, Rest, Contents, Images, Blocks
<1> QED BY <1>1, <1>3, <1>4, <1>5, InvParts, PartStep DEF Sound, LayerOK

(* An access through the fixed disk's handle. *)
LEMMA HddTransfers ==
  ASSUME Inv, hdd.hdl # NoFd
  PROVE  /\ Sound(Transfer(layer, hdd.hdl), hdd.hdl, hdd.path)
         /\ layer.fds[hdd.hdl].path = hdd.path /\ hdd.path \in Hdds
<1> DEFINE t == Transfer(layer, hdd.hdl)
<1>1. /\ Sound(layer, hdd.hdl, hdd.path) /\ hdd.hdl \in FdIds
      /\ layer.fds[hdd.hdl].path = hdd.path /\ hdd.path \in Files
      /\ hdd.path # "closed"
  BY InvParts, SizesAssumption DEF Sound
<1>2. hdd.path \in Hdds
  BY <1>1, InvParts, ImagesApart
<1>3. /\ LayerOK(t) /\ t.s_cache = layer.s_cache
      /\ \A f \in FdIds : t.fds[f].path = layer.fds[f].path
      /\ \A f \in FdIds : f # hdd.hdl => t.fds[f] = layer.fds[f]
  BY <1>1, Transfers DEF Sound
<1>4. NoneLeaked(t, {hdd.hdl})
  <2> HIDE DEF t
  <2> SUFFICES ASSUME NEW f \in FdIds, t.fds[f] # Closed, f # hdd.hdl
               PROVE  cache_owns(t, f)
    BY DEF NoneLeaked
  <2>1. cache_owns(layer, f)
    BY <1>1, <1>3 DEF Sound, NoneLeaked
  <2> QED BY <2>1, <1>3 DEF cache_owns
<1>5. Sound(t, hdd.hdl, hdd.path)
  <2> HIDE DEF t
  <2> QED BY <1>1, <1>3, <1>4 DEF Sound
<1> QED BY <1>1, <1>2, <1>5

LEMMA HddReadStep ==
  ASSUME Inv, NEW b \in Tracks, hdd_read(b)
  PROVE  Inv'
<1>1. /\ layer' = Transfer(layer, hdd.hdl) /\ hdd.hdl # NoFd
      /\ UNCHANGED <<pc, disks, hdd, nvs, writes, written>>
  BY DEF hdd_read
<1>2. misread' \in BOOLEAN
  BY Zenon DEF hdd_read, Answer
<1>3. Rest'
  BY <1>1, <1>2 DEF Inv, Rest, Contents, Images, Blocks
<1>4. Sound(layer', hdd.hdl, hdd.path)
  BY <1>1, HddTransfers
<1> QED BY <1>1, <1>3, <1>4, InvParts, PartStep DEF disks, Sound, LayerOK

LEMMA HddWriteStep ==
  ASSUME Inv, NEW b \in Tracks, hdd_write(b)
  PROVE  Inv'
<1>1. /\ layer' = Transfer(layer, hdd.hdl) /\ hdd.hdl # NoFd
      /\ writes < MaxWrites /\ writes' = writes + 1
      /\ content' = [content EXCEPT ![layer.fds[hdd.hdl].path][b] = writes + 1]
      /\ written' = [written EXCEPT ![hdd.path][b] = writes + 1]
      /\ UNCHANGED <<pc, drive, d88trk, spoilt, hdd, nvs, misread>>
  BY DEF hdd_write
<1>2. writes' \in 0 .. MaxWrites /\ content' \in Contents /\ written' \in Contents
  <2>1. writes + 1 \in 0 .. MaxWrites
    BY <1>1, FilesAssumption DEF Inv, Rest
  <2>2. content \in Contents /\ written \in Contents
    BY InvParts DEF Inv, Rest
  <2> QED BY <1>1, <2>1, <2>2 DEF Contents
<1>3. Rest'
  BY <1>1, <1>2 DEF Inv, Rest, Contents, Images, Blocks
<1>4. Sound(layer', hdd.hdl, hdd.path)
  BY <1>1, HddTransfers
<1> QED BY <1>1, <1>2, <1>3, <1>4, InvParts, PartStep DEF Sound, LayerOK

LEMMA InsertStep ==
  ASSUME Inv, NEW d \in Drives, NEW img \in D88 \cup Raw, Insert(d, img)
  PROVE  Inv'
<1>1. PICK eof \in BOOLEAN : Becomes(fdd_set(State, d, img, eof))
  BY DEF Insert
<1> DEFINE s == fdd_set(State, d, img, eof)
<1>2. StateOK(s, hdd.hdl, hdd.path)
  BY FddSets DEF Inv
<1>3. Rest' /\ UNCHANGED hdd
  BY DEF Insert, Inv, Rest, Contents, Images, Blocks
<1> QED
  <2> HIDE DEF s
  <2> QED BY <1>1, <1>2, <1>3, DiskStep DEF s

LEMMA EjectStep ==
  ASSUME Inv, NEW d \in Drives, fdd_eject(d)
  PROVE  Inv'
<1> DEFINE f == drvflush(State, d)
           n == [f EXCEPT !.drive[d] = EmptyDrive]
<1>1. /\ StateOK(f, hdd.hdl, hdd.path) /\ f.drive = State.drive
      /\ f.d88trk.fdd # d
  BY DrvFlushes DEF Inv
<1>2. Becomes(n) /\ UNCHANGED <<pc, hdd, nvs, writes, written, misread>>
  BY DEF fdd_eject
<1>3. Rest'
  BY <1>2 DEF Inv, Rest, Contents, Images, Blocks
<1>4. StateOK(n, hdd.hdl, hdd.path)
  <2> DEFINE dr == [f.drive EXCEPT ![d] = EmptyDrive]
  <2> HIDE DEF f
  <2>1. /\ f = [layer |-> f.layer, content |-> f.content, drive |-> f.drive,
                d88trk |-> f.d88trk, spoilt |-> f.spoilt]
        /\ f.layer \in Layers /\ f.content \in Contents /\ f.drive \in DriveStates
        /\ f.d88trk \in TrackBuffers /\ f.spoilt \in SUBSET Images
    BY <1>1 DEF StateOK, States
  <2>2. n = [layer |-> f.layer, content |-> f.content, drive |-> dr,
             d88trk |-> f.d88trk, spoilt |-> f.spoilt]
    BY <2>1
  <2>3. dr \in DriveStates
    BY <2>1 DEF DriveStates, EmptyDrive, Heads
  <2>4. n \in States /\ n.layer = f.layer /\ n.drive = dr /\ n.d88trk = f.d88trk
    <3> HIDE DEF n, dr
    <3> QED BY <2>1, <2>2, <2>3 DEF States
  <2>5. ASSUME f.d88trk.fdd # NoDrive PROVE dr[f.d88trk.fdd].fname \in D88
    <3>1. dr[f.d88trk.fdd] = f.drive[f.d88trk.fdd]
      BY <1>1, <2>1, <2>5 DEF DriveStates, TrackBuffers
    <3> QED BY <3>1, <1>1, <2>5 DEF StateOK
  <2> HIDE DEF n, dr
  <2> QED BY <1>1, <2>4, <2>5 DEF StateOK
<1> QED
  <2> HIDE DEF n
  <2> QED BY <1>2, <1>3, <1>4, DiskStep

LEMMA PickHddStep ==
  ASSUME Inv, NEW img \in Hdds, PickHdd(img)
  PROVE  Inv'
<1> DEFINE c == file_close(layer, hdd.hdl)
           n == hddbind(c, img)
<1>1. /\ layer' = n.st /\ hdd' = [path |-> img, hdl |-> n.hdl]
      /\ UNCHANGED <<pc, disks, nvs, writes, written, misread>>
  BY DEF PickHdd
<1>2. Sound(n.st, n.hdl, img) /\ n.hdl \in FdIds \cup {NoFd}
  <2>1. Sound(c, NoFd, hdd.path)
    BY InvParts, HddCloses
  <2> HIDE DEF c
  <2> QED BY <2>1, HddBinds
<1>3. hdd'.hdl = n.hdl /\ hdd'.path = img
  BY <1>1
<1>4. Rest'
  <2> HIDE DEF n
  <2> QED BY <1>1, <1>2 DEF Inv, Rest, Contents, Images, Blocks
<1>5. Sound(layer', hdd'.hdl, hdd'.path) /\ layer' \in Layers
  <2> HIDE DEF n
  <2> QED BY <1>1, <1>2, <1>3 DEF Sound, LayerOK
<1> QED BY <1>1, <1>4, <1>5, InvParts, PartStep DEF disks

(* A restart, whatever it has saved. *)
LEMMA RestartStep ==
  ASSUME Inv, Restart,
         nvs' \in [fdd0 : D88 \cup Raw \cup {NoImage},
                   fdd1 : D88 \cup Raw \cup {NoImage}, hdd : Hdds \cup {NoImage}]
  PROVE  Inv'
<1>1. /\ pc' = "off" /\ layer' = dosio_init
      /\ drive' = [d \in Drives |-> EmptyDrive]
      /\ d88trk' = NoTrack /\ hdd' = NoHdd /\ written' = content
      /\ UNCHANGED <<content, writes, misread, spoilt>>
  BY DEF Restart
<1>2. Sound(layer', hdd'.hdl, hdd'.path) /\ layer' \in Layers
  BY <1>1, InitSound DEF NoHdd, Sound, LayerOK
<1>3. drive' \in DriveStates
  BY <1>1 DEF DriveStates, EmptyDrive, Heads
<1>4. hdd' \in [path : Hdds \cup {NoImage}, hdl : FdIds \cup {NoFd}]
  BY <1>1 DEF NoHdd
<1>5. Rest'
  BY <1>1, <1>4, InvParts DEF Rest, Contents, Images, Blocks
<1> QED BY <1>1, <1>2, <1>3, <1>5, InvParts, NoTrackIsEmpty, PartStep

(* What is saved is what the drives hold, or what was saved before. *)
LEMMA MountsSaved ==
  ASSUME Inv, NEW p \in Hdds \cup {NoImage}, NEW lost, Saves(p, lost)
  PROVE  nvs' \in [fdd0 : D88 \cup Raw \cup {NoImage},
                   fdd1 : D88 \cup Raw \cup {NoImage}, hdd : Hdds \cup {NoImage}]
<1>1. \A d \in Drives : drive[d].fname \in D88 \cup Raw \cup {NoImage}
  BY InvParts DEF DriveStates
<1>2. 0 \in Drives /\ 1 \in Drives
  BY DEF Drives
<1>3. drive[0].fname \in D88 \cup Raw \cup {NoImage}
  BY <1>1, <1>2
<1>4. drive[1].fname \in D88 \cup Raw \cup {NoImage}
  BY <1>1, <1>2
<1> DEFINE m == Mounts(p)
<1>5. /\ m.fdd0 \in D88 \cup Raw \cup {NoImage}
      /\ m.fdd1 \in D88 \cup Raw \cup {NoImage} /\ m.hdd \in Hdds \cup {NoImage}
  BY <1>3, <1>4 DEF Mounts
<1>6. /\ nvs.fdd0 \in D88 \cup Raw \cup {NoImage}
      /\ nvs.fdd1 \in D88 \cup Raw \cup {NoImage} /\ nvs.hdd \in Hdds \cup {NoImage}
  BY InvParts DEF Rest
<1>7. nvs' = [fdd0 |-> IF "fdd0" \in lost THEN nvs.fdd0 ELSE m.fdd0,
              fdd1 |-> IF "fdd1" \in lost THEN nvs.fdd1 ELSE m.fdd1,
              hdd  |-> IF "hdd" \in lost THEN nvs.hdd ELSE m.hdd]
  BY DEF Saves
<1> HIDE DEF m
<1> QED BY <1>5, <1>6, <1>7

(* The fixed disk as a boot binds it, and the state before the floppies.   *)
BootHdd ==
  LET st1 == Exists(dosio_init, nvs.hdd)
      media == IF nvs.fdd0 # NoImage THEN nvs.fdd0 ELSE nvs.fdd1
      st2 == IF nvs.hdd # NoImage THEN st1 ELSE Exists(st1, media)
      st3 == Exists(Exists(st2, BiosRom), FontRom)
  IN hddbind(st3, nvs.hdd)
BootState == [State EXCEPT !.layer = BootHdd.st]

LEMMA BootStarts ==
  ASSUME Inv
  PROVE  /\ StateOK(BootState, BootHdd.hdl, nvs.hdd)
         /\ BootHdd.hdl \in FdIds \cup {NoFd}
         /\ nvs.fdd0 \in D88 \cup Raw \cup {NoImage}
         /\ nvs.fdd1 \in D88 \cup Raw \cup {NoImage}
         /\ nvs.hdd \in Hdds \cup {NoImage}
<1> DEFINE st1 == Exists(dosio_init, nvs.hdd)
           media == IF nvs.fdd0 # NoImage THEN nvs.fdd0 ELSE nvs.fdd1
           st2 == IF nvs.hdd # NoImage THEN st1 ELSE Exists(st1, media)
           st3 == Exists(Exists(st2, BiosRom), FontRom)
           h == hddbind(st3, nvs.hdd)
           s0 == [State EXCEPT !.layer = h.st]
<1>1. /\ nvs.fdd0 \in D88 \cup Raw \cup {NoImage}
      /\ nvs.fdd1 \in D88 \cup Raw \cup {NoImage}
      /\ nvs.hdd \in Hdds \cup {NoImage}
  BY DEF Inv, Rest
<1>2. Sound(st3, NoFd, NoImage)
  <2>0. Sound(dosio_init, NoFd, NoImage)
    BY InitSound
  <2>1. /\ nvs.hdd \in Files \cup {NoImage} /\ media \in Files \cup {NoImage}
        /\ BiosRom \in Files \cup {NoImage} /\ FontRom \in Files \cup {NoImage}
    BY <1>1, ImagesApart, FilesAssumption DEF Images
  <2>2. Sound(st1, NoFd, NoImage)
    BY <2>0, <2>1, ExistsSound
  <2>3. Sound(st2, NoFd, NoImage)
    <3> HIDE DEF st1, media
    <3> QED BY <2>1, <2>2, ExistsSound
  <2>4. Sound(Exists(st2, BiosRom), NoFd, NoImage)
    <3> HIDE DEF st2
    <3> QED BY <2>1, <2>3, ExistsSound
  <2> HIDE DEF st2
  <2> QED BY <2>1, <2>4, ExistsSound
<1>3. Sound(h.st, h.hdl, nvs.hdd) /\ h.hdl \in FdIds \cup {NoFd} /\ h.st \in Layers
  <2>1. Sound(h.st, h.hdl, nvs.hdd) /\ h.hdl \in FdIds \cup {NoFd}
    <3> HIDE DEF st3
    <3> QED BY <1>1, <1>2, HddBinds
  <2> QED BY <2>1 DEF Sound, LayerOK
<1>4. StateOK(s0, h.hdl, nvs.hdd)
  <2> HIDE DEF h
  <2>1. s0 = [layer |-> h.st, content |-> content, drive |-> drive,
              d88trk |-> d88trk, spoilt |-> spoilt]
    BY DEF State
  <2>2. /\ s0 \in States /\ s0.layer = h.st /\ s0.drive = drive
        /\ s0.d88trk = d88trk
    <3> HIDE DEF s0
    <3> QED BY <1>3, <2>1, InvParts DEF States
  <2> HIDE DEF s0
  <2> QED BY <1>1, <1>3, <2>2, InvParts DEF StateOK
<1> QED BY <1>1, <1>3, <1>4 DEF BootHdd, BootState

LEMMA BootStep ==
  ASSUME Inv, Boot
  PROVE  Inv'
<1> DEFINE s1(e) == Mount(BootState, 0, nvs.fdd0, e)
           s2(e) == Mount(s1(e), 1, nvs.fdd1, e)
<1>1. PICK eof \in BOOLEAN : Becomes(s2(eof))
  BY DEF Boot, BootState, BootHdd
<1>2. /\ hdd' = [path |-> nvs.hdd, hdl |-> BootHdd.hdl] /\ pc' = "run"
      /\ UNCHANGED <<nvs, writes, written, misread>>
  BY DEF Boot, BootHdd
<1>3. StateOK(s2(eof), BootHdd.hdl, nvs.hdd)
  <2>1. StateOK(s1(eof), BootHdd.hdl, nvs.hdd)
    BY BootStarts, Mounting DEF Drives
  <2> HIDE DEF s1
  <2> QED BY <2>1, BootStarts, Mounting DEF Drives
<1>4. Rest'
  <2>1. hdd' \in [path : Hdds \cup {NoImage}, hdl : FdIds \cup {NoFd}]
    BY <1>2, BootStarts
  <2> QED BY <1>2, <2>1 DEF Inv, Rest, Contents, Images, Blocks
<1>5. State' = s2(eof)
  <2> HIDE DEF s2
  <2> QED BY <1>1, <1>3, StateBecomes DEF StateOK
<1>6. hdd'.hdl = BootHdd.hdl /\ hdd'.path = nvs.hdd
  BY <1>2
<1> HIDE DEF s2
<1> QED BY <1>3, <1>4, <1>5, <1>6 DEF Inv, StateOK

LEMMA StepInv == Inv /\ [Next]_vars => Inv'
<1> SUFFICES ASSUME Inv, [Next]_vars PROVE Inv'
  OBVIOUS
<1>0. \A p \in Hdds \cup {NoImage} : \A lost :
        Saves(p, lost) => nvs' \in [fdd0 : D88 \cup Raw \cup {NoImage},
                                    fdd1 : D88 \cup Raw \cup {NoImage},
                                    hdd : Hdds \cup {NoImage}]
  BY MountsSaved
<1>1. ASSUME NEW b \in Tracks, NEW d \in Drives,
             \/ fdd_read_d88(d, b) \/ fdd_write_d88(d, b)
             \/ fdd_read_xdf(d, b) \/ fdd_write_xdf(d, b)
      PROVE  Inv'
  BY <1>1, ReadD88Step, WriteD88Step, ReadXdfStep, WriteXdfStep
<1>2. ASSUME NEW b \in Tracks, hdd_read(b) \/ hdd_write(b) PROVE Inv'
  BY <1>2, HddReadStep, HddWriteStep
<1>3. CASE menu_disk_run
  <2>1. Rest'
    BY <1>3 DEF menu_disk_run, Inv, Rest, Contents, Images, Blocks
  <2> QED BY <1>3, <2>1, InvParts, PartStep DEF menu_disk_run, disks
<1>4. ASSUME NEW d \in Drives, NEW img \in D88 \cup Raw, Insert(d, img) PROVE Inv'
  BY <1>4, InsertStep
<1>5. ASSUME NEW d \in Drives, fdd_eject(d) PROVE Inv'
  BY <1>5, EjectStep
<1>6. ASSUME NEW img \in Hdds, PickHdd(img) PROVE Inv'
  BY <1>6, PickHddStep
<1>7. CASE Leave
  <2>1. Rest'
    BY <1>0, <1>7, InvParts DEF Leave, Rest, Contents, Images, Blocks
  <2> QED BY <1>7, <2>1, InvParts, PartStep DEF Leave, disks
<1>8. CASE Reset
  BY <1>0, <1>8, InvParts, RestartStep DEF Reset
<1>9. CASE EjectHdd
  BY <1>0, <1>9, RestartStep DEF EjectHdd
<1>10. CASE PowerCut
  BY <1>10, InvParts, RestartStep DEF PowerCut, Rest
<1>11. CASE Boot
  BY <1>11, BootStep
<1>12. CASE UNCHANGED vars
  <2>1. Rest'
    BY <1>12 DEF vars, Inv, Rest, Contents, Images, Blocks
  <2> QED BY <1>12, <2>1, InvParts, PartStep DEF vars
<1>13. CASE Guest
  BY <1>1, <1>2, <1>13 DEF Guest
<1>14. CASE Menu
  BY <1>4, <1>5, <1>6, <1>7, <1>8, <1>9, <1>14 DEF Menu
<1> QED BY <1>3, <1>10, <1>11, <1>12, <1>13, <1>14 DEF Next

LEMMA InvAlways == Spec => []Inv
<1> QED BY InitInv, StepInv, PTL DEF Spec

(* Every variable keeps the shape that TypeOK gives it, for any images,    *)
(* cache slots and descriptors.                                            *)
THEOREM TypeCorrect == Spec => []TypeOK
<1>1. Inv => TypeOK
  BY InvParts DEF Rest, TypeOK, Contents, DriveStates, TrackBuffers
<1> QED BY <1>1, InvAlways, PTL

(* The descriptors stay in order, for any images, cache slots and          *)
(* descriptors: a slot's is open on the slot's file, the fixed disk's      *)
(* handle is open on its image, no file has two and none is leaked.        *)
THEOREM DescriptorsSoundHolds == Spec => []DescriptorsSound
<1>1. Inv => DescriptorsSound
  BY InvParts DEF DescriptorsSound, Sound, LayerOK
<1> QED BY <1>1, InvAlways, PTL

-----------------------------------------------------------------------------
(* On top of that: what the guest writes is kept, and read back.           *)

(* The image whose track is in the buffer, and a block as the guest would  *)
(* find it (Held, of a state s).                                           *)
Tracked(s) == s.drive[s.d88trk.fdd].fname
HeldIn(s, img, b) ==
  IF s.d88trk.fdd # NoDrive /\ s.d88trk.write /\ Tracked(s) = img
       /\ s.d88trk.at = b
    THEN s.d88trk.val ELSE s.content[img][b]

(* Every block of an unspoilt image holds what w says; a drive whose       *)
(* header is wrong has a spoilt image; a track of an unspoilt image lies   *)
(* where it should and is the image's own.                                 *)
Intact(s, w) ==
  /\ \A img \in Images \ s.spoilt, b \in Blocks : HeldIn(s, img, b) = w[img][b]
  /\ \A d \in Drives : \/ s.drive[d].fname = NoImage \/ s.drive[d].head = "good"
                       \/ s.drive[d].fname \in s.spoilt
  /\ s.d88trk.fdd # NoDrive /\ Tracked(s) \notin s.spoilt =>
       /\ s.d88trk.at = s.d88trk.track
       /\ ~s.d88trk.write => s.d88trk.val = s.content[Tracked(s)][s.d88trk.at]

(* What a flush does. *)
Flushed(s, t) ==
  /\ t.drive = s.drive /\ t.d88trk = NoTrack
  /\ \/ /\ s.d88trk.fdd = NoDrive \/ ~s.d88trk.write
        /\ t.content = s.content /\ t.spoilt = s.spoilt
     \/ /\ s.d88trk.fdd # NoDrive /\ s.d88trk.write
        /\ t.content = s.content /\ t.spoilt = s.spoilt \cup {Tracked(s)}
        /\ t.layer = s.layer /\ ~Access(s.layer, Tracked(s)).ok
     \/ /\ s.d88trk.fdd # NoDrive /\ s.d88trk.write
        /\ t.content = [s.content EXCEPT ![Tracked(s)][s.d88trk.at] = s.d88trk.val]
        /\ t.spoilt = s.spoilt

LEMMA FlushResult ==
  ASSUME NEW s \in States
  PROVE  Flushed(s, d88trk_flushdata(s))
<1> DEFINE t == d88trk_flushdata(s)
           trk == s.d88trk
           img == s.drive[trk.fdd].fname
           acc == Access(s.layer, img)
<1>1. s = [layer |-> s.layer, content |-> s.content, drive |-> s.drive,
           d88trk |-> s.d88trk, spoilt |-> s.spoilt]
  BY DEF States
<1>2. CASE trk.fdd = NoDrive \/ ~trk.write
  <2>1. t = [s EXCEPT !.d88trk = NoTrack]
    BY <1>2 DEF d88trk_flushdata
  <2>2. t = [layer |-> s.layer, content |-> s.content, drive |-> s.drive,
             d88trk |-> NoTrack, spoilt |-> s.spoilt]
    BY <1>1, <2>1
  <2>3. /\ t.drive = s.drive /\ t.d88trk = NoTrack /\ t.content = s.content
        /\ t.spoilt = s.spoilt
    BY <2>2
  <2> HIDE DEF t
  <2>4. Flushed(s, t)
    BY <1>2, <2>3 DEF Flushed
  <2> QED BY <2>4 DEF t
<1>3. CASE trk.fdd # NoDrive /\ trk.write /\ ~acc.ok
  <2>1. t = [s EXCEPT !.d88trk = NoTrack, !.spoilt = s.spoilt \cup {img}]
    BY <1>3 DEF d88trk_flushdata
  <2>2. t = [layer |-> s.layer, content |-> s.content, drive |-> s.drive,
             d88trk |-> NoTrack, spoilt |-> s.spoilt \cup {img}]
    BY <1>1, <2>1
  <2>3. /\ t.drive = s.drive /\ t.d88trk = NoTrack /\ t.content = s.content
        /\ t.spoilt = s.spoilt \cup {img} /\ t.layer = s.layer
    BY <2>2
  <2> HIDE DEF t
  <2>4. Flushed(s, t)
    BY <1>3, <2>3 DEF Flushed, Tracked
  <2> QED BY <2>4 DEF t
<1>4. CASE trk.fdd # NoDrive /\ trk.write /\ acc.ok
  <2> DEFINE c == [s.content EXCEPT ![img][trk.at] = trk.val]
  <2>1. t = [s EXCEPT !.d88trk = NoTrack, !.layer = acc.st,
                      !.content[img][trk.at] = trk.val]
    BY <1>4 DEF d88trk_flushdata
  <2>2. t = [layer |-> acc.st, content |-> c, drive |-> s.drive,
             d88trk |-> NoTrack, spoilt |-> s.spoilt]
    <3> HIDE DEF acc, img, trk
    <3> QED BY <1>1, <2>1
  <2>3. /\ t.drive = s.drive /\ t.d88trk = NoTrack /\ t.content = c
        /\ t.spoilt = s.spoilt
    <3> HIDE DEF acc, c
    <3> QED BY <2>2
  <2> HIDE DEF t
  <2>4. Flushed(s, t)
    BY <1>4, <2>3 DEF Flushed, Tracked
  <2> QED BY <2>4 DEF t
<1> QED BY <1>2, <1>3, <1>4

(* A flush moves what the buffer holds to the image, or spoils it. *)
LEMMA FlushKeeps ==
  ASSUME NEW s, NEW k, NEW q, StateOK(s, k, q), NEW w, Intact(s, w)
  PROVE  Intact(d88trk_flushdata(s), w)
<1> DEFINE t == d88trk_flushdata(s)
<1>1. Flushed(s, t)
  BY FlushResult DEF StateOK
<1>2. /\ s.content \in Contents /\ s.d88trk.at \in Blocks
      /\ s.d88trk.fdd # NoDrive => Tracked(s) \in Images
  BY DEF StateOK, States, TrackBuffers, Tracked, Images
<1> HIDE DEF t
<1>3. /\ t.d88trk.fdd = NoDrive /\ t.drive = s.drive
      /\ \A i \in t.spoilt : i \in s.spoilt \/ i = Tracked(s)
      /\ \A i \in s.spoilt : i \in t.spoilt
  BY <1>1, NoTrackIsEmpty DEF Flushed
<1>4. ASSUME NEW img \in Images \ t.spoilt, NEW b \in Blocks
      PROVE  t.content[img][b] = w[img][b]
  <2>1. HeldIn(s, img, b) = w[img][b]
    BY <1>3 DEF Intact
  <2>2. CASE s.d88trk.fdd = NoDrive \/ ~s.d88trk.write
    BY <1>1, <2>1, <2>2 DEF Flushed, HeldIn
  <2>3. CASE s.d88trk.fdd # NoDrive /\ s.d88trk.write /\ t.content = s.content
             /\ t.spoilt = s.spoilt \cup {Tracked(s)}
    BY <2>1, <2>3 DEF HeldIn
  <2>4. CASE s.d88trk.fdd # NoDrive /\ s.d88trk.write
             /\ t.content = [s.content EXCEPT ![Tracked(s)][s.d88trk.at] = s.d88trk.val]
    <3>1. t.content[img][b] = IF img = Tracked(s) /\ b = s.d88trk.at
                              THEN s.d88trk.val ELSE s.content[img][b]
      BY <1>2, <2>4 DEF Contents
    <3> QED BY <2>1, <2>4, <3>1 DEF HeldIn
  <2> QED BY <1>1, <2>2, <2>3, <2>4 DEF Flushed
<1>5. Intact(t, w)
  BY <1>3, <1>4 DEF Intact, HeldIn
<1> QED BY <1>5 DEF t

(* What a seek does: nothing when the track is there, else a flush, and a  *)
(* new track when the image opens.                                         *)
Sought(d, t, b, s) ==
  \/ Buffered(d, t) /\ s = State
  \/ s = d88trk_flushdata(State)
  \/ LET f == d88trk_flushdata(State) IN
       /\ s.drive = f.drive /\ s.content = f.content /\ s.spoilt = f.spoilt
       /\ Access(f.layer, drive[d].fname).ok
       /\ s.d88trk.fdd = d /\ s.d88trk.track = t /\ s.d88trk.at = b
       /\ s.d88trk.val = f.content[drive[d].fname][b] /\ ~s.d88trk.write

LEMMA SeekResult ==
  ASSUME NEW k, NEW q, StateOK(State, k, q), NEW d, NEW t, NEW b
  PROVE  Sought(d, t, b, trkseek(d, t, b))
<1> DEFINE f == d88trk_flushdata(State)
           img == drive[d].fname
           acc == Access(f.layer, img)
           s == trkseek(d, t, b)
           trk == [fdd |-> d, track |-> t, at |-> b,
                   val |-> f.content[img][b], write |-> FALSE]
<1>1. CASE Buffered(d, t)
  BY <1>1 DEF trkseek, Sought
<1>2. CASE ~Buffered(d, t) /\ ~acc.ok
  BY <1>2 DEF trkseek, Sought
<1>3. CASE ~Buffered(d, t) /\ acc.ok
  <2>1. s = [f EXCEPT !.layer = acc.st, !.d88trk = trk]
    BY <1>3 DEF trkseek
  <2>2. f = [layer |-> f.layer, content |-> f.content, drive |-> f.drive,
             d88trk |-> f.d88trk, spoilt |-> f.spoilt]
    <3>1. StateOK(f, k, q)
      BY Flushes
    <3> HIDE DEF f
    <3> QED BY <3>1 DEF StateOK, States
  <2>3. s = [layer |-> acc.st, content |-> f.content, drive |-> f.drive,
             d88trk |-> trk, spoilt |-> f.spoilt]
    <3> HIDE DEF f, acc, trk
    <3> QED BY <2>1, <2>2
  <2>4. /\ s.drive = f.drive /\ s.content = f.content /\ s.spoilt = f.spoilt
        /\ s.d88trk = trk
    <3> HIDE DEF f, acc, trk
    <3> QED BY <2>3
  <2>5. /\ trk.fdd = d /\ trk.track = t /\ trk.at = b /\ ~trk.write
        /\ trk.val = f.content[img][b]
    <3> HIDE DEF f, img
    <3> QED OBVIOUS
  <2>6. /\ s.d88trk.fdd = d /\ s.d88trk.track = t /\ s.d88trk.at = b
        /\ s.d88trk.val = f.content[img][b] /\ ~s.d88trk.write
    <3> HIDE DEF f, img, trk, s
    <3> QED BY <2>4, <2>5
  <2> HIDE DEF s
  <2>7. Sought(d, t, b, s)
    BY <1>3, <2>4, <2>6 DEF Sought
  <2> QED BY <2>7 DEF s
<1> QED BY <1>1, <1>2, <1>3

(* Once a track is found, it is the one that was sought, and its image is  *)
(* not one that the seek has just spoilt.                                  *)
LEMMA SeekKeeps ==
  ASSUME NEW k, NEW q, StateOK(State, k, q), NEW w, Intact(State, w),
         NEW d \in Drives, D88Drive(d), NEW t \in Tracks, NEW b \in Places(d, t)
  PROVE  LET s == trkseek(d, t, b) IN
         /\ Intact(s, w)
         /\ spoilt \subseteq s.spoilt
         /\ s.d88trk.fdd # NoDrive => /\ s.d88trk.fdd = d /\ s.d88trk.track = t
                                      /\ drive[d].fname \in s.spoilt =>
                                           drive[d].fname \in spoilt
<1> DEFINE f == d88trk_flushdata(State)
           img == drive[d].fname
           s == trkseek(d, t, b)
<1>0. /\ State.drive = drive /\ State.d88trk = d88trk /\ State.spoilt = spoilt
      /\ State.layer = layer
  BY DEF State
<1>1. Intact(f, w) /\ Flushed(State, f)
  BY FlushKeeps, FlushResult DEF StateOK
<1>2. Sought(d, t, b, s)
  BY SeekResult
<1>3. f.d88trk.fdd = NoDrive /\ f.drive = drive /\ spoilt \subseteq f.spoilt
  BY <1>0, <1>1, NoTrackIsEmpty DEF Flushed
<1>4. img \in D88 /\ img # NoImage /\ d # NoDrive
  BY ImagesApart DEF D88Drive, Drives, NoDrive, Images
<1> HIDE DEF s, f
<1>5. CASE Buffered(d, t) /\ s = State
  <2>1. d88trk.fdd = d /\ d88trk.track = t
    BY <1>5 DEF Buffered
  <2>2. s.d88trk = d88trk /\ s.spoilt = spoilt /\ Intact(s, w)
    BY <1>0, <1>5
  <2> QED BY <2>1, <2>2 DEF s
<1>6. CASE s = f
  BY <1>1, <1>3, <1>6 DEF s
<1>7. CASE /\ s.drive = f.drive /\ s.content = f.content /\ s.spoilt = f.spoilt
           /\ Access(f.layer, img).ok
           /\ s.d88trk.fdd = d /\ s.d88trk.track = t /\ s.d88trk.at = b
           /\ s.d88trk.val = f.content[img][b] /\ ~s.d88trk.write
  <2>1. ASSUME img \notin spoilt PROVE img \notin s.spoilt
    <3>1. CASE f.spoilt = spoilt
      BY <1>7, <2>1, <3>1
    <3>2. CASE f.spoilt = spoilt \cup {Tracked(State)} /\ f.layer = layer
               /\ ~Access(layer, Tracked(State)).ok
      <4>1. img # Tracked(State)
        BY <1>7, <3>2
      <4> QED BY <1>7, <2>1, <3>2, <4>1
    <3> QED BY <1>0, <1>1, <3>1, <3>2 DEF Flushed
  <2>2. img \in spoilt \/ b = t
    BY <1>4, <1>0 DEF Places, Intact
  <2>3. Tracked(s) = img
    BY <1>7, <1>3 DEF Tracked
  <2>4. \A i \in Images, x \in Blocks : HeldIn(s, i, x) = s.content[i][x]
    BY <1>7 DEF HeldIn
  <2>5. \A i \in Images \ f.spoilt, x \in Blocks : f.content[i][x] = w[i][x]
    BY <1>1, <1>3 DEF Intact, HeldIn
  <2>6. \A i \in Images \ s.spoilt, x \in Blocks : HeldIn(s, i, x) = w[i][x]
    BY <2>4, <2>5, <1>7
  <2>7. \A e \in Drives : \/ s.drive[e].fname = NoImage \/ s.drive[e].head = "good"
                          \/ s.drive[e].fname \in s.spoilt
    BY <1>1, <1>7 DEF Intact
  <2>8. Tracked(s) \notin s.spoilt =>
          /\ s.d88trk.at = s.d88trk.track
          /\ s.d88trk.val = s.content[Tracked(s)][s.d88trk.at]
    BY <1>3, <1>7, <2>2, <2>3
  <2>9. Intact(s, w)
    BY <2>6, <2>7, <2>8 DEF Intact
  <2> QED BY <1>3, <1>7, <2>1, <2>9 DEF s
<1> QED BY <1>2, <1>5, <1>6, <1>7 DEF Sought, f

(* An image that goes into a drive, or a drive that is emptied: the buffer *)
(* is not its own.                                                         *)
LEMMA DriveChanges ==
  ASSUME NEW s \in States, NEW w, Intact(s, w), NEW d \in Drives,
         s.d88trk.fdd # d, NEW t,
         NEW r, t.drive = [s.drive EXCEPT ![d] = r],
         t.content = s.content, t.d88trk = s.d88trk, s.spoilt \subseteq t.spoilt,
         r.fname = NoImage \/ r.head = "good" \/ r.fname \in t.spoilt
  PROVE  Intact(t, w)
<1>1. s.drive \in DriveStates /\ s.d88trk \in TrackBuffers
  BY DEF States
<1>2. \A e \in Drives : t.drive[e] = IF e = d THEN r ELSE s.drive[e]
  BY <1>1 DEF DriveStates
<1>3. s.d88trk.fdd # NoDrive => Tracked(t) = Tracked(s)
  BY <1>1, <1>2 DEF Tracked, TrackBuffers
<1>4. \A img \in Images, b \in Blocks : HeldIn(t, img, b) = HeldIn(s, img, b)
  BY <1>3 DEF HeldIn
<1>5. \A img \in Images \ t.spoilt, b \in Blocks : HeldIn(t, img, b) = w[img][b]
  BY <1>4 DEF Intact
<1>6. \A e \in Drives : \/ t.drive[e].fname = NoImage \/ t.drive[e].head = "good"
                        \/ t.drive[e].fname \in t.spoilt
  BY <1>2 DEF Intact
<1> QED BY <1>3, <1>5, <1>6 DEF Intact

LEMMA DrvFlushKeeps ==
  ASSUME NEW s, NEW k, NEW q, StateOK(s, k, q), NEW w, Intact(s, w),
         NEW d
  PROVE  Intact(drvflush(s, d), w)
BY FlushKeeps DEF drvflush

(* The layer does not matter. *)
LEMMA LayerKeeps ==
  ASSUME NEW s \in States, NEW w, Intact(s, w), NEW l
  PROVE  Intact([s EXCEPT !.layer = l], w)
<1> DEFINE n == [s EXCEPT !.layer = l]
<1>1. /\ n.content = s.content /\ n.drive = s.drive /\ n.d88trk = s.d88trk
      /\ n.spoilt = s.spoilt
  BY DEF States
<1> HIDE DEF n
<1>2. Intact(n, w)
  BY <1>1 DEF Intact, HeldIn, Tracked
<1> QED BY <1>2 DEF n

LEMMA FddSetKeeps ==
  ASSUME NEW s, NEW k, NEW q, StateOK(s, k, q), NEW w, Intact(s, w),
         NEW d \in Drives, NEW img \in D88 \cup Raw, NEW eof
  PROVE  Intact(fdd_set(s, d, img, eof), w)
<1> DEFINE f == drvflush(s, d)
           o == OpenImage(f.layer, img, eof)
           g == [f EXCEPT !.layer = o.st]
           n == fdd_set(s, d, img, eof)
           r == [fname |-> img, head |-> o.head]
           sp == IF o.head = "good" THEN f.spoilt ELSE f.spoilt \cup {img}
<1>1. /\ f \in States /\ f.d88trk.fdd # d /\ Intact(f, w)
  BY DrvFlushes, DrvFlushKeeps DEF StateOK
<1>2. Intact(g, w)
  <2> HIDE DEF f, o
  <2> QED BY <1>1, LayerKeeps
<1>3. CASE o.head = "none"
  <2>1. n = g
    BY <1>3 DEF fdd_set
  <2> QED
    <3> HIDE DEF g
    <3> QED BY <1>2, <2>1
<1>4. CASE o.head # "none"
  <2>1. n = [g EXCEPT !.drive[d] = r,
                      !.spoilt = IF o.head = "good" THEN @ ELSE @ \cup {img}]
    BY <1>4 DEF fdd_set
  <2>2. f = [layer |-> f.layer, content |-> f.content, drive |-> f.drive,
             d88trk |-> f.d88trk, spoilt |-> f.spoilt]
    <3> HIDE DEF f
    <3> QED BY <1>1 DEF States
  <2>3. g = [layer |-> o.st, content |-> f.content, drive |-> f.drive,
             d88trk |-> f.d88trk, spoilt |-> f.spoilt]
    <3> HIDE DEF f, o
    <3> QED BY <2>2
  <2>4. n = [layer |-> o.st, content |-> f.content,
             drive |-> [f.drive EXCEPT ![d] = r],
             d88trk |-> f.d88trk, spoilt |-> sp]
    <3> HIDE DEF f, o, n, r
    <3> QED BY <2>1, <2>3
  <2>5. /\ n.drive = [f.drive EXCEPT ![d] = r] /\ n.content = f.content
        /\ n.d88trk = f.d88trk /\ n.spoilt = sp
    <3> HIDE DEF f, o, n, r, sp
    <3> QED BY <2>4
  <2>6. r.head = "good" \/ r.fname \in sp
    <3> HIDE DEF f, o
    <3> QED OBVIOUS
  <2>7. f.spoilt \subseteq sp
    <3> HIDE DEF f, o
    <3> QED OBVIOUS
  <2>8. Intact(n, w)
    <3> HIDE DEF f, n, r, sp
    <3> QED BY <1>1, <2>5, <2>6, <2>7, DriveChanges
  <2> QED BY <2>8
<1> QED BY <1>3, <1>4

LEMMA MountKeeps ==
  ASSUME NEW s, NEW k, NEW q, StateOK(s, k, q), NEW w, Intact(s, w),
         NEW d \in Drives, NEW img \in D88 \cup Raw \cup {NoImage}, NEW eof
  PROVE  Intact(Mount(s, d, img, eof), w)
<1>1. CASE img = NoImage
  BY <1>1 DEF Mount
<1>2. CASE img # NoImage
  <2> DEFINE n == [s EXCEPT !.layer = Exists(s.layer, img)]
  <2>1. img \in Files /\ img # q
    BY <1>2, ImagesApart DEF Images, StateOK
  <2>2. Sound(Exists(s.layer, img), k, q)
    BY <2>1, ExistsSound DEF StateOK
  <2>3. StateOK(n, k, q)
    BY <2>2, LayerChanges
  <2>4. Intact(n, w)
    BY LayerKeeps DEF StateOK
  <2>5. Mount(s, d, img, eof) = fdd_set(n, d, img, eof)
    BY <1>2 DEF Mount
  <2> QED
    <3> HIDE DEF n
    <3> QED BY <1>2, <2>3, <2>4, <2>5, FddSetKeeps
<1> QED BY <1>1, <1>2

-----------------------------------------------------------------------------
(* The steps.                                                              *)

Kept == Intact(State, written) /\ ~misread

LEMMA InitKept == Init => Kept
<1> SUFFICES ASSUME Init PROVE Kept
  OBVIOUS
<1>1. /\ State.d88trk = NoTrack /\ State.content = Untouched
      /\ State.drive = [d \in Drives |-> EmptyDrive] /\ written = Untouched
  BY DEF State, Init
<1>2. \A d \in Drives : State.drive[d].fname = NoImage
  BY <1>1 DEF EmptyDrive
<1>3. Intact(State, written)
  BY <1>1, <1>2, NoTrackIsEmpty DEF Intact, HeldIn
<1>4. ~misread
  BY DEF Init
<1> QED BY <1>3, <1>4 DEF Kept

(* A step that leaves the images, the drives and the buffer alone. *)
LEMMA SameKeeps ==
  ASSUME Kept, UNCHANGED <<content, drive, d88trk, spoilt, written>>, ~misread'
  PROVE  Kept'
<1>1. /\ State'.content = State.content /\ State'.drive = State.drive
      /\ State'.d88trk = State.d88trk /\ State'.spoilt = State.spoilt
  BY DEF State
<1>2. Intact(State', written')
  BY <1>1 DEF Kept, Intact, HeldIn, Tracked
<1> QED BY <1>2 DEF Kept, State

(* A step to a state that an operator gave. *)
LEMMA BecomesKeeps ==
  ASSUME NEW STATE s, s \in States, Becomes(s), Intact(s, written'), ~misread'
  PROVE  Kept'
<1>1. State' = s
  BY StateBecomes
<1>2. Intact(State', written')
  BY <1>1
<1> QED BY <1>2 DEF Kept, State

(* The value in the buffer is the one last written where it was read. *)
LEMMA BufferedValue ==
  ASSUME NEW s \in States, NEW w, Intact(s, w), s.d88trk.fdd # NoDrive,
         Tracked(s) \in Images \ s.spoilt
  PROVE  /\ s.d88trk.val = w[Tracked(s)][s.d88trk.at]
         /\ s.d88trk.at = s.d88trk.track
<1>1. s.d88trk.at \in Blocks
  BY DEF States, TrackBuffers
<1>2. HeldIn(s, Tracked(s), s.d88trk.at) = w[Tracked(s)][s.d88trk.at]
  BY <1>1 DEF Intact
<1>3. CASE s.d88trk.write
  BY <1>2, <1>3 DEF HeldIn, Intact
<1>4. CASE ~s.d88trk.write
  BY <1>2, <1>4 DEF HeldIn, Intact
<1> QED BY <1>3, <1>4

LEMMA ReadD88Keeps ==
  ASSUME Inv, Kept, NEW d \in Drives, NEW t \in Tracks, fdd_read_d88(d, t)
  PROVE  Kept'
<1>1. PICK b \in Places(d, t) :
        LET s == trkseek(d, t, b) IN
          /\ Becomes(s)
          /\ IF s.d88trk.fdd = NoDrive THEN UNCHANGED misread
             ELSE Answer(drive[d].fname, s.d88trk.val, t)
  BY DEF fdd_read_d88
<1> DEFINE s == trkseek(d, t, b)
           img == drive[d].fname
<1>2. b \in Blocks /\ D88Drive(d) /\ UNCHANGED written
  BY FilesAssumption DEF Places, Tracks, Blocks, fdd_read_d88
<1>3. /\ s \in States /\ s.drive = drive
  BY <1>2, TrkSeeks DEF Inv, StateOK
<1>4. /\ Intact(s, written) /\ spoilt \subseteq s.spoilt
      /\ s.d88trk.fdd # NoDrive => /\ s.d88trk.fdd = d /\ s.d88trk.track = t
                                   /\ img \in s.spoilt => img \in spoilt
  BY <1>2, SeekKeeps DEF Inv, Kept
<1>5. img \in Images
  BY <1>2 DEF D88Drive, Images
<1>6. ~misread'
  <2> HIDE DEF s
  <2>1. CASE s.d88trk.fdd = NoDrive
    BY <1>1, <2>1 DEF Kept, s
  <2>2. CASE s.d88trk.fdd # NoDrive
    <3>1. Tracked(s) = img
      BY <1>3, <1>4, <2>2 DEF Tracked
    <3>2. img \notin spoilt => s.d88trk.val = written[img][t]
      BY <1>3, <1>4, <1>5, <2>2, <3>1, BufferedValue
    <3>3. Answer(img, s.d88trk.val, t)
      BY <1>1, <2>2 DEF s
    <3> QED BY <3>2, <3>3 DEF Answer, Kept
  <2> QED BY <2>1, <2>2
<1>7. Becomes(s)
  BY <1>1
<1> HIDE DEF s
<1> QED BY <1>2, <1>3, <1>4, <1>6, <1>7, BecomesKeeps

LEMMA WriteD88Keeps ==
  ASSUME Inv, Kept, NEW d \in Drives, NEW t \in Tracks, fdd_write_d88(d, t)
  PROVE  Kept'
<1>1. PICK b \in Places(d, t) :
        LET s == trkseek(d, t, b) IN
          IF s.d88trk.fdd = NoDrive
            THEN Becomes(s) /\ UNCHANGED <<writes, written>>
            ELSE /\ Becomes([s EXCEPT !.d88trk = [s.d88trk EXCEPT
                                        !.val = writes + 1, !.write = TRUE]])
                 /\ writes' = writes + 1
                 /\ written' = [written EXCEPT ![drive[d].fname][t] = writes + 1]
  BY DEF fdd_write_d88
<1> DEFINE s == trkseek(d, t, b)
           img == drive[d].fname
           x == [s.d88trk EXCEPT !.val = writes + 1, !.write = TRUE]
           n == [s EXCEPT !.d88trk = x]
<1>2. /\ b \in Blocks /\ D88Drive(d) /\ ~misread' /\ writes < MaxWrites
  BY FilesAssumption DEF Places, Tracks, Blocks, fdd_write_d88, Kept
<1>3. /\ s \in States /\ s.drive = drive
  BY <1>2, TrkSeeks DEF Inv, StateOK
<1>4. /\ Intact(s, written)
      /\ s.d88trk.fdd # NoDrive => s.d88trk.fdd = d /\ s.d88trk.track = t
  BY <1>2, SeekKeeps DEF Inv, Kept
<1>5. img \in Images
  BY <1>2 DEF D88Drive, Images
<1>6. CASE s.d88trk.fdd = NoDrive
  <2>1. Becomes(s) /\ written' = written
    BY <1>1, <1>6
  <2> HIDE DEF s
  <2> QED BY <1>2, <1>3, <1>4, <2>1, BecomesKeeps
<1>7. CASE s.d88trk.fdd # NoDrive
  <2>1. /\ Becomes(n)
        /\ written' = [written EXCEPT ![img][t] = writes + 1]
    BY <1>1, <1>7
  <2>2. /\ s = [layer |-> s.layer, content |-> s.content, drive |-> s.drive,
                d88trk |-> s.d88trk, spoilt |-> s.spoilt]
        /\ s.layer \in Layers /\ s.content \in Contents /\ s.drive \in DriveStates
        /\ s.d88trk \in TrackBuffers /\ s.spoilt \in SUBSET Images
    <3> HIDE DEF s
    <3> QED BY <1>3 DEF States
  <2>3. writes + 1 \in 0 .. MaxWrites
    BY <1>2, FilesAssumption DEF Inv, Rest
  <2>4. /\ x \in TrackBuffers /\ x.fdd = s.d88trk.fdd /\ x.at = s.d88trk.at
        /\ x.track = s.d88trk.track /\ x.val = writes + 1
    <3> HIDE DEF s
    <3> QED BY <2>2, <2>3 DEF TrackBuffers
  <2>5. x.write
    <3> HIDE DEF s
    <3> QED BY <2>2 DEF TrackBuffers
  <2>6. n = [layer |-> s.layer, content |-> s.content, drive |-> s.drive,
             d88trk |-> x, spoilt |-> s.spoilt]
    <3> HIDE DEF s, x
    <3> QED BY <2>2
  <2>7. /\ n \in States /\ n.content = s.content /\ n.drive = drive
        /\ n.d88trk = x /\ n.spoilt = s.spoilt
    <3> HIDE DEF s, x, n
    <3> QED BY <1>3, <2>2, <2>4, <2>6 DEF States
  <2>8. Tracked(s) = img /\ Tracked(n) = img
    <3> HIDE DEF s, x, n
    <3> QED BY <1>3, <1>4, <1>7, <2>4, <2>7 DEF Tracked
  <2>9. \A i \in Images, y \in Blocks :
          written'[i][y] = IF i = img /\ y = t THEN writes + 1 ELSE written[i][y]
    BY <2>1, <1>5 DEF Inv, Rest, Contents
  <2> HIDE DEF s, x, n
  <2>10. ASSUME NEW i \in Images \ n.spoilt, NEW y \in Blocks
         PROVE  HeldIn(n, i, y) = written'[i][y]
    <3>1. HeldIn(s, i, y) = written[i][y]
      BY <1>4, <2>7 DEF Intact
    <3>2. CASE i = img
      <4>1. s.d88trk.at = t
        BY <1>4, <1>7, <2>7, <2>8, <3>2 DEF Intact
      <4> QED BY <1>7, <2>4, <2>5, <2>7, <2>8, <2>9, <3>1, <3>2, <4>1 DEF HeldIn
    <3>3. CASE i # img
      BY <2>7, <2>8, <2>9, <3>1, <3>3 DEF HeldIn
    <3> QED BY <3>2, <3>3
  <2>11. \A e \in Drives : \/ n.drive[e].fname = NoImage \/ n.drive[e].head = "good"
                           \/ n.drive[e].fname \in n.spoilt
    BY <1>3, <1>4, <2>7 DEF Intact
  <2>12. Tracked(n) \notin n.spoilt => n.d88trk.at = n.d88trk.track
    BY <1>4, <1>7, <2>4, <2>7, <2>8 DEF Intact
  <2>13. Intact(n, written')
    BY <2>5, <2>7, <2>10, <2>11, <2>12 DEF Intact
  <2> QED BY <1>2, <2>1, <2>7, <2>13, BecomesKeeps
<1> QED BY <1>6, <1>7

(* A write that goes to an image's file: the buffer is of another image.   *)
LEMMA FileWriteKeeps ==
  ASSUME Inv, Kept, NEW img \in Images \ D88, NEW b \in Blocks, NEW v,
         content' = [content EXCEPT ![img][b] = v],
         written' = [written EXCEPT ![img][b] = v],
         UNCHANGED <<drive, d88trk, spoilt, misread>>
  PROVE  Kept'
<1>1. /\ State.content = content /\ State.drive = drive /\ State.d88trk = d88trk
      /\ State.spoilt = spoilt
      /\ State'.content = content' /\ State'.drive = drive /\ State'.d88trk = d88trk
      /\ State'.spoilt = spoilt
  BY DEF State
<1>2. \A i \in Images, x \in Blocks :
        /\ content'[i][x] = IF i = img /\ x = b THEN v ELSE content[i][x]
        /\ written'[i][x] = IF i = img /\ x = b THEN v ELSE written[i][x]
  BY InvParts DEF Rest, Contents
<1>3. /\ d88trk.fdd # NoDrive => drive[d88trk.fdd].fname \in D88
      /\ d88trk.at \in Blocks
  BY InvParts DEF TrackBuffers
<1>4. ASSUME NEW i \in Images \ spoilt, NEW x \in Blocks
      PROVE  HeldIn(State', i, x) = written'[i][x]
  <2>1. HeldIn(State, i, x) = written[i][x]
    BY <1>1 DEF Kept, Intact
  <2> QED BY <1>1, <1>2, <1>3, <2>1 DEF HeldIn, Tracked
<1>5. \A d \in Drives : \/ State'.drive[d].fname = NoImage
                        \/ State'.drive[d].head = "good"
                        \/ State'.drive[d].fname \in State'.spoilt
  BY <1>1 DEF Kept, Intact
<1>6. d88trk.fdd # NoDrive /\ drive[d88trk.fdd].fname \notin spoilt =>
        /\ d88trk.at = d88trk.track
        /\ ~d88trk.write => d88trk.val = content[drive[d88trk.fdd].fname][d88trk.at]
  BY <1>1 DEF Kept, Intact, Tracked
<1>7. d88trk.fdd # NoDrive =>
        content'[drive[d88trk.fdd].fname][d88trk.at]
          = content[drive[d88trk.fdd].fname][d88trk.at]
  BY <1>2, <1>3 DEF Images
<1>8. Intact(State', written')
  BY <1>1, <1>4, <1>5, <1>6, <1>7 DEF Intact, Tracked
<1>9. ~misread'
  BY DEF Kept
<1> QED BY <1>8, <1>9 DEF Kept, State

(* An image's file holds what was last written, but for a buffered track.  *)
LEMMA FileValue ==
  ASSUME Inv, Kept, NEW img \in Images \ D88, img \notin spoilt, NEW b \in Blocks
  PROVE  content[img][b] = written[img][b]
<1>1. /\ State.content = content /\ State.drive = drive /\ State.d88trk = d88trk
      /\ State.spoilt = spoilt
  BY DEF State
<1>2. d88trk.fdd # NoDrive => drive[d88trk.fdd].fname # img
  BY InvParts
<1>3. HeldIn(State, img, b) = written[img][b]
  BY <1>1 DEF Kept, Intact
<1> QED BY <1>1, <1>2, <1>3 DEF HeldIn, Tracked

LEMMA XdfKeeps ==
  ASSUME Inv, Kept, NEW d \in Drives, NEW b \in Tracks,
         fdd_read_xdf(d, b) \/ fdd_write_xdf(d, b)
  PROVE  Kept'
<1> DEFINE img == drive[d].fname
<1>1. img \in Raw /\ img \in Images \ D88 /\ b \in Blocks
  BY ImagesApart, FilesAssumption DEF fdd_read_xdf, fdd_write_xdf, RawDrive, Images,
     Tracks, Blocks
<1>2. CASE fdd_read_xdf(d, b)
  <2>1. UNCHANGED <<content, drive, d88trk, spoilt, written>>
    BY <1>2 DEF fdd_read_xdf, disks
  <2>2. Answer(img, content[img][b], b) \/ UNCHANGED misread
    BY <1>2 DEF fdd_read_xdf
  <2>3. img \notin spoilt => content[img][b] = written[img][b]
    <3> HIDE DEF img
    <3> QED BY <1>1, FileValue
  <2>4. ~misread'
    BY <2>2, <2>3 DEF Answer, Kept
  <2> QED BY <2>1, <2>4, SameKeeps
<1>3. CASE fdd_write_xdf(d, b)
  <2>1. /\ UNCHANGED <<drive, d88trk, spoilt, misread>>
        /\ \/ UNCHANGED <<content, written>>
           \/ /\ content' = [content EXCEPT ![img][b] = writes + 1]
              /\ written' = [written EXCEPT ![img][b] = writes + 1]
    BY <1>3 DEF fdd_write_xdf
  <2>2. CASE UNCHANGED <<content, written>>
    BY <2>1, <2>2, SameKeeps DEF Kept
  <2>3. CASE /\ content' = [content EXCEPT ![img][b] = writes + 1]
             /\ written' = [written EXCEPT ![img][b] = writes + 1]
    <3> HIDE DEF img
    <3> QED BY <1>1, <2>1, <2>3, FileWriteKeeps
  <2> QED BY <2>1, <2>2, <2>3
<1> QED BY <1>2, <1>3

LEMMA HddKeeps ==
  ASSUME Inv, Kept, NEW b \in Tracks, hdd_read(b) \/ hdd_write(b)
  PROVE  Kept'
<1>1. /\ hdd.hdl # NoFd /\ layer.fds[hdd.hdl].path = hdd.path
      /\ hdd.path \in Images \ D88 /\ b \in Blocks
  BY HddTransfers, ImagesApart, FilesAssumption DEF hdd_read, hdd_write, Images,
     Tracks, Blocks
<1>2. CASE hdd_read(b)
  <2>1. UNCHANGED <<content, drive, d88trk, spoilt, written>>
    BY <1>2 DEF hdd_read, disks
  <2>2. Answer(hdd.path, content[hdd.path][b], b)
    BY <1>1, <1>2 DEF hdd_read
  <2>3. hdd.path \notin spoilt => content[hdd.path][b] = written[hdd.path][b]
    BY <1>1, FileValue
  <2>4. ~misread'
    BY <2>2, <2>3 DEF Answer, Kept
  <2> QED BY <2>1, <2>4, SameKeeps
<1>3. CASE hdd_write(b)
  <2>1. /\ UNCHANGED <<drive, d88trk, spoilt, misread>>
        /\ content' = [content EXCEPT ![hdd.path][b] = writes + 1]
        /\ written' = [written EXCEPT ![hdd.path][b] = writes + 1]
    BY <1>1, <1>3 DEF hdd_write
  <2> QED BY <1>1, <2>1, FileWriteKeeps
<1> QED BY <1>2, <1>3

LEMMA InsertKeeps ==
  ASSUME Inv, Kept, NEW d \in Drives, NEW img \in D88 \cup Raw, Insert(d, img)
  PROVE  Kept'
<1>1. PICK eof \in BOOLEAN : Becomes(fdd_set(State, d, img, eof))
  BY DEF Insert
<1> DEFINE s == fdd_set(State, d, img, eof)
<1>2. s \in States
  BY FddSets DEF Inv, StateOK
<1>3. Intact(s, written')
  <2>1. Intact(s, written)
    BY FddSetKeeps DEF Inv, Kept
  <2> QED BY <2>1 DEF Insert
<1>4. ~misread' /\ Becomes(s)
  BY <1>1 DEF Insert, Kept
<1> HIDE DEF s
<1> QED BY <1>2, <1>3, <1>4, BecomesKeeps

LEMMA EjectKeeps ==
  ASSUME Inv, Kept, NEW d \in Drives, fdd_eject(d)
  PROVE  Kept'
<1> DEFINE f == drvflush(State, d)
           n == [f EXCEPT !.drive[d] = EmptyDrive]
           dr == [f.drive EXCEPT ![d] = EmptyDrive]
<1>1. /\ f \in States /\ f.d88trk.fdd # d /\ Intact(f, written)
  BY DrvFlushes, DrvFlushKeeps DEF Inv, Kept, StateOK
<1>2. Becomes(n) /\ ~misread' /\ UNCHANGED written
  BY DEF fdd_eject, Kept
<1> HIDE DEF f
<1>3. /\ f = [layer |-> f.layer, content |-> f.content, drive |-> f.drive,
              d88trk |-> f.d88trk, spoilt |-> f.spoilt]
      /\ f.layer \in Layers /\ f.content \in Contents /\ f.drive \in DriveStates
      /\ f.d88trk \in TrackBuffers /\ f.spoilt \in SUBSET Images
  BY <1>1 DEF States
<1>4. n = [layer |-> f.layer, content |-> f.content, drive |-> dr,
           d88trk |-> f.d88trk, spoilt |-> f.spoilt]
  BY <1>3
<1>5. dr \in DriveStates
  BY <1>3 DEF DriveStates, EmptyDrive, Heads
<1> HIDE DEF n
<1>6. /\ n \in States /\ n.content = f.content /\ n.d88trk = f.d88trk
      /\ n.spoilt = f.spoilt /\ n.drive = [f.drive EXCEPT ![d] = EmptyDrive]
  BY <1>3, <1>4, <1>5 DEF States
<1>7. EmptyDrive.fname = NoImage
  BY DEF EmptyDrive
<1>8. Intact(n, written)
  BY <1>1, <1>6, <1>7, DriveChanges
<1> QED BY <1>2, <1>6, <1>8, BecomesKeeps

LEMMA RestartKeeps ==
  ASSUME Kept, Restart
  PROVE  Kept'
<1>1. /\ State'.d88trk = NoTrack /\ State'.content = content
      /\ State'.drive = [d \in Drives |-> EmptyDrive]
      /\ written' = content /\ UNCHANGED misread
  BY DEF Restart, State
<1>2. \A d \in Drives : State'.drive[d].fname = NoImage
  BY <1>1 DEF EmptyDrive
<1>3. Intact(State', written')
  BY <1>1, <1>2, NoTrackIsEmpty DEF Intact, HeldIn
<1>4. ~misread'
  BY <1>1 DEF Kept
<1> QED BY <1>3, <1>4 DEF Kept, State

LEMMA BootKeeps ==
  ASSUME Inv, Kept, Boot
  PROVE  Kept'
<1> DEFINE s1(e) == Mount(BootState, 0, nvs.fdd0, e)
           s2(e) == Mount(s1(e), 1, nvs.fdd1, e)
<1>1. PICK eof \in BOOLEAN : Becomes(s2(eof))
  BY DEF Boot, BootState, BootHdd
<1>2. StateOK(s1(eof), BootHdd.hdl, nvs.hdd)
  BY BootStarts, Mounting DEF Drives
<1>3. Intact(BootState, written)
  BY LayerKeeps DEF Inv, Kept, StateOK, BootState
<1>4. Intact(s1(eof), written)
  BY <1>3, BootStarts, MountKeeps DEF Drives
<1>5. StateOK(s2(eof), BootHdd.hdl, nvs.hdd) /\ Intact(s2(eof), written)
  <2> HIDE DEF s1
  <2> QED BY <1>2, <1>4, BootStarts, Mounting, MountKeeps DEF Drives
<1>6. ~misread' /\ UNCHANGED written
  BY DEF Boot, Kept
<1> HIDE DEF s2
<1> QED BY <1>1, <1>5, <1>6, BecomesKeeps DEF StateOK

LEMMA StepKept == Inv /\ Kept /\ [Next]_vars => Kept'
<1> SUFFICES ASSUME Inv, Kept, [Next]_vars PROVE Kept'
  OBVIOUS
<1>1. ASSUME NEW b \in Tracks, NEW d \in Drives,
             \/ fdd_read_d88(d, b) \/ fdd_write_d88(d, b)
             \/ fdd_read_xdf(d, b) \/ fdd_write_xdf(d, b)
      PROVE  Kept'
  BY <1>1, ReadD88Keeps, WriteD88Keeps, XdfKeeps
<1>2. ASSUME NEW b \in Tracks, hdd_read(b) \/ hdd_write(b) PROVE Kept'
  BY <1>2, HddKeeps
<1>3. CASE menu_disk_run
  BY <1>3, SameKeeps DEF menu_disk_run, disks, Kept
<1>4. ASSUME NEW d \in Drives, NEW img \in D88 \cup Raw, Insert(d, img) PROVE Kept'
  BY <1>4, InsertKeeps
<1>5. ASSUME NEW d \in Drives, fdd_eject(d) PROVE Kept'
  BY <1>5, EjectKeeps
<1>6. ASSUME NEW img \in Hdds, PickHdd(img) PROVE Kept'
  BY <1>6, SameKeeps DEF PickHdd, disks, Kept
<1>7. CASE Leave
  BY <1>7, SameKeeps DEF Leave, disks, Kept
<1>8. CASE Reset \/ EjectHdd \/ PowerCut
  BY <1>8, RestartKeeps DEF Reset, EjectHdd, PowerCut
<1>9. CASE Boot
  BY <1>9, BootKeeps
<1>10. CASE UNCHANGED vars
  BY <1>10, SameKeeps DEF vars, Kept
<1>11. CASE Guest
  BY <1>1, <1>2, <1>11 DEF Guest
<1>12. CASE Menu
  BY <1>4, <1>5, <1>6, <1>7, <1>8, <1>12 DEF Menu
<1> QED BY <1>3, <1>8, <1>9, <1>10, <1>11, <1>12 DEF Next

LEMMA KeptAlways == Spec => []Kept
<1> QED BY InitKept, StepKept, InvAlways, PTL DEF Spec

(* Nothing that the guest wrote is lost or misplaced, for any images,      *)
(* cache slots and descriptors, as long as no bad header and no failed     *)
(* flush touched the image: it is in the file or in the track buffer.      *)
THEOREM WritesKeptHolds == Spec => []WritesKept
<1>1. Kept => WritesKept
  <2> SUFFICES ASSUME Kept, NEW img \in Images \ spoilt, NEW b \in Blocks
               PROVE  Held(img, b) = written[img][b]
    BY DEF WritesKept
  <2>1. HeldIn(State, img, b) = written[img][b]
    BY DEF Kept, Intact, State
  <2> QED BY <2>1 DEF HeldIn, Held, Pending, Tracked, State
<1> QED BY <1>1, KeptAlways, PTL

(* A read by the guest gives what was last written to that place of an     *)
(* unspoilt image, through whichever drive.                                *)
THEOREM ReadsLatestHolds == Spec => []ReadsLatest
<1>1. Kept => ReadsLatest
  BY DEF Kept, ReadsLatest
<1> QED BY <1>1, KeptAlways, PTL

-----------------------------------------------------------------------------
(* A boot: what the mounts were saved as is what the drives hold after it. *)

(* Of the files that are open only those of P were read, and the fixed     *)
(* disk's handle is one of the cache's, so that nothing else is open.      *)
MovedOnly(st, P) == \A f \in FdIds : st.fds[f].moved => st.fds[f].path \in P
Fresh(st, k, q, P) ==
  Sound(st, k, q) /\ MovedOnly(st, P) /\ (k # NoFd => cache_owns(st, k))

(* The cache never takes the last descriptor. *)
LEMMA FdLeft ==
  ASSUME NEW st, NEW k, NEW q, NEW P, Fresh(st, k, q, P)
  PROVE  FreeFds(st) # {}
<1> SUFFICES ASSUME FreeFds(st) = {} PROVE FALSE
  OBVIOUS
<1>1. \A f \in FdIds : \E i \in SlotIds : st.s_cache[i].fd = f
  <2> SUFFICES ASSUME NEW f \in FdIds PROVE cache_owns(st, f)
    BY DEF cache_owns
  <2>1. st.fds[f] # Closed
    BY DEF FreeFds
  <2>2. f # NoFd
    BY DEF FdIds, NoFd
  <2> QED  BY <2>1, <2>2 DEF Fresh, Sound, NoneLeaked
<1> DEFINE slot == [f \in FdIds |-> CHOOSE i \in SlotIds : st.s_cache[i].fd = f]
<1>2. \A f \in FdIds : slot[f] \in SlotIds /\ st.s_cache[slot[f]].fd = f
  BY <1>1
<1>3. slot \in [FdIds -> SlotIds]
  BY <1>2
<1>4. /\ IsFiniteSet(SlotIds) /\ Cardinality(SlotIds) = Slots
      /\ IsFiniteSet(FdIds) /\ Cardinality(FdIds) = MaxFds
  <2>1. /\ Slots \in Nat /\ MaxFds \in Nat /\ Slots > 0 /\ MaxFds > 0
        /\ Slots - 1 \in Int /\ MaxFds - 1 \in Int
    BY SizesAssumption
  <2> QED  BY <2>1, FS_Interval DEF SlotIds, FdIds
<1>5. Cardinality(SlotIds) < Cardinality(FdIds)
  BY <1>4, SizesAssumption
<1> HIDE DEF slot
<1>6. \E f, g \in FdIds : f # g /\ slot[f] = slot[g]
  BY <1>3, <1>4, <1>5, FS_PigeonHole
<1> QED  BY <1>2, <1>6

(* So a file is opened, from its start unless it is in the cache.          *)
LEMMA FreshOpens ==
  ASSUME NEW st, NEW k, NEW q, NEW P, Fresh(st, k, q, P),
         NEW p \in Files, k = NoFd \/ p # q
  PROVE  LET o == cache_open(st, p) IN
         /\ Opened(st, p, o) /\ o.fd \in FdIds /\ o.st.fds[o.fd].path = p
         /\ MovedOnly(o.st, P) /\ (k # NoFd => cache_owns(o.st, k))
<1> DEFINE o == cache_open(st, p)
           s == SysOpen(st, p)
<1>1. Opened(st, p, o)
  BY Opens DEF Fresh
<1>2. FreeFds(st) # {} /\ st \in Layers
  BY FdLeft DEF Fresh, Sound, LayerOK
<1>3. s.fd \in FdIds /\ s.st.fds = [st.fds EXCEPT ![s.fd] = [path |-> p, moved |-> FALSE]]
  <2>1. s.fd \in FdIds
    BY <1>2 DEF SysOpen, OneOf, FreeFds
  <2> QED  BY <1>2, <2>1, SysOpens DEF NoFd, FdIds
<1>4. \/ o.st = st /\ \E i \in SlotIds : st.s_cache[i].fd # NoFd /\ o.fd = st.s_cache[i].fd
      \/ o.fd = s.fd /\ o.st.fds = s.st.fds
  <2>1. CASE Hits(st, p) # {}
    <3>1. PICK i \in SlotIds : st.s_cache[i].fd # NoFd /\ i = OneOf(Hits(st, p))
      BY <2>1 DEF OneOf, Hits
    <3>2. o = [st |-> st, fd |-> st.s_cache[i].fd]
      BY <2>1, <3>1 DEF cache_open
    <3> QED  BY <3>1, <3>2
  <2>2. CASE Hits(st, p) = {}
    <3>1. o = s \/ o = [s EXCEPT !.st.s_cache[OneOf(FreeSlots(st))] = [path |-> p, fd |-> s.fd]]
      BY <2>2 DEF cache_open
    <3>2. s = [st |-> s.st, fd |-> s.fd] /\ s.st = [s_cache |-> s.st.s_cache, fds |-> s.st.fds]
      <4>1. s.st \in Layers
        BY <1>2, SysOpens
      <4>2. s = [st |-> s.st, fd |-> s.fd]
        BY DEF SysOpen
      <4> HIDE DEF s
      <4> QED  BY <4>1, <4>2 DEF Layers
    <3> HIDE DEF o, s
    <3> QED  BY <3>1, <3>2
  <2> QED  BY <2>1, <2>2
<1> HIDE DEF o, s
<1>5. o.fd \in FdIds
  BY <1>2, <1>3, <1>4 DEF Layers
<1>6. MovedOnly(o.st, P)
  <2>1. CASE o.st = st
    BY <2>1 DEF Fresh
  <2>2. CASE o.fd = s.fd /\ o.st.fds = s.st.fds
    BY <1>2, <1>3, <2>2 DEF Fresh, MovedOnly, Layers
  <2> QED  BY <1>4, <2>1, <2>2
<1>7. o.st.fds[o.fd].path = p
  BY <1>1, <1>5 DEF Opened, FdIds, NoFd
<1>8. k # NoFd => cache_owns(o.st, k)
  BY <1>1 DEF Opened, Fresh, Sound
<1> QED  BY <1>1, <1>5, <1>6, <1>7, <1>8 DEF o

(* What is opened is closed again, read or not.                            *)
LEMMA FreshCloses ==
  ASSUME NEW st, NEW k, NEW q, NEW P, Fresh(st, k, q, P),
         NEW p \in Files, k = NoFd \/ p # q,
         NEW l, l = Access(st, p).st \/ l = sd_file_exists(st, p).st
  PROVE  /\ Fresh(l, k, q, P \cup {p})
         /\ Access(st, p).ok /\ sd_file_exists(st, p).ok
         /\ l = sd_file_exists(st, p).st => Fresh(l, k, q, P)
<1> DEFINE o == cache_open(st, p)
           t == Transfer(o.st, o.fd)
<1>1. /\ Opened(st, p, o) /\ o.fd \in FdIds /\ o.st.fds[o.fd].path = p
      /\ MovedOnly(o.st, P) /\ (k # NoFd => cache_owns(o.st, k))
  BY FreshOpens
<1>2. o.fd # NoFd
  BY <1>1 DEF FdIds, NoFd
<1>3. /\ sd_file_exists(st, p) = [st |-> file_close(o.st, o.fd), ok |-> TRUE]
      /\ Access(st, p) = [st |-> file_close(t, o.fd), ok |-> TRUE]
  BY <1>2 DEF sd_file_exists, Access
<1>4. Sound(l, k, q)
  BY Accesses DEF Fresh
<1> HIDE DEF o
<1>5. /\ LayerOK(t) /\ t.s_cache = o.st.s_cache
      /\ \A f \in FdIds : t.fds[f].path = o.st.fds[f].path
      /\ \A f \in FdIds : f # o.fd => t.fds[f] = o.st.fds[f]
  <2>1. o.st.fds[o.fd].path # "closed" /\ LayerOK(o.st)
    BY <1>1, SizesAssumption DEF Opened
  <2> QED  BY <1>1, <2>1, Transfers
<1> HIDE DEF t
<1>6. MovedOnly(t, P \cup {p})
  BY <1>1, <1>5 DEF MovedOnly
<1>7. ASSUME NEW u, NEW R, u = o.st \/ u = t, MovedOnly(u, R), l = file_close(u, o.fd)
      PROVE  MovedOnly(l, R) /\ (k # NoFd => cache_owns(l, k))
  <2>1. LayerOK(u) /\ u.s_cache = o.st.s_cache
    BY <1>1, <1>5, <1>7 DEF Opened
  <2>2. /\ l.s_cache = u.s_cache
        /\ \A f \in FdIds : f # o.fd => l.fds[f] = u.fds[f]
        /\ l.fds[o.fd] = u.fds[o.fd] \/ l.fds[o.fd] = Closed
    BY <1>1, <1>2, <1>7, <2>1, Closes
  <2>3. MovedOnly(l, R)
    BY <1>7, <2>2 DEF MovedOnly, Closed
  <2>4. k # NoFd => cache_owns(l, k)
    BY <1>1, <2>1, <2>2 DEF cache_owns
  <2> QED  BY <2>3, <2>4
<1>8. CASE l = sd_file_exists(st, p).st
  <2>1. l = file_close(o.st, o.fd)
    BY <1>3, <1>8
  <2>2. Fresh(l, k, q, P)
    BY <1>1, <1>4, <1>7, <2>1 DEF Fresh
  <2>3. Fresh(l, k, q, P \cup {p})
    BY <2>2 DEF Fresh, MovedOnly
  <2> QED  BY <1>3, <2>2, <2>3
<1>9. CASE l = Access(st, p).st /\ l # sd_file_exists(st, p).st
  <2>1. l = file_close(t, o.fd)
    BY <1>3, <1>9
  <2>2. Fresh(l, k, q, P \cup {p})
    BY <1>4, <1>6, <1>7, <2>1 DEF Fresh
  <2> QED  BY <1>3, <1>9, <2>2
<1> QED  BY <1>8, <1>9

LEMMA FreshExists ==
  ASSUME NEW st, NEW k, NEW q, NEW P, Fresh(st, k, q, P),
         NEW img \in Files \cup {NoImage}, k = NoFd \/ img # q
  PROVE  Fresh(Exists(st, img), k, q, P)
<1>1. CASE img = NoImage
  BY <1>1 DEF Exists
<1>2. CASE img # NoImage
  <2>1. Exists(st, img) = sd_file_exists(st, img).st
    BY <1>2 DEF Exists
  <2> QED  BY <1>2, <2>1, FreshCloses
<1> QED  BY <1>1, <1>2

(* A setter finds the header of an image that was not read before.         *)
LEMMA FreshImage ==
  ASSUME NEW st, NEW k, NEW q, NEW P, Fresh(st, k, q, P), q \in Hdds \cup {NoImage},
         NEW img \in D88 \cup Raw, img \notin P, NEW eof
  PROVE  /\ OpenImage(st, img, eof).head = "good"
         /\ Fresh(OpenImage(st, img, eof).st, k, q, P \cup {img})
<1> DEFINE h == ReadHeader(st, img, eof)
           e == sd_file_exists(st, img)
           o == cache_open(st, img)
           n == OpenImage(st, img, eof)
<1>1. img \in Files /\ img # q
  BY ImagesApart DEF Images
<1>2. CASE img \in D88
  <2>1. /\ Opened(st, img, o) /\ o.fd \in FdIds /\ o.st.fds[o.fd].path = img
        /\ MovedOnly(o.st, P)
    BY <1>1, FreshOpens
  <2>2. o.fd # NoFd
    BY <2>1 DEF FdIds, NoFd
  <2>3. ~o.st.fds[o.fd].moved
    BY <2>1 DEF MovedOnly
  <2>4. h = [st |-> Transfer(o.st, o.fd), fd |-> o.fd, head |-> "good"]
    BY <2>2, <2>3 DEF ReadHeader
  <2>5. Access(st, img).st = file_close(Transfer(o.st, o.fd), o.fd)
    BY <2>2 DEF Access
  <2>6. n = [st |-> file_close(h.st, h.fd), head |-> h.head]
    BY <1>2 DEF OpenImage
  <2>7. n.st = Access(st, img).st /\ n.head = "good"
    <3> HIDE DEF n, h, o
    <3> QED  BY <2>4, <2>5, <2>6
  <2> HIDE DEF n
  <2>8. Fresh(n.st, k, q, P \cup {img})
    BY <1>1, <2>7, FreshCloses
  <2> QED  BY <2>7, <2>8 DEF n
<1>3. CASE img \notin D88
  <2>1. n = [st |-> e.st, head |-> IF e.ok THEN "good" ELSE "none"]
    BY <1>3 DEF OpenImage
  <2>2. e.ok /\ Fresh(e.st, k, q, P \cup {img})
    BY <1>1, FreshCloses
  <2> HIDE DEF n, e
  <2>3. n.st = e.st /\ n.head = "good"
    BY <2>1, <2>2
  <2> QED  BY <2>2, <2>3 DEF n
<1> QED  BY <1>2, <1>3

(* A slot that is taken stays taken by its file, and a free one is used.   *)
LEMMA SlotsStay ==
  ASSUME NEW st, NEW P, Fresh(st, NoFd, NoImage, P), NEW p \in Files,
         NEW r, Hits(st, r) # {} \/ (r = p /\ FreeSlots(st) # {})
  PROVE  Hits(sd_file_exists(st, p).st, r) # {}
<1> DEFINE o == cache_open(st, p)
           s == SysOpen(st, p)
           j == OneOf(FreeSlots(st))
<1>1. Opened(st, p, o) /\ o.fd \in FdIds
  BY FreshOpens
<1>2. s.fd # NoFd /\ s.fd \in FdIds /\ s.st \in Layers /\ s.st.s_cache = st.s_cache
  <2>1. FreeFds(st) # {} /\ st \in Layers
    BY FdLeft DEF Fresh, Sound, LayerOK
  <2>2. s.fd \in FdIds
    BY <2>1 DEF SysOpen, OneOf, FreeFds
  <2>3. s.fd # NoFd
    BY <2>2 DEF NoFd, FdIds
  <2> HIDE DEF s
  <2>4. s.st \in Layers /\ s.st.s_cache = st.s_cache
    BY <2>1, <2>3, SysOpens DEF s
  <2> QED  BY <2>2, <2>3, <2>4
<1>3. Hits(o.st, r) # {}
  <2>1. CASE Hits(st, p) # {}
    <3>1. o.st = st
      BY <2>1 DEF cache_open
    <3> QED  BY <2>1, <3>1
  <2>2. CASE Hits(st, p) = {} /\ FreeSlots(st) = {}
    <3>1. o = s
      BY <2>2 DEF cache_open
    <3> HIDE DEF o, s
    <3> QED  BY <1>2, <2>2, <3>1 DEF Hits
  <2>3. CASE Hits(st, p) = {} /\ FreeSlots(st) # {}
    <3>1. o = [s EXCEPT !.st.s_cache[j] = [path |-> p, fd |-> s.fd]]
      BY <1>2, <2>3 DEF cache_open
    <3>2. s = [st |-> s.st, fd |-> s.fd]
      BY DEF SysOpen
    <3>3. j \in SlotIds /\ st.s_cache[j].fd = NoFd
      BY <2>3 DEF OneOf, FreeSlots
    <3> HIDE DEF o, s, j
    <3>4. s.st = [s_cache |-> s.st.s_cache, fds |-> s.st.fds]
          /\ st.s_cache \in [SlotIds -> [path : Files \cup {"none"}, fd : FdIds \cup {NoFd}]]
      BY <1>2 DEF Layers
    <3>5. o.st.s_cache = [st.s_cache EXCEPT ![j] = [path |-> p, fd |-> s.fd]]
      BY <1>2, <3>1, <3>2, <3>4
    <3>6. CASE r = p
      <4>1. o.st.s_cache[j].fd # NoFd /\ o.st.s_cache[j].path = r
        BY <1>2, <3>3, <3>4, <3>5, <3>6
      <4> QED  BY <3>3, <4>1 DEF Hits
    <3>7. CASE r # p
      <4>1. PICK i \in SlotIds : st.s_cache[i].fd # NoFd /\ st.s_cache[i].path = r
        BY <3>7 DEF Hits
      <4>2. o.st.s_cache[i] = st.s_cache[i]
        BY <3>3, <3>4, <3>5, <4>1
      <4> QED  BY <4>1, <4>2 DEF Hits
    <3> QED  BY <3>6, <3>7
  <2> QED  BY <2>1, <2>2, <2>3
<1>4. sd_file_exists(st, p).st = file_close(o.st, o.fd)
  BY DEF sd_file_exists
<1> HIDE DEF o
<1>5. file_close(o.st, o.fd).s_cache = o.st.s_cache
  BY <1>1, Closes DEF Opened
<1> QED  BY <1>3, <1>4, <1>5 DEF Hits

LEMMA StillCached ==
  ASSUME NEW st, NEW P, Fresh(st, NoFd, NoImage, P), NEW img \in Files \cup {NoImage},
         NEW r,
         Hits(st, r) # {} \/ (r = img /\ img # NoImage /\ FreeSlots(st) # {})
  PROVE  Hits(Exists(st, img), r) # {}
<1>1. CASE img = NoImage
  BY <1>1 DEF Exists
<1>2. CASE img # NoImage
  BY <1>2, SlotsStay DEF Exists
<1> QED  BY <1>1, <1>2

(* The fixed disk is the first file a boot opens, so its handle is the     *)
(* cache's, and nobody read it before.                                     *)
LEMMA HddComes ==
  ASSUME NEW st, Fresh(st, NoFd, NoImage, {}), NEW img \in Hdds \cup {NoImage},
         img # NoImage => Hits(st, img) # {}
  PROVE  /\ Fresh(hddbind(st, img).st, hddbind(st, img).hdl, img, {img})
         /\ img # NoImage => hddbind(st, img).hdl # NoFd
<1> DEFINE n == hddbind(st, img)
           o == cache_open(st, img)
           h == ReadHeader(st, img, FALSE)
<1>1. Sound(n.st, n.hdl, img)
  BY HddBinds DEF Fresh
<1>2. CASE img = NoImage
  <2>1. n.st = st /\ n.hdl = NoFd
    BY <1>2 DEF hddbind
  <2> HIDE DEF n
  <2>2. Fresh(n.st, n.hdl, img, {img})
    BY <1>1, <2>1 DEF Fresh, MovedOnly
  <2> QED  BY <1>2, <2>2 DEF n
<1>3. CASE img # NoImage
  <2>0. img \in Files
    BY <1>3, ImagesApart DEF Images
  <2>1. PICK i \in SlotIds : /\ st.s_cache[i].fd # NoFd /\ st.s_cache[i].path = img
                            /\ i = OneOf(Hits(st, img))
    BY <1>3 DEF Hits, OneOf
  <2>2. o = [st |-> st, fd |-> st.s_cache[i].fd]
    BY <1>3, <2>1 DEF cache_open
  <2>3. /\ o.st = st /\ o.fd = st.s_cache[i].fd /\ o.fd # NoFd /\ cache_owns(st, o.fd)
    BY <2>1, <2>2 DEF cache_owns
  <2>4. o.fd \in FdIds /\ st.fds[o.fd].path = img /\ LayerOK(st)
    BY <2>1, <2>3 DEF Fresh, Sound, LayerOK, Layers, SlotsOpen
  <2>5. ~o.st.fds[o.fd].moved
    BY <2>3, <2>4 DEF Fresh, MovedOnly
  <2>6. h = [st |-> Transfer(st, o.fd), fd |-> o.fd, head |-> "good"]
    BY <2>3, <2>5 DEF ReadHeader
  <2>7. n = [st |-> h.st, hdl |-> h.fd]
    <3>1. h.head = "good"
      <4> HIDE DEF h
      <4> QED  BY <2>6
    <3> QED  BY <1>3, <3>1 DEF hddbind
  <2> HIDE DEF n, h, o
  <2>8. n.st = Transfer(st, o.fd) /\ n.hdl = o.fd
    BY <2>6, <2>7
  <2>9. st.fds[o.fd].path # "closed"
    BY <2>0, <2>4, SizesAssumption
  <2>10. /\ n.st.s_cache = st.s_cache
         /\ \A f \in FdIds : n.st.fds[f].path = st.fds[f].path
         /\ \A f \in FdIds : f # o.fd => n.st.fds[f] = st.fds[f]
    BY <2>4, <2>8, <2>9, Transfers
  <2>11. MovedOnly(n.st, {img})
    BY <2>4, <2>10 DEF MovedOnly, Fresh
  <2>12. cache_owns(n.st, n.hdl)
    BY <2>3, <2>8, <2>10 DEF cache_owns
  <2>13. Fresh(n.st, n.hdl, img, {img}) /\ n.hdl # NoFd
    BY <1>1, <2>3, <2>8, <2>11, <2>12 DEF Fresh
  <2> QED  BY <2>13 DEF n
<1> QED  BY <1>2, <1>3

LEMMA BootLayer ==
  ASSUME Inv
  PROVE  /\ Fresh(BootHdd.st, BootHdd.hdl, nvs.hdd, {nvs.hdd})
         /\ nvs.hdd # NoImage => BootHdd.hdl # NoFd
<1> DEFINE st1 == Exists(dosio_init, nvs.hdd)
           media == IF nvs.fdd0 # NoImage THEN nvs.fdd0 ELSE nvs.fdd1
           st2 == IF nvs.hdd # NoImage THEN st1 ELSE Exists(st1, media)
           st3 == Exists(st2, BiosRom)
           st4 == Exists(st3, FontRom)
<1>1. /\ nvs.hdd \in Hdds \cup {NoImage} /\ nvs.hdd \in Files \cup {NoImage}
      /\ media \in Files \cup {NoImage}
      /\ BiosRom \in Files \cup {NoImage} /\ FontRom \in Files \cup {NoImage}
  BY BootStarts, ImagesApart, FilesAssumption DEF Images
<1>2. Fresh(dosio_init, NoFd, NoImage, {}) /\ FreeSlots(dosio_init) # {}
  <2>1. Sound(dosio_init, NoFd, NoImage)
    BY InitSound
  <2>2. MovedOnly(dosio_init, {})
    BY DEF MovedOnly, dosio_init, Closed
  <2>3. 0 \in SlotIds
    BY SizesAssumption DEF SlotIds
  <2>4. 0 \in FreeSlots(dosio_init)
    BY <2>3 DEF FreeSlots, dosio_init
  <2> QED  BY <2>1, <2>2, <2>4 DEF Fresh
<1>3. Fresh(st1, NoFd, NoImage, {}) /\ (nvs.hdd # NoImage => Hits(st1, nvs.hdd) # {})
  BY <1>1, <1>2, FreshExists, StillCached
<1> HIDE DEF st1, media
<1>4. Fresh(st2, NoFd, NoImage, {}) /\ (nvs.hdd # NoImage => Hits(st2, nvs.hdd) # {})
  BY <1>1, <1>3, FreshExists
<1> HIDE DEF st2
<1>5. Fresh(st3, NoFd, NoImage, {}) /\ (nvs.hdd # NoImage => Hits(st3, nvs.hdd) # {})
  <2>1. Fresh(st3, NoFd, NoImage, {})
    BY <1>1, <1>4, FreshExists
  <2>2. Hits(st2, nvs.hdd) # {} => Hits(st3, nvs.hdd) # {}
    BY <1>1, <1>4, StillCached
  <2> QED  BY <1>4, <2>1, <2>2
<1> HIDE DEF st3
<1>6. Fresh(st4, NoFd, NoImage, {}) /\ (nvs.hdd # NoImage => Hits(st4, nvs.hdd) # {})
  <2>1. Fresh(st4, NoFd, NoImage, {})
    BY <1>1, <1>5, FreshExists
  <2>2. Hits(st3, nvs.hdd) # {} => Hits(st4, nvs.hdd) # {}
    BY <1>1, <1>5, StillCached
  <2> QED  BY <1>5, <2>1, <2>2
<1>7. BootHdd = hddbind(st4, nvs.hdd)
  BY DEF BootHdd, st1, media, st2, st3
<1> HIDE DEF st4
<1> QED  BY <1>1, <1>6, <1>7, HddComes

(* The other drive keeps its image, and this one gets its own.             *)
LEMMA FreshSet ==
  ASSUME NEW s, NEW k, NEW q, StateOK(s, k, q), NEW P, Fresh(s.layer, k, q, P),
         NEW d \in Drives, s.d88trk.fdd # d, NEW img \in D88 \cup Raw, NEW eof
  PROVE  LET n == fdd_set(s, d, img, eof) IN
         /\ n.d88trk = s.d88trk
         /\ \A e \in Drives : e # d => n.drive[e] = s.drive[e]
         /\ img \notin P => n.drive[d].fname = img /\ Fresh(n.layer, k, q, P \cup {img})
<1> DEFINE o == OpenImage(s.layer, img, eof)
           g == [s EXCEPT !.layer = o.st]
           n == fdd_set(s, d, img, eof)
           r == [fname |-> img, head |-> o.head]
<1>1. drvflush(s, d) = s
  BY DEF drvflush
<1>2. n = IF o.head = "none" THEN g
          ELSE [g EXCEPT !.drive[d] = r,
                         !.spoilt = IF o.head = "good" THEN @ ELSE @ \cup {img}]
  BY <1>1 DEF fdd_set
<1>3. /\ s = [layer |-> s.layer, content |-> s.content, drive |-> s.drive,
              d88trk |-> s.d88trk, spoilt |-> s.spoilt]
      /\ s.drive \in DriveStates
  BY DEF StateOK, States
<1>4. g = [layer |-> o.st, content |-> s.content, drive |-> s.drive,
           d88trk |-> s.d88trk, spoilt |-> s.spoilt]
  <2> HIDE DEF o
  <2> QED  BY <1>3
<1>5. q \in Hdds \cup {NoImage}
  BY DEF StateOK
<1>6. img \notin P => o.head = "good" /\ Fresh(o.st, k, q, P \cup {img})
  BY <1>5, FreshImage
<1> HIDE DEF o, n, g, r
<1>7. CASE o.head = "none"
  <2>1. n = g
    BY <1>2, <1>7
  <2>2. n.d88trk = s.d88trk /\ n.drive = s.drive
    BY <1>4, <2>1
  <2>3. img \in P
    BY <1>6, <1>7
  <2> QED  BY <2>2, <2>3 DEF n
<1>8. CASE o.head # "none"
  <2>1. n.d88trk = s.d88trk /\ n.drive = [s.drive EXCEPT ![d] = r] /\ n.layer = o.st
    BY <1>2, <1>4, <1>8
  <2>2. \A e \in Drives : e # d => n.drive[e] = s.drive[e]
    BY <1>3, <2>1 DEF DriveStates
  <2>3. n.drive[d].fname = img
    BY <1>3, <2>1 DEF DriveStates, r
  <2>4. img \notin P => Fresh(n.layer, k, q, P \cup {img})
    BY <1>6, <2>1
  <2>5. n.d88trk = s.d88trk
    BY <2>1
  <2> QED  BY <2>2, <2>3, <2>4, <2>5 DEF n
<1> QED  BY <1>7, <1>8

(* What a mount of img into drive d makes of s. *)
Mounted(n, s, d, img, k, q, P) ==
  /\ n.d88trk = s.d88trk
  /\ \A e \in Drives : e # d => n.drive[e] = s.drive[e]
  /\ img = NoImage => n = s
  /\ img # NoImage /\ img \notin P =>
       n.drive[d].fname = img /\ Fresh(n.layer, k, q, P \cup {img})

LEMMA FreshMount ==
  ASSUME NEW s, NEW k, NEW q, StateOK(s, k, q), NEW P, Fresh(s.layer, k, q, P),
         NEW d \in Drives, s.d88trk.fdd # d, NEW img \in D88 \cup Raw \cup {NoImage}, NEW eof
  PROVE  Mounted(Mount(s, d, img, eof), s, d, img, k, q, P)
<1> DEFINE n == Mount(s, d, img, eof)
           m == [s EXCEPT !.layer = Exists(s.layer, img)]
<1>1. CASE img = NoImage
  <2>1. n = s
    BY <1>1 DEF Mount
  <2> HIDE DEF n
  <2> QED  BY <1>1, <2>1 DEF n, Mounted
<1>2. CASE img # NoImage
  <2>1. img \in Files /\ img # q
    BY <1>2, ImagesApart DEF Images, StateOK
  <2>2. Fresh(Exists(s.layer, img), k, q, P)
    BY <2>1, FreshExists
  <2>3. StateOK(m, k, q)
    BY <2>2, LayerChanges DEF Fresh
  <2>4. /\ s = [layer |-> s.layer, content |-> s.content, drive |-> s.drive,
                d88trk |-> s.d88trk, spoilt |-> s.spoilt]
    BY DEF StateOK, States
  <2>5. m.layer = Exists(s.layer, img) /\ m.drive = s.drive /\ m.d88trk = s.d88trk
    BY <2>4
  <2>6. n = fdd_set(m, d, img, eof)
    BY <1>2 DEF Mount
  <2> HIDE DEF m, n
  <2>7. /\ fdd_set(m, d, img, eof).d88trk = m.d88trk
        /\ \A e \in Drives : e # d => fdd_set(m, d, img, eof).drive[e] = m.drive[e]
        /\ img \notin P => /\ fdd_set(m, d, img, eof).drive[d].fname = img
                          /\ Fresh(fdd_set(m, d, img, eof).layer, k, q, P \cup {img})
    BY <1>2, <2>2, <2>3, <2>5, FreshSet
  <2> QED  BY <1>2, <2>5, <2>6, <2>7 DEF n, Mounted
<1> QED  BY <1>1, <1>2

(* A machine that is off has no drives.                                    *)
OffEmpty ==
  pc = "off" => d88trk = NoTrack /\ drive = [d \in Drives |-> EmptyDrive]

LEMMA OffAlways == Spec => []OffEmpty
<1>1. Init => OffEmpty
  BY DEF Init, OffEmpty
<1>2. OffEmpty /\ [Next]_vars => OffEmpty'
  <2> SUFFICES ASSUME OffEmpty, [Next]_vars, pc' = "off"
               PROVE  d88trk' = NoTrack /\ drive' = [d \in Drives |-> EmptyDrive]
    BY DEF OffEmpty
  <2>1. CASE Guest
    BY <2>1 DEF Guest, fdd_read_d88, fdd_write_d88, fdd_read_xdf, fdd_write_xdf, hdd_read, hdd_write
  <2>2. CASE Menu
    BY <2>2 DEF Menu, Insert, fdd_eject, PickHdd, Leave, Reset, EjectHdd, Restart
  <2>3. CASE menu_disk_run \/ Boot
    BY <2>3 DEF menu_disk_run, Boot
  <2>4. CASE PowerCut
    BY <2>4 DEF PowerCut, Restart
  <2>5. CASE UNCHANGED vars
    BY <2>5 DEF vars, OffEmpty
  <2> QED  BY <2>1, <2>2, <2>3, <2>4, <2>5 DEF Next
<1> QED  BY <1>1, <1>2, PTL DEF Spec

(* From a machine that is off, a boot puts both images into their drives   *)
(* and binds the fixed disk.                                               *)
LEMMA BootBrings ==
  ASSUME Inv, OffEmpty, pc = "off", Boot
  PROVE  Restored
<1> DEFINE s1(e) == Mount(BootState, 0, nvs.fdd0, e)
           s2(e) == Mount(s1(e), 1, nvs.fdd1, e)
           q == nvs.hdd
           k == BootHdd.hdl
<1>1. PICK eof \in BOOLEAN : Becomes(s2(eof))
  BY DEF Boot, BootState, BootHdd
<1>2. hdd' = [path |-> nvs.hdd, hdl |-> BootHdd.hdl]
  BY DEF Boot, BootHdd
<1>3. /\ StateOK(BootState, k, q)
      /\ nvs.fdd0 \in D88 \cup Raw \cup {NoImage} /\ nvs.fdd1 \in D88 \cup Raw \cup {NoImage}
      /\ q \in Hdds \cup {NoImage}
  BY BootStarts
<1>4. /\ BootState.layer = BootHdd.st /\ BootState.drive = drive
      /\ BootState.d88trk = d88trk
  BY DEF BootState, State
<1>5. Fresh(BootState.layer, k, q, {q}) /\ (q # NoImage => k # NoFd)
  BY <1>4, BootLayer
<1>6. /\ \A d \in Drives : BootState.d88trk.fdd # d
      /\ \A d \in Drives : BootState.drive[d].fname = NoImage
  BY <1>4 DEF OffEmpty, NoTrack, NoDrive, Drives, EmptyDrive
<1> HIDE DEF k, q, s1
<1>7. 0 \in Drives /\ 1 \in Drives /\ 0 # 1
  BY DEF Drives
<1> DEFINE a == s1(eof)
<1>8. /\ StateOK(a, k, q) /\ a.d88trk = BootState.d88trk
      /\ a.drive[1].fname = NoImage /\ a.drive[0].fname = nvs.fdd0
      /\ \E P : Fresh(a.layer, k, q, P) /\ P \subseteq {q, nvs.fdd0}
  <2>1. StateOK(a, k, q)
    BY <1>3, <1>7, Mounting DEF s1
  <2>2. /\ a.d88trk = BootState.d88trk
        /\ \A e \in Drives : e # 0 => a.drive[e] = BootState.drive[e]
        /\ nvs.fdd0 = NoImage => a = BootState
        /\ nvs.fdd0 # NoImage /\ nvs.fdd0 \notin {q} =>
             a.drive[0].fname = nvs.fdd0 /\ Fresh(a.layer, k, q, {q} \cup {nvs.fdd0})
    <3>1. Mounted(Mount(BootState, 0, nvs.fdd0, eof), BootState, 0, nvs.fdd0, k, q, {q})
      BY <1>3, <1>5, <1>6, <1>7, FreshMount
    <3>2. a = Mount(BootState, 0, nvs.fdd0, eof)
      BY DEF s1
    <3> HIDE DEF a
    <3> QED  BY <3>1, <3>2, <1>7 DEF Mounted
  <2> HIDE DEF a
  <2>3. nvs.fdd0 # NoImage => nvs.fdd0 # q
    BY <1>3, ImagesApart
  <2>4. CASE nvs.fdd0 = NoImage
    BY <1>5, <1>6, <1>7, <2>1, <2>2, <2>4
  <2>5. CASE nvs.fdd0 # NoImage
    BY <1>6, <1>7, <2>1, <2>2, <2>3, <2>5
  <2> QED  BY <2>4, <2>5
<1>9. PICK P : Fresh(a.layer, k, q, P) /\ P \subseteq {q, nvs.fdd0}
  BY <1>8
<1>10. a.d88trk.fdd # 1
  BY <1>6, <1>7, <1>8
<1> HIDE DEF a
<1>11. s2(eof) = Mount(a, 1, nvs.fdd1, eof)
  BY DEF a
<1> DEFINE b == Mount(a, 1, nvs.fdd1, eof)
<1>12. /\ \A e \in Drives : e # 1 => b.drive[e] = a.drive[e]
       /\ nvs.fdd1 = NoImage => b = a
       /\ nvs.fdd1 # NoImage /\ nvs.fdd1 \notin P => b.drive[1].fname = nvs.fdd1
  <2>1. Mounted(b, a, 1, nvs.fdd1, k, q, P)
    BY <1>3, <1>7, <1>8, <1>9, <1>10, FreshMount
  <2> HIDE DEF b
  <2> QED  BY <2>1 DEF Mounted
<1>13. drive' = b.drive
  BY <1>1, <1>11 DEF Becomes
<1> HIDE DEF b
<1>14. drive'[0].fname = nvs.fdd0
  BY <1>7, <1>8, <1>12, <1>13
<1>15. nvs.fdd0 # nvs.fdd1 => drive'[1].fname = nvs.fdd1
  <2>1. nvs.fdd1 # NoImage => nvs.fdd1 # q
    BY <1>3, ImagesApart
  <2> QED  BY <1>8, <1>9, <1>12, <1>13, <2>1
<1>16. hdd'.path = nvs.hdd /\ (nvs.hdd # NoImage => hdd'.hdl # NoFd)
  BY <1>2, <1>5 DEF k, q
<1> QED  BY <1>14, <1>15, <1>16 DEF Restored

(***************************************************************************)
(* BootRestores: emu_task() mounts what the menu last saved, for any       *)
(* images, cache slots and descriptors.  The fixed disk is the first file  *)
(* opened and a cached descriptor stays at the start until its header is   *)
(* read, so a mount fails only for an image that is in both drives.        *)
(***************************************************************************)
THEOREM BootRestoresHolds == Spec => BootRestores
<1>1. Inv /\ OffEmpty /\ [Next]_vars => [pc = "off" /\ pc' # "off" => Restored]_vars
  <2> SUFFICES ASSUME Inv, OffEmpty, [Next]_vars, pc = "off", pc' # "off" PROVE Restored
    OBVIOUS
  <2>1. Boot
    BY DEF Next, Guest, fdd_read_d88, fdd_write_d88, fdd_read_xdf, fdd_write_xdf, hdd_read,
           hdd_write, Menu, Insert, fdd_eject, PickHdd, Leave, Reset, EjectHdd,
           menu_disk_run, PowerCut, vars
  <2> QED  BY <2>1, BootBrings
<1> QED  BY <1>1, InvAlways, OffAlways, PTL DEF Spec, BootRestores
=============================================================================
