----------------------------- MODULE ToolsProofs -----------------------------
(***************************************************************************)
(* Proofs about Storage, for any cards, any partition table size and any   *)
(* behaviour of the NAND, and about NandTools, for any drives and chunks   *)
(* as well.  The tools are clients of the storage stack, so its invariant  *)
(* holds below them; on top of it stand what is known of the SD card while *)
(* it is mounted (SdMounted) and what the tools rely on at each of their   *)
(* steps (ToolsIInv).                                                      *)
(***************************************************************************)
EXTENDS NandTools, TLAPS

(***************************************************************************)
(* Storage.  Each operator on the device record preserves Good; the steps  *)
(* of the server follow.                                                   *)
(***************************************************************************)

Slot == Cards \cup {NoCard}

\* What every device initialisation preserves.
Good(d) ==
  /\ d \in Device
  /\ d.mounted \subseteq d.reg
  /\ d.dnand /\ ~d.panic => d.rnand /\ d.nparts = MaxPartitions
  /\ d.sd => d.irq
  /\ \A v \in NandDrives : d.vol[v] \in {Unread, Chip}

\* What no initialisation changes: the SD volume and whether it is mounted; and
\* an SD device that is open stays open.
SameSd(d, e) ==
  /\ e.vol[SDMC] = d.vol[SDMC] /\ e.missed = d.missed
  /\ SDMC \in e.mounted <=> SDMC \in d.mounted
  /\ d.sd => e.sd

\* Nor does it mount a drive that was not mounted or drop a registered volume.
Kept(d, e) ==
  /\ SameSd(d, e)
  /\ d.reg \subseteq e.reg /\ e.mounted \subseteq d.mounted

-----------------------------------------------------------------------------
(* Devices.                                                                *)

LEMMA DropGood ==
  ASSUME NEW d, Good(d), NEW up \in SUBSET Drives
  PROVE  LET e == Drop(d, up) IN
         /\ Good(e)
         /\ e.mounted = d.mounted /\ e.reg = d.reg /\ e.sd = d.sd /\ e.irq = d.irq
         /\ e.rnand = d.rnand /\ e.dnand = d.dnand /\ e.nparts = d.nparts
         /\ e.panic = d.panic
         /\ \A v \in Drives : e.vol[v] = IF v \in up THEN Unread ELSE d.vol[v]
         /\ e.missed = (d.missed /\ SDMC \notin up)
<1> DEFINE e == Drop(d, up)
<1>1. d \in Device
  BY DEF Good
<1>2. e \in Device
  BY <1>1 DEF Device, Drop, Drives, NandDrives, SDMC
<1>3. /\ e.mounted = d.mounted /\ e.reg = d.reg /\ e.sd = d.sd /\ e.irq = d.irq
      /\ e.rnand = d.rnand /\ e.dnand = d.dnand /\ e.nparts = d.nparts /\ e.panic = d.panic
      /\ \A v \in Drives : e.vol[v] = IF v \in up THEN Unread ELSE d.vol[v]
      /\ e.missed = (d.missed /\ SDMC \notin up)
  BY <1>1 DEF Device, Drop
<1> HIDE DEF e
<1>4. Good(e)
  BY <1>2, <1>3 DEF Good, Drives, NandDrives
<1> QED BY <1>3, <1>4 DEF e

LEMMA UnmountGood ==
  ASSUME NEW d, Good(d), NEW up \in SUBSET Drives
  PROVE  /\ Good(Unmount(d, up))
         /\ Unmount(d, up).mounted = d.mounted \ up
         /\ Unmount(d, up).reg = d.reg \ up
         /\ SDMC \notin up => SameSd(d, Unmount(d, up))
         /\ \A v \in up : Unmount(d, up).vol[v] = Unread
         /\ \A v \in Drives \ up : Unmount(d, up).vol[v] = d.vol[v]
         /\ Unmount(d, up).sd = d.sd /\ Unmount(d, up).irq = d.irq
         /\ Unmount(d, up).rnand = d.rnand /\ Unmount(d, up).dnand = d.dnand
         /\ Unmount(d, up).panic = d.panic
<1> DEFINE e == Drop(d, up)
           u == Unmount(d, up)
<1>1. /\ Good(e)
      /\ e.mounted = d.mounted /\ e.reg = d.reg /\ e.sd = d.sd /\ e.irq = d.irq
      /\ e.rnand = d.rnand /\ e.dnand = d.dnand /\ e.panic = d.panic
      /\ \A v \in Drives : e.vol[v] = IF v \in up THEN Unread ELSE d.vol[v]
      /\ e.missed = (d.missed /\ SDMC \notin up)
  BY DropGood
<1>2. u = [e EXCEPT !.mounted = @ \ up, !.reg = @ \ up]
  BY DEF Unmount
<1>3. d.missed \in BOOLEAN
  BY DEF Good, Device
<1> HIDE DEF e, u
<1>4. u \in Device
  BY <1>1, <1>2 DEF Good, Device
<1>5. /\ u.mounted = d.mounted \ up /\ u.reg = d.reg \ up /\ u.sd = d.sd /\ u.irq = d.irq
      /\ \A v \in Drives : u.vol[v] = IF v \in up THEN Unread ELSE d.vol[v]
      /\ u.missed = (d.missed /\ SDMC \notin up)
      /\ u.dnand = e.dnand /\ u.rnand = e.rnand /\ u.nparts = e.nparts /\ u.panic = e.panic
  BY <1>1, <1>2 DEF Good, Device
<1>6. Good(u)
  BY <1>1, <1>4, <1>5 DEF Good, Drives, NandDrives
<1>7. SDMC \notin up => SameSd(d, u)
  BY <1>3, <1>5 DEF SameSd, Drives
<1>8. u.rnand = d.rnand /\ u.dnand = d.dnand /\ u.panic = d.panic
  BY <1>1, <1>5
<1> QED
  BY <1>5, <1>6, <1>7, <1>8 DEF u

\* The interrupt unmounts the SD drive, or misses it.
LEMMA HandlerGood ==
  ASSUME Good(dev), SdioHandler
  PROVE  /\ Good(dev') /\ dev'.mounted = dev.mounted \ {SDMC}
         /\ dev'.reg = (IF SDMC \in dev.mounted THEN dev.reg \ {SDMC} ELSE dev.reg)
         /\ dev'.rnand = dev.rnand
         /\ dev'.vol[SDMC] = Unread \/ dev'.missed
<1> DEFINE c == [dev EXCEPT !.sd = FALSE]
<1>1. /\ Good(c) /\ c.vol = dev.vol /\ c.mounted = dev.mounted /\ c.reg = dev.reg
      /\ c.rnand = dev.rnand
  BY DEF Good, Device
<1>2. dev' = IF SDMC \in dev.mounted THEN Unmount(c, {SDMC})
             ELSE [c EXCEPT !.missed = dev.vol[SDMC] # Unread]
  BY DEF SdioHandler
<1>3. SDMC \in Drives
  BY DEF Drives
<1> HIDE DEF c
<1>4. CASE SDMC \in dev.mounted
  <2>1. {SDMC} \in SUBSET Drives /\ SDMC \in {SDMC}
    BY <1>3
  <2>2. Good(Unmount(c, {SDMC}))
    BY <1>1, <2>1, UnmountGood
  <2>3. /\ Unmount(c, {SDMC}).mounted = c.mounted \ {SDMC}
        /\ Unmount(c, {SDMC}).reg = c.reg \ {SDMC}
    BY <1>1, <2>1, UnmountGood
  <2>4. Unmount(c, {SDMC}).rnand = c.rnand
    BY <1>1, <2>1, UnmountGood
  <2>5. Unmount(c, {SDMC}).vol[SDMC] = Unread
    BY <1>1, <2>1, UnmountGood
  <2> QED BY <1>1, <1>2, <1>4, <2>2, <2>3, <2>4, <2>5
<1>5. CASE SDMC \notin dev.mounted
  BY <1>1, <1>2, <1>5 DEF Good, Device
<1> QED BY <1>4, <1>5

\* Whether the table is filled or partitionAdd panics.
LEMMA FillGood ==
  ASSUME NEW b, Good(b)
  PROVE  LET f == FillPartitions(b) IN
         /\ f \in Device /\ (~f.panic => f.nparts = MaxPartitions)
         /\ f.mounted = b.mounted /\ f.reg = b.reg /\ f.vol = b.vol
         /\ f.irq = b.irq /\ f.sd = b.sd /\ f.rnand = b.rnand /\ f.missed = b.missed
<1> DEFINE f == FillPartitions(b)
<1>1. MaxPartitions \in 0 .. MaxPartitions /\ b \in Device
  BY PartitionAssumption DEF Good
<1>2. CASE b.nparts = 0
  <2>1. f = [b EXCEPT !.nparts = MaxPartitions]
    BY <1>2 DEF FillPartitions
  <2> QED BY <1>1, <2>1 DEF Device
<1>3. CASE b.nparts # 0
  <2>1. f = [b EXCEPT !.panic = TRUE]
    BY <1>3 DEF FillPartitions
  <2> QED BY <1>1, <2>1 DEF Device
<1> QED
  BY <1>2, <1>3

LEMMA HeaderGood ==
  ASSUME NEW b, Good(b), NEW n
  PROVE  LET h == ReadHeader(b, n) IN
         /\ Good(h) /\ Kept(b, h)
         /\ h.mounted = b.mounted /\ h.reg = b.reg /\ h.vol = b.vol /\ h.irq = b.irq
<1> DEFINE f == FillPartitions(b)
           g == [f EXCEPT !.dnand = TRUE]
           h == ReadHeader(b, n)
<1>1. /\ f \in Device /\ (~f.panic => f.nparts = MaxPartitions)
      /\ f.mounted = b.mounted /\ f.reg = b.reg /\ f.vol = b.vol
      /\ f.irq = b.irq /\ f.sd = b.sd /\ f.rnand = b.rnand /\ f.missed = b.missed
  BY FillGood
<1>2. h \in {b, f} \/ (h = g /\ b.rnand /\ ~f.panic)
  BY DEF ReadHeader
<1>3. b.rnand => Good(f)
  <2>1. b \in Device
    BY DEF Good
  <2> HIDE DEF f
  <2> QED BY <1>1, <2>1 DEF Good, Device
<1>4. h = f => b.rnand \/ h = b
  BY DEF ReadHeader
<1> HIDE DEF f
<1>5. b.rnand /\ ~f.panic => Good(g)
  <2>1. g \in Device
    BY <1>1 DEF Device
  <2>2. /\ g.mounted = f.mounted /\ g.reg = f.reg /\ g.vol = f.vol /\ g.irq = f.irq
        /\ g.missed = f.missed /\ g.sd = f.sd /\ g.rnand = f.rnand /\ g.nparts = f.nparts
    BY <1>1 DEF Device
  <2> HIDE DEF g
  <2> QED BY <1>1, <2>1, <2>2 DEF Good
<1>6. /\ g.mounted = f.mounted /\ g.reg = f.reg /\ g.vol = f.vol /\ g.irq = f.irq
      /\ g.sd = f.sd /\ g.missed = f.missed
  BY <1>1 DEF Device
<1> HIDE DEF g, h
<1>7. Good(h)
  BY <1>2, <1>3, <1>4, <1>5
<1>8. /\ h.mounted = b.mounted /\ h.reg = b.reg /\ h.vol = b.vol /\ h.irq = b.irq
      /\ h.sd = b.sd /\ h.missed = b.missed
  BY <1>1, <1>2, <1>6
<1> QED
  BY <1>7, <1>8 DEF Kept, SameSd, h

LEMMA NestedGood ==
  ASSUME NEW d, Good(d), NEW n
  PROVE  /\ Good(NestedDnandInit(d, n))
         /\ Kept(d, NestedDnandInit(d, n))
         /\ NestedDnandInit(d, n).mounted = d.mounted
         /\ NestedDnandInit(d, n).reg = d.reg
         /\ NestedDnandInit(d, n).vol = d.vol
         /\ NestedDnandInit(d, n).irq = d.irq
<1>1. d \in Device
  BY DEF Good
<1>2. CASE d.dnand
  BY <1>2 DEF NestedDnandInit, Kept, SameSd
<1>3. CASE ~d.dnand
  <2> DEFINE a == [d EXCEPT !.nparts = 0]
             b == NandInit(a, n)
             h == ReadHeader(b, n)
  <2>1. Good(a) /\ Kept(d, a) /\ a.mounted = d.mounted
          /\ a.reg = d.reg /\ a.vol = d.vol /\ a.irq = d.irq
    BY <1>1, <1>3, PartitionAssumption DEF Good, Device, Kept, SameSd
  <2>2. Good(b) /\ Kept(d, b) /\ b.mounted = d.mounted
          /\ b.reg = d.reg /\ b.vol = d.vol /\ b.irq = d.irq
    <3> HIDE DEF a
    <3> QED BY <2>1 DEF Good, Device, Kept, SameSd, NandInit
  <2>3. NestedDnandInit(d, n) = h
    BY <1>3 DEF NestedDnandInit
  <2> HIDE DEF a, b
  <2>4. /\ Good(h) /\ Kept(b, h)
        /\ h.mounted = b.mounted /\ h.reg = b.reg /\ h.vol = b.vol /\ h.irq = b.irq
    BY <2>2, HeaderGood
  <2> HIDE DEF h
  <2> QED
    BY <2>2, <2>3, <2>4 DEF Kept, SameSd
<1> QED
  BY <1>2, <1>3

LEMMA RemountGood ==
  ASSUME NEW d, Good(d), NEW n
  PROVE  /\ Good(RemountNand(d, n)) /\ Kept(d, RemountNand(d, n))
         /\ RemountNand(d, n).irq = d.irq
<1> DEFINE up == d.mounted \cap NandDrives
           u == Unmount(d, up)
           e == NestedDnandInit(u, n)
           r == [e EXCEPT !.reg = @ \cup up]
<1>1. /\ d \in Device /\ up \in SUBSET Drives /\ SDMC \notin up
      /\ up \subseteq d.mounted /\ up \subseteq NandDrives
  BY DEF Good, Device, Drives, NandDrives, SDMC
<1>2. /\ Good(u) /\ SameSd(d, u) /\ u.irq = d.irq
      /\ u.mounted = d.mounted \ up /\ u.reg = d.reg \ up
  <2> HIDE DEF up
  <2> QED BY <1>1, UnmountGood
<1>3. /\ Good(e) /\ SameSd(d, e) /\ e.irq = d.irq
      /\ e.mounted = d.mounted \ up /\ e.reg = d.reg \ up
  <2> HIDE DEF up, u
  <2>1. Good(e) /\ Kept(u, e) /\ e.irq = u.irq /\ e.mounted = u.mounted /\ e.reg = u.reg
    BY <1>2, NestedGood
  <2> HIDE DEF e
  <2> QED BY <1>2, <2>1 DEF SameSd, Kept
<1>4. Good(r) /\ Kept(d, r) /\ r.irq = d.irq /\ up \subseteq r.reg
  <2> HIDE DEF e, up
  <2> QED BY <1>1, <1>3 DEF Good, Device, Kept, SameSd
<1>5. CASE up = {}
  BY <1>5 DEF RemountNand, Kept, SameSd
<1>6. CASE up # {} /\ ~r.dnand
  <2>1. RemountNand(d, n) = r
    BY <1>6 DEF RemountNand
  <2> QED BY <2>1, <1>4
<1>7. CASE up # {} /\ r.dnand
  <2> DEFINE s == [r EXCEPT !.mounted = @ \cup up,
                     !.vol = [v \in Drives |-> IF v \in up THEN Chip ELSE @[v]]]
  <2>1. RemountNand(d, n) = s
    BY <1>7 DEF RemountNand
  <2> HIDE DEF e, up, r
  <2>2. s \in Device
    BY <1>1, <1>4 DEF Good, Device
  <2>3. /\ s.mounted = r.mounted \cup up /\ s.reg = r.reg /\ s.irq = r.irq
        /\ s.sd = r.sd /\ s.rnand = r.rnand /\ s.dnand = r.dnand
        /\ s.panic = r.panic /\ s.nparts = r.nparts /\ s.missed = r.missed
        /\ s.vol = [v \in Drives |-> IF v \in up THEN Chip ELSE r.vol[v]]
    BY <1>4 DEF Good, Device
  <2> HIDE DEF s
  <2>4. \A v \in Drives : s.vol[v] = IF v \in up THEN Chip ELSE r.vol[v]
    BY <2>3
  <2>5. Good(s)
    BY <1>4, <2>2, <2>3, <2>4 DEF Good, Drives
  <2>6. Kept(d, s)
    BY <1>1, <1>4, <2>3, <2>4 DEF Kept, SameSd, Drives
  <2> QED BY <1>4, <2>1, <2>3, <2>5, <2>6
<1> QED
  BY <1>5, <1>6, <1>7

LEMMA SdInitGood ==
  ASSUME NEW d, Good(d), NEW c, NEW n
  PROVE  Good(SdInit(d, c, n)) /\ Kept(d, SdInit(d, c, n))
<1> DEFINE closed == [d EXCEPT !.dnand = FALSE, !.rnand = FALSE]
           open == [closed EXCEPT !.sd = TRUE, !.irq = TRUE]
<1>1. Good(closed) /\ Kept(d, closed)
  BY DEF Good, Device, Kept, SameSd
<1>2. Good(open) /\ Kept(d, open)
  <2> HIDE DEF closed
  <2> QED BY <1>1 DEF Good, Device, Kept, SameSd
<1>3. Good(RemountNand(open, n)) /\ Kept(open, RemountNand(open, n))
  BY <1>2, RemountGood
<1>4. SdInit(d, c, n) \in {d, closed, RemountNand(open, n)}
  BY DEF SdInit
<1>5. Kept(d, RemountNand(open, n)) /\ Kept(d, d)
  BY <1>2, <1>3 DEF Kept, SameSd
<1> HIDE DEF closed, open
<1> QED
  BY <1>1, <1>3, <1>4, <1>5

LEMMA RnandInitGood ==
  ASSUME NEW d, Good(d), NEW c, NEW n
  PROVE  Good(RnandInit(d, c, n)) /\ Kept(d, RnandInit(d, c, n))
<1> DEFINE e == SdInit(d, c, n)
<1>1. Good(e) /\ Kept(d, e)
  BY SdInitGood
<1>2. RnandInit(d, c, n) \in {d, NandInit(e, n)}
  BY DEF RnandInit
<1> HIDE DEF e
<1>3. Good(NandInit(e, n)) /\ Kept(d, NandInit(e, n))
  BY <1>1 DEF Good, Device, Kept, SameSd, NandInit
<1> QED
  BY <1>2, <1>3 DEF Kept, SameSd

LEMMA DnandInitGood ==
  ASSUME NEW d, Good(d), NEW c, NEW n
  PROVE  Good(DnandInit(d, c, n)) /\ Kept(d, DnandInit(d, c, n))
<1>1. CASE d.dnand
  BY <1>1 DEF DnandInit, Kept, SameSd
<1>2. CASE ~d.dnand
  <2> DEFINE a == [d EXCEPT !.nparts = 0]
             e == RnandInit(a, c, n)
  <2>1. Good(a) /\ Kept(d, a)
    BY <1>2, PartitionAssumption DEF Good, Device, Kept, SameSd
  <2>2. Good(e) /\ Kept(d, e)
    <3>1. Good(e) /\ Kept(a, e)
      BY <2>1, RnandInitGood
    <3> HIDE DEF a, e
    <3> QED BY <3>1, <2>1 DEF Kept, SameSd
  <2>3. DnandInit(d, c, n) = IF e.panic THEN e ELSE ReadHeader(e, n)
    BY <1>2 DEF DnandInit
  <2> HIDE DEF a, e
  <2>4. Good(ReadHeader(e, n)) /\ Kept(e, ReadHeader(e, n))
    BY <2>2, HeaderGood
  <2> QED
    BY <2>2, <2>3, <2>4 DEF Kept, SameSd
<1> QED
  BY <1>1, <1>2

-----------------------------------------------------------------------------
(* Volumes.                                                                *)

\* find_volume on drive i leaves the SD volume alone, or i is that volume and
\* it was read from the card in the slot.
LEMMA FindVolumeGood ==
  ASSUME NEW d, Good(d), NEW c \in Slot, NEW n, NEW i \in Drives
  PROVE  LET f == FindVolume(d, c, n, i) IN
         /\ Good(f)
         /\ SDMC \in f.mounted <=> SDMC \in d.mounted
         /\ d.reg \subseteq f.reg /\ f.mounted \subseteq d.mounted
         /\ d.sd => f.sd
         /\ i # SDMC => f.vol[SDMC] = d.vol[SDMC] /\ f.missed = d.missed
         /\ f = d \/ (f.vol[SDMC] = d.vol[SDMC] /\ f.missed = d.missed)
              \/ f.vol[SDMC] = Unread \/ (f.vol[SDMC] = c /\ f.sd /\ c # NoCard)
<1> DEFINE f == FindVolume(d, c, n, i)
           a == Drop(d, {i})
           e == DiskInit(a, c, n, i)
           g == [e EXCEPT !.vol = [@ EXCEPT ![i] = Medium(c, i)]]
<1>1. /\ Good(a) /\ a.mounted = d.mounted /\ a.sd = d.sd /\ a.reg = d.reg
      /\ a.vol[SDMC] = (IF i = SDMC THEN Unread ELSE d.vol[SDMC])
      /\ i # SDMC => a.missed = d.missed
  <2>1. d.missed \in BOOLEAN
    BY DEF Good, Device
  <2> QED
    BY <2>1, DropGood DEF Drives
<1>2. Good(e) /\ Kept(a, e)
  <2> HIDE DEF a
  <2> QED BY <1>1, SdInitGood, DnandInitGood DEF DiskInit
<1>3. f \in {d, e} \/ (f = g /\ Active(e, c, i))
  BY DEF FindVolume
<1>4. Active(e, c, i) =>
        /\ Good(g) /\ g.mounted = e.mounted /\ g.sd = e.sd /\ g.reg = e.reg
        /\ i # SDMC => g.vol[SDMC] = e.vol[SDMC] /\ g.missed = e.missed
        /\ i = SDMC => g.vol[SDMC] = c /\ g.sd /\ c # NoCard
  <2> SUFFICES ASSUME Active(e, c, i)
               PROVE  /\ Good(g) /\ g.mounted = e.mounted /\ g.sd = e.sd /\ g.reg = e.reg
                      /\ i # SDMC => g.vol[SDMC] = e.vol[SDMC] /\ g.missed = e.missed
                      /\ i = SDMC => g.vol[SDMC] = c /\ g.sd /\ c # NoCard
    OBVIOUS
  <2> HIDE DEF a, e
  <2>1. Medium(c, i) \in Cards \cup {Chip} /\ (i # SDMC => Medium(c, i) = Chip)
          /\ (i = SDMC => Medium(c, i) = c /\ e.sd /\ c # NoCard)
    BY DEF Active, Medium, Slot
  <2> DEFINE m == Medium(c, i)
  <2> HIDE DEF m
  <2>2. g = [e EXCEPT !.vol = [@ EXCEPT ![i] = m]]
    BY DEF m
  <2>3. [e.vol EXCEPT ![i] = m] \in [Drives -> Cards \cup {Chip, Unread}]
    BY <1>2, <2>1 DEF Good, Device, m
  <2>4. g \in Device
    BY <1>2, <2>2, <2>3 DEF Good, Device
  <2> QED
    BY <1>2, <2>1, <2>2, <2>4 DEF Good, Device, Drives, NandDrives, SDMC, m
<1>5. /\ SDMC \in e.mounted <=> SDMC \in d.mounted
      /\ d.reg \subseteq e.reg /\ e.mounted \subseteq d.mounted
      /\ d.sd => e.sd
      /\ e.vol[SDMC] = (IF i = SDMC THEN Unread ELSE d.vol[SDMC])
      /\ i # SDMC => e.missed = d.missed
  <2> HIDE DEF a, e
  <2> QED BY <1>1, <1>2 DEF Kept, SameSd
<1> HIDE DEF a, e, g, f
<1>6. CASE f = d
  BY <1>6 DEF f
<1>7. CASE f = e
  BY <1>2, <1>5, <1>7 DEF f
<1>8. CASE f = g /\ Active(e, c, i)
  BY <1>4, <1>5, <1>8 DEF f
<1> QED
  BY <1>3, <1>6, <1>7, <1>8

\* f_mount registers drive i; when that is the SD drive, its volume is either
\* not read or read from the card in the slot.
LEMMA MountVolumeGood ==
  ASSUME NEW d, Good(d), NEW c \in Slot, NEW n, NEW i \in Drives
  PROVE  LET f == MountVolume(d, c, n, i) IN
         /\ Good(f)
         /\ SDMC \in f.mounted <=> SDMC \in d.mounted
         /\ i \in f.reg /\ f.mounted \subseteq d.mounted
         /\ d.sd => f.sd
         /\ i # SDMC => f.vol[SDMC] = d.vol[SDMC] /\ f.missed = d.missed
         /\ i = SDMC /\ f.vol[SDMC] # Unread
              => f.vol[SDMC] = c /\ f.sd /\ c # NoCard
<1> DEFINE r == [d EXCEPT !.reg = @ \cup {i}]
           a == Drop(r, {i})
           f == FindVolume(a, c, n, i)
<1>0. /\ Good(r) /\ r.mounted = d.mounted /\ r.sd = d.sd /\ i \in r.reg
      /\ r.vol = d.vol /\ r.missed = d.missed /\ d.missed \in BOOLEAN
  BY DEF Good, Device
<1> HIDE DEF r
<1>1. /\ Good(a) /\ a.mounted = d.mounted /\ a.sd = d.sd /\ i \in a.reg
      /\ a.vol[SDMC] = (IF i = SDMC THEN Unread ELSE d.vol[SDMC])
      /\ i # SDMC => a.missed = d.missed
  BY <1>0, DropGood DEF Drives
<1>3. MountVolume(d, c, n, i) = f
  BY DEF MountVolume, r
<1> HIDE DEF a
<1>4. /\ Good(f)
      /\ SDMC \in f.mounted <=> SDMC \in a.mounted
      /\ a.reg \subseteq f.reg /\ f.mounted \subseteq a.mounted
      /\ a.sd => f.sd
      /\ i # SDMC => f.vol[SDMC] = a.vol[SDMC] /\ f.missed = a.missed
      /\ f = a \/ (f.vol[SDMC] = a.vol[SDMC] /\ f.missed = a.missed)
           \/ f.vol[SDMC] = Unread \/ (f.vol[SDMC] = c /\ f.sd /\ c # NoCard)
  BY <1>1, FindVolumeGood
<1> HIDE DEF f
<1> QED
  BY <1>1, <1>3, <1>4

-----------------------------------------------------------------------------
(* The inductive invariant.  StorageTypeOK is not inductive: the index of a *)
(* mount must stay in range.  MountedRegistered is not either: a drive that *)
(* was read and not yet stored as mounted must still be registered, which   *)
(* holds because the interrupt drops only drives that are mounted.          *)

Mount ==
  /\ op = "mount" => drive \in Drives
  /\ got => op # "idle" /\ drive \in dev.reg /\ drive \notin dev.mounted

Inv == StorageTypeOK /\ Good(dev) /\ Mount

\* The part of the state a command that ends leaves behind.
LEMMA Returned ==
  ASSUME NEW r \in {"ok", "error"}, Return(r)
  PROVE  /\ op' \in {"idle", "mount", "finalize"} /\ drive' \in 0 .. LastDrive + 1
         /\ got' \in BOOLEAN /\ ret' \in {"ok", "error"}
         /\ Mount'
<1>1. op' = "idle" /\ drive' = SDMC /\ got' = FALSE /\ ret' = r
  BY DEF Return
<1>2. ~got'
  BY <1>1
<1>3. op' # "mount" /\ got' \in BOOLEAN
  BY <1>1
<1>4. Mount'
  BY <1>2, <1>3, Zenon DEF Mount
<1> QED
  BY DriveAssumption, <1>1, <1>3, <1>4 DEF SDMC

LEMMA InvInit == StorageInit => Inv
<1> SUFFICES ASSUME StorageInit PROVE Inv
  OBVIOUS
<1>1. dev \in Device
  BY PartitionAssumption DEF StorageInit, Device, Drives, NandDrives
<1>2. Good(dev)
  BY <1>1 DEF StorageInit, Good, Drives
<1>3. ~got /\ op # "mount"
  BY DEF StorageInit
<1>4. Mount
  BY <1>3, Zenon DEF Mount
<1>5. pulled \in BOOLEAN /\ raw \in BOOLEAN /\ got \in BOOLEAN
  BY Zenon DEF StorageInit
<1>6. drive \in 0 .. LastDrive + 1 /\ backup \subseteq Drives /\ card \in Cards \cup {NoCard}
        /\ op \in {"idle", "mount", "finalize"} /\ ret \in {"ok", "error"}
  BY DriveAssumption DEF StorageInit, SDMC
<1>7. StorageTypeOK
  BY <1>1, <1>5, <1>6 DEF StorageTypeOK
<1> QED
  BY <1>2, <1>4, <1>7 DEF Inv

\* Every step of the card, the interrupt, the server and its clients
\* preserves the invariant.
LEMMA InvStep == Inv /\ [StorageNext]_storageVars => Inv'
<1> SUFFICES ASSUME Inv, [StorageNext]_storageVars PROVE Inv'
  OBVIOUS
<1> USE DEF Inv
<1>1. CASE CardRemove
  BY <1>1 DEF CardRemove, server, StorageTypeOK, Mount, Good, Device
<1>2. CASE CardInsert
  BY <1>2 DEF CardInsert, server, StorageTypeOK, Mount, Good, Device
<1>3. CASE SdioHandler
  <2>1. /\ Good(dev') /\ dev'.mounted = dev.mounted \ {SDMC}
        /\ dev'.reg = (IF SDMC \in dev.mounted THEN dev.reg \ {SDMC} ELSE dev.reg)
    BY <1>3, HandlerGood
  <2>2. Mount'
    BY <1>3, <2>1 DEF SdioHandler, server, Mount
  <2> QED
    BY <1>3, <2>1, <2>2 DEF SdioHandler, server, StorageTypeOK, Good
<1>4. ASSUME NEW i \in Drives, CallMount(i) PROVE Inv'
  BY DriveAssumption, <1>4 DEF CallMount, Idle, StorageTypeOK, Mount, Good, Drives,
       NandDrives, SDMC
<1>5. ASSUME NEW i \in Drives, CallUnmount(i) PROVE Inv'
  <2>1. Good(Unmount(dev, {i}))
    BY UnmountGood
  <2>2. Good(dev')
    BY <1>5, <2>1 DEF CallUnmount
  <2> QED
    BY <1>5, <2>2, Returned DEF CallUnmount, StorageTypeOK, Good
<1>6. ASSUME NEW i \in Drives, CallAccess(i) PROVE Inv'
  <2>1. PICK n \in NandOutcomes : dev' = FindVolume(dev, card, n, i)
    BY <1>6 DEF CallAccess
  <2>2. Good(FindVolume(dev, card, n, i))
    BY FindVolumeGood DEF StorageTypeOK, Slot
  <2>3. Good(dev')
    BY <2>1, <2>2
  <2>4. Return("ok") \/ Return("error")
    BY <1>6 DEF CallAccess
  <2> QED
    BY <1>6, <2>3, <2>4, Returned DEF CallAccess, StorageTypeOK, Good
<1>7. CASE CallPrepare
  <2> DEFINE up == dev.mounted \cap NandDrives
  <2>1. up \in SUBSET Drives /\ dev.mounted \subseteq Drives
    BY DEF Good, Device
  <2>2. dev' = Unmount(dev, up)
    BY <1>7 DEF CallPrepare
  <2> HIDE DEF up
  <2>3. Good(dev')
    BY <2>1, <2>2, UnmountGood
  <2> QED
    BY <1>7, <2>1, <2>3, Returned DEF CallPrepare, StorageTypeOK, Good
<1>8. CASE PrepareRefused
  BY <1>8, Returned DEF PrepareRefused, StorageTypeOK
<1>9. CASE CallFinalize
  BY DriveAssumption, <1>9 DEF CallFinalize, Idle, StorageTypeOK, Mount, SDMC
<1>10. CASE MountOk
  <2>1. PICK n \in NandOutcomes : dev' = MountVolume(dev, card, n, drive)
    BY <1>10 DEF MountOk
  <2>2. drive \in Drives /\ drive \notin dev.mounted
    BY <1>10 DEF MountOk, Wanted
  <2>3. Good(dev') /\ drive \in dev'.reg /\ dev'.mounted \subseteq dev.mounted
    BY <2>1, <2>2, MountVolumeGood DEF StorageTypeOK, Slot
  <2> QED
    BY <1>10, <2>2, <2>3 DEF MountOk, Mounting, StorageTypeOK, Mount, Good
<1>11. CASE MountFails
  <2>1. PICK n \in NandOutcomes : dev' = MountVolume(dev, card, n, drive)
    BY <1>11 DEF MountFails
  <2>2. Good(dev')
    BY <1>11, <2>1, MountVolumeGood DEF MountFails, Wanted, StorageTypeOK, Slot
  <2> QED
    BY <1>11, <2>2, Returned DEF MountFails, StorageTypeOK, Good
<1>12. CASE StoreMounted
  <2>1. drive \in Drives /\ drive \in dev.reg
    BY <1>12 DEF StoreMounted, Mount, Good, Device
  <2>2. dev' \in Device
    BY <1>12, <2>1 DEF StoreMounted, Good, Device
  <2>3. Good(dev')
    BY <1>12, <2>1, <2>2 DEF StoreMounted, Good, Device
  <2>4. got' = FALSE /\ (op' = "mount" => drive' \in Drives) /\ drive' \in 0 .. LastDrive + 1
          /\ op' \in {"idle", "mount", "finalize"} /\ ret' \in {"ok", "error"}
    BY DriveAssumption, <1>12, <2>1 DEF StoreMounted, Return, StorageTypeOK, Drives,
         NandDrives, SDMC
  <2> QED
    BY <1>12, <2>2, <2>3, <2>4 DEF StoreMounted, StorageTypeOK, Mount
<1>13. CASE SkipDrive
  BY DriveAssumption, <1>13 DEF SkipDrive, StorageTypeOK, Mount, Drives, NandDrives, SDMC
<1>14. CASE FinalizeDone
  BY <1>14, Returned DEF FinalizeDone, StorageTypeOK
<1>15. CASE UNCHANGED storageVars
  BY <1>15 DEF storageVars, server, StorageTypeOK, Mount, Good, Device
<1> QED
  BY <1>1, <1>2, <1>3, <1>4, <1>5, <1>6, <1>7, <1>8, <1>9, <1>10, <1>11, <1>12,
     <1>13, <1>14, <1>15 DEF StorageNext, Card, ServerStep, Client

LEMMA InvAlways == StorageSpec => []Inv
  BY InvInit, InvStep, PTL DEF StorageSpec

\* The variables keep their types: in particular the loop of fFinalizeRawAccess
\* never runs past the end of fsStatTable.
THEOREM StorageTypeCorrect == StorageSpec => []StorageTypeOK
<1>1. Inv => StorageTypeOK
  BY DEF Inv
<1> QED
  BY <1>1, InvAlways, PTL

\* A drive fIsDriveMounted reports is registered with FatFs at every moment,
\* however the interrupt, nested remounts and failed mounts interleave.
THEOREM MountedRegisteredHolds == StorageSpec => []MountedRegistered
<1>1. Inv => MountedRegistered
  BY DEF Inv, Good, MountedRegistered
<1> QED
  BY <1>1, InvAlways, PTL

\* The decrypted NAND device is usable only while the raw device is open and
\* the partition table is full.
THEOREM DnandHasTableHolds == StorageSpec => []DnandHasTable
<1>1. Inv => DnandHasTable
  BY DEF Inv, Good, DnandHasTable
<1> QED
  BY <1>1, InvAlways, PTL

-----------------------------------------------------------------------------
(* The card and its volume: the SD volume is that of the card in the slot    *)
(* until the interrupt has dropped it, or has missed it.                     *)

SdVolume ==
  /\ pulled => card = NoCard
  /\ dev.vol[SDMC] # Unread /\ ~dev.missed =>
       /\ dev.sd
       /\ card = dev.vol[SDMC] \/ (card = NoCard /\ pulled)

LEMMA SdVolumeInit == StorageInit => SdVolume
<1> SUFFICES ASSUME StorageInit PROVE SdVolume
  OBVIOUS
<1>1. ~pulled /\ dev.vol[SDMC] = Unread
  BY DEF StorageInit, Drives
<1> QED
  BY <1>1 DEF SdVolume

LEMMA SdVolumeStep ==
  ASSUME Inv, SdVolume, [StorageNext]_storageVars
  PROVE  SdVolume'
<1>0. dev \in Device /\ Good(dev) /\ card \in Slot /\ SDMC \in Drives /\ dev.missed \in BOOLEAN
  BY DEF Inv, Good, StorageTypeOK, Slot, Drives, Device
<1>1. CASE CardRemove
  <2>1. dev.sd => dev.irq
    BY <1>0 DEF Good
  <2>2. card' = NoCard /\ dev' = dev /\ pulled' = dev.irq
    BY <1>1 DEF CardRemove, server
  <2> QED
    BY <2>1, <2>2 DEF SdVolume
<1>2. CASE CardInsert
  <2>1. dev.vol[SDMC] \in Cards \cup {Chip, Unread}
    BY <1>0 DEF Device
  <2>2. dev.vol[SDMC] = Unread \/ dev.missed
    BY <1>2, <2>1, CardAssumption DEF CardInsert, SdVolume
  <2>3. dev' = dev /\ ~pulled'
    BY <1>2 DEF CardInsert, server
  <2> QED
    BY <2>2, <2>3 DEF SdVolume
<1>3. CASE SdioHandler
  <2>1. dev'.vol[SDMC] = Unread \/ dev'.missed
    BY <1>0, <1>3, HandlerGood
  <2>2. ~pulled'
    BY <1>3 DEF SdioHandler
  <2> QED
    BY <2>1, <2>2 DEF SdVolume
<1>4. ASSUME NEW i \in Drives, CallUnmount(i) PROVE SdVolume'
  <2>1. dev' = Unmount(dev, {i}) /\ card' = card /\ pulled' = pulled
    BY <1>4 DEF CallUnmount
  <2>2. CASE i = SDMC
    <3>1. dev'.vol[SDMC] = Unread
      BY <1>0, <2>1, <2>2, UnmountGood
    <3> QED BY <2>1, <3>1 DEF SdVolume
  <2>3. CASE i # SDMC
    <3>1. SameSd(dev, dev')
      BY <1>0, <2>1, <2>3, UnmountGood
    <3>2. dev'.sd = dev.sd
      BY <1>0, <2>1, UnmountGood
    <3> QED BY <2>1, <3>1, <3>2 DEF SdVolume, SameSd
  <2> QED BY <2>2, <2>3
<1>5. ASSUME NEW i \in Drives, CallAccess(i) PROVE SdVolume'
  <2>1. PICK n \in NandOutcomes : dev' = FindVolume(dev, card, n, i)
    BY <1>5 DEF CallAccess
  <2>2. card' = card /\ pulled' = pulled
    BY <1>5 DEF CallAccess
  <2> DEFINE f == FindVolume(dev, card, n, i)
  <2>3. /\ dev.sd => f.sd
        /\ f = dev \/ (f.vol[SDMC] = dev.vol[SDMC] /\ f.missed = dev.missed)
             \/ f.vol[SDMC] = Unread \/ (f.vol[SDMC] = card /\ f.sd /\ card # NoCard)
    BY <1>0, FindVolumeGood
  <2> HIDE DEF f
  <2>4. dev' = f
    BY <2>1 DEF f
  <2> QED
    BY <2>2, <2>3, <2>4 DEF SdVolume
<1>6. CASE CallPrepare
  <2> DEFINE up == dev.mounted \cap NandDrives
  <2>1. up \in SUBSET Drives /\ SDMC \notin up
    BY <1>0 DEF Device, NandDrives, SDMC
  <2>2. dev' = Unmount(dev, up) /\ card' = card /\ pulled' = pulled
    BY <1>6 DEF CallPrepare
  <2> HIDE DEF up
  <2>3. SameSd(dev, dev') /\ dev'.sd = dev.sd
    BY <1>0, <2>1, <2>2, UnmountGood
  <2> QED
    BY <2>2, <2>3 DEF SdVolume, SameSd
<1>7. ASSUME MountOk \/ MountFails PROVE SdVolume'
  <2>1. PICK n \in NandOutcomes : dev' = MountVolume(dev, card, n, drive)
    BY <1>7 DEF MountOk, MountFails
  <2>2. drive \in Drives /\ card' = card /\ pulled' = pulled
    BY <1>7 DEF MountOk, MountFails, Wanted
  <2> DEFINE f == MountVolume(dev, card, n, drive)
  <2>3. /\ dev.sd => f.sd
        /\ drive # SDMC => f.vol[SDMC] = dev.vol[SDMC] /\ f.missed = dev.missed
        /\ drive = SDMC /\ f.vol[SDMC] # Unread
             => f.vol[SDMC] = card /\ f.sd /\ card # NoCard
    BY <1>0, <2>2, MountVolumeGood
  <2> HIDE DEF f
  <2>4. dev' = f
    BY <2>1 DEF f
  <2> QED
    BY <2>2, <2>3, <2>4 DEF SdVolume
<1>8. CASE StoreMounted
  <2>1. card' = card /\ pulled' = pulled
    BY <1>8 DEF StoreMounted
  <2>2. dev'.vol = dev.vol /\ dev'.sd = dev.sd /\ dev'.missed = dev.missed
    BY <1>0, <1>8 DEF StoreMounted, Device
  <2> QED
    BY <2>1, <2>2 DEF SdVolume
<1>9. ASSUME UNCHANGED <<card, pulled, dev>> PROVE SdVolume'
  BY <1>9 DEF SdVolume
<1>10. (\E i \in Drives : CallMount(i)) \/ PrepareRefused \/ CallFinalize \/ SkipDrive
         \/ FinalizeDone \/ UNCHANGED storageVars => UNCHANGED <<card, pulled, dev>>
  BY DEF CallMount, PrepareRefused, CallFinalize, SkipDrive, FinalizeDone, storageVars
<1> QED
  BY <1>1, <1>2, <1>3, <1>4, <1>5, <1>6, <1>7, <1>8, <1>9, <1>10
     DEF StorageNext, Card, ServerStep, Client

\* A volume find_volume accepts without reading it was read from the medium
\* that is there, for any number of cards and swaps, pulled at any time, and any
\* calls of the clients: no FAT of one card is used on another as long as the
\* interrupt has not taken the drive of a volume that was read for unmounted.
THEOREM VolumeOfMediumHolds == StorageSpec => []VolumeOfMedium
<1>1. Inv /\ SdVolume => VolumeOfMedium
  BY DEF Inv, Good, SdVolume, VolumeOfMedium, Active, Medium, Drives
<1>2. Inv /\ SdVolume /\ [StorageNext]_storageVars => SdVolume'
  BY SdVolumeStep
<1> QED
  BY <1>1, <1>2, SdVolumeInit, InvAlways, PTL DEF StorageSpec

\* What fs.c, FatFs and dev.c say about a drive agrees, for any cards, any NAND
\* behaviour and any interleaving with the SD interrupt.
THEOREM StorageInvHolds == StorageSpec => []StorageInv
<1> QED
  BY StorageTypeCorrect, MountedRegisteredHolds, DnandHasTableHolds, PTL DEF StorageInv

(***************************************************************************)
(* The tools.                                                              *)
(***************************************************************************)

-----------------------------------------------------------------------------
(* fFinalizeRawAccess.  Mounting a NAND drive opens the decrypted NAND,     *)
(* which opens the SD card, which unmounts and mounts again the NAND drives *)
(* that are mounted by then.  When one of these gets no answer, neither     *)
(* does the drive that was to be mounted.                                   *)

Failing == {"noNand", "noHeader", "noCid"}

\* An initialisation under which the NAND answers n leaves the NAND drives as
\* they are, or the decrypted NAND closed.
Restores(d, e, n) ==
  /\ IF n \in Failing THEN ~e.dnand ELSE e.mounted = d.mounted
  /\ \A v \in NandDrives \ d.mounted : e.vol[v] = d.vol[v]

LEMMA HeaderAnswers ==
  ASSUME NEW b, Good(b), NEW n
  PROVE  /\ n \in Failing => ReadHeader(b, n).dnand = b.dnand
         /\ n \notin Failing /\ b.rnand /\ b.nparts = 0 /\ ~b.panic => ReadHeader(b, n).dnand
<1> DEFINE f == FillPartitions(b)
<1>1. b \in Device
  BY DEF Good
<1>2. f \in Device
  BY FillGood
<1>3. f.dnand = b.dnand /\ (b.nparts = 0 => f.panic = b.panic)
  BY <1>1 DEF FillPartitions, Device
<1> HIDE DEF f
<1>4. CASE n \in Failing
  <2>1. ReadHeader(b, n) \in {b, f}
    BY <1>4 DEF ReadHeader, Failing, f
  <2> QED BY <1>3, <1>4, <2>1
<1>5. CASE n \notin Failing
  <2>1. b.rnand /\ ~f.panic => ReadHeader(b, n) = [f EXCEPT !.dnand = TRUE]
    BY <1>5 DEF ReadHeader, Failing, f
  <2>2. [f EXCEPT !.dnand = TRUE].dnand
    BY <1>2 DEF Device
  <2> QED BY <1>3, <1>5, <2>1, <2>2
<1> QED BY <1>4, <1>5

LEMMA NestedAnswers ==
  ASSUME NEW d, Good(d), ~d.dnand, ~d.panic, NEW n
  PROVE  NestedDnandInit(d, n).dnand <=> n \notin Failing
<1> DEFINE a == [d EXCEPT !.nparts = 0]
           b == NandInit(a, n)
<1>1. Good(a) /\ a.nparts = 0 /\ ~a.panic /\ ~a.dnand
  BY PartitionAssumption DEF Good, Device
<1> HIDE DEF a
<1>2. /\ Good(b) /\ b.nparts = 0 /\ ~b.panic /\ ~b.dnand
      /\ n \notin Failing => b.rnand
  BY <1>1 DEF Good, Device, NandInit, Failing
<1>3. NestedDnandInit(d, n) = ReadHeader(b, n)
  BY DEF NestedDnandInit, a
<1> HIDE DEF b
<1> QED BY <1>2, <1>3, HeaderAnswers

LEMMA RemountRestores ==
  ASSUME NEW d, Good(d), ~d.dnand, ~d.panic, NEW n
  PROVE  Restores(d, RemountNand(d, n), n)
<1> DEFINE up == d.mounted \cap NandDrives
           u == Unmount(d, up)
           e == NestedDnandInit(u, n)
           r == [e EXCEPT !.reg = @ \cup up]
           s == [r EXCEPT !.mounted = @ \cup up,
                   !.vol = [v \in Drives |-> IF v \in up THEN Chip ELSE @[v]]]
<1>1. d \in Device /\ up \in SUBSET Drives /\ up \subseteq d.mounted
  BY DEF Good, Device
<1>2. /\ Good(u) /\ u.mounted = d.mounted \ up /\ u.dnand = d.dnand /\ u.panic = d.panic
      /\ \A v \in Drives \ up : u.vol[v] = d.vol[v]
  <2> HIDE DEF up
  <2> QED BY <1>1, UnmountGood
<1>3. /\ e \in Device /\ e.mounted = d.mounted \ up /\ (e.dnand <=> n \notin Failing)
      /\ e.vol = u.vol
  <2> HIDE DEF u, up
  <2> QED BY <1>2, NestedGood, NestedAnswers DEF Good
<1>4. RemountNand(d, n) = IF up = {} THEN d ELSE IF r.dnand THEN s ELSE r
  BY DEF RemountNand
<1> HIDE DEF e, u
<1>5. r \in Device /\ r.dnand = e.dnand /\ r.vol = e.vol /\ r.mounted = e.mounted
  <2> HIDE DEF up
  <2> QED BY <1>1, <1>3 DEF Device
<1>6. \A v \in NandDrives \ d.mounted : v \in Drives \ up
  BY DEF Drives
<1> HIDE DEF r, up
<1>7. /\ s.mounted = r.mounted \cup up /\ s.dnand = r.dnand
      /\ \A v \in Drives \ up : s.vol[v] = r.vol[v]
  BY <1>1, <1>5 DEF Device
<1> HIDE DEF s
<1>8. CASE up = {}
  BY <1>4, <1>8 DEF Restores
<1>9. CASE up # {} /\ r.dnand
  <2>1. s.mounted = d.mounted
    BY <1>1, <1>3, <1>5, <1>7
  <2> QED BY <1>2, <1>3, <1>4, <1>5, <1>6, <1>7, <1>9, <2>1 DEF Restores
<1>10. CASE up # {} /\ ~r.dnand
  BY <1>2, <1>3, <1>4, <1>5, <1>6, <1>10 DEF Restores
<1> QED BY <1>8, <1>9, <1>10

LEMMA DnandRestores ==
  ASSUME NEW d, Good(d), ~d.dnand, ~d.panic, NEW c, NEW n
  PROVE  Restores(d, DnandInit(d, c, n), n)
<1> DEFINE a == [d EXCEPT !.nparts = 0]
           closed == [a EXCEPT !.dnand = FALSE, !.rnand = FALSE]
           open == [closed EXCEPT !.sd = TRUE, !.irq = TRUE]
           s == SdInit(a, c, n)
           e == RnandInit(a, c, n)
<1>1. Good(a) /\ ~a.dnand /\ ~a.panic /\ a.mounted = d.mounted /\ a.vol = d.vol
  BY PartitionAssumption DEF Good, Device
<1>2. DnandInit(d, c, n) = IF e.panic THEN e ELSE ReadHeader(e, n)
  BY DEF DnandInit
<1> HIDE DEF a
<1>3. Good(closed) /\ ~closed.dnand /\ ~closed.panic /\ closed.mounted = d.mounted /\ closed.vol = d.vol
  BY <1>1 DEF Good, Device
<1> HIDE DEF closed
<1>4. Good(open) /\ ~open.dnand /\ ~open.panic /\ open.mounted = d.mounted /\ open.vol = d.vol
  BY <1>3 DEF Good, Device
<1>5. s \in {a, closed, RemountNand(open, n)}
  BY DEF SdInit, closed
<1> HIDE DEF open
<1>6. Restores(d, s, n)
  <2>1. Restores(d, RemountNand(open, n), n)
    BY <1>4, RemountRestores DEF Restores
  <2>2. Restores(d, a, n) /\ Restores(d, closed, n)
    BY <1>1, <1>3 DEF Restores
  <2> QED BY <1>5, <2>1, <2>2
<1>7. Good(s) /\ Good(e)
  BY <1>1, SdInitGood, RnandInitGood
<1>8. Restores(d, e, n)
  <2>1. e = IF a.rnand THEN a ELSE NandInit(s, n)
    BY DEF RnandInit
  <2>2. Restores(d, a, n)
    BY <1>1 DEF Restores
  <2> HIDE DEF s
  <2>3. /\ NandInit(s, n).dnand = s.dnand /\ NandInit(s, n).mounted = s.mounted
        /\ NandInit(s, n).vol = s.vol
    BY <1>7 DEF NandInit, Good, Device
  <2>4. Restores(d, NandInit(s, n), n)
    BY <1>6, <2>3 DEF Restores
  <2> QED BY <2>1, <2>2, <2>4
<1> HIDE DEF e
<1>9. /\ ReadHeader(e, n).mounted = e.mounted /\ ReadHeader(e, n).vol = e.vol
      /\ n \in Failing => ReadHeader(e, n).dnand = e.dnand
  BY <1>7, HeaderGood, HeaderAnswers
<1>10. Restores(d, ReadHeader(e, n), n)
  BY <1>8, <1>9 DEF Restores
<1> QED BY <1>2, <1>8, <1>10

\* A NAND drive that could be mounted cost no other one its mount.
LEMMA MountRestores ==
  ASSUME NEW d, Good(d), ~d.panic, NEW c, NEW n, NEW i \in NandDrives, i \notin d.mounted,
         MountVolume(d, c, n, i).vol[i] # Unread
  PROVE  MountVolume(d, c, n, i).mounted = d.mounted
<1> DEFINE r == [d EXCEPT !.reg = @ \cup {i}]
           b == Drop(r, {i})
           a == Drop(b, {i})
           e == DnandInit(a, c, n)
           g == [e EXCEPT !.vol = [@ EXCEPT ![i] = Chip]]
<1>0. /\ i \in Drives /\ i # SDMC
      /\ Good(r) /\ r.mounted = d.mounted /\ r.panic = d.panic
  <2>1. i \in Drives /\ i # SDMC
    BY DEF Drives, NandDrives, SDMC
  <2>2. Good(r) /\ r.mounted = d.mounted /\ r.panic = d.panic
    BY <2>1 DEF Good, Device
  <2> QED BY <2>1, <2>2
<1>2. MountVolume(d, c, n, i) = FindVolume(b, c, n, i)
  BY DEF MountVolume
<1> HIDE DEF r
<1>1. Good(b) /\ b.mounted = d.mounted /\ b.vol[i] = Unread /\ b.panic = d.panic
  BY <1>0, DropGood
<1> HIDE DEF b
<1>3. Good(a) /\ a.mounted = d.mounted /\ a.vol[i] = Unread /\ a.panic = d.panic
  BY <1>0, <1>1, DropGood
<1>4. FindVolume(b, c, n, i) = IF e.rnand /\ e.dnand THEN g ELSE e
  BY <1>0, <1>1, Zenon DEF FindVolume, DiskInit, Active, HasFat, Medium
<1> HIDE DEF a
<1>5. e = a \/ Restores(a, e, n)
  BY <1>3, DnandRestores DEF DnandInit
<1>6. e \in Device
  BY <1>3, DnandInitGood DEF Good
<1> HIDE DEF e
<1>7. g.mounted = e.mounted
  BY <1>6 DEF Device
<1>8. e.vol[i] = Unread
  BY <1>3, <1>5 DEF Restores
<1>9. e.rnand /\ e.dnand
  BY <1>2, <1>4, <1>8
<1>10. e.mounted = d.mounted
  BY <1>3, <1>5, <1>9 DEF Restores
<1> QED BY <1>2, <1>4, <1>7, <1>9, <1>10

\* The loop has mounted again what it has passed.
Restored ==
  op = "finalize" => \A v \in backup \cap NandDrives : v < drive => v \in dev.mounted

LEMMA RestoredStep == Inv /\ Restored /\ [StorageNext]_storageVars => Restored'
<1> SUFFICES ASSUME Inv, Restored, [StorageNext]_storageVars, op' = "finalize",
                    NEW v \in backup' \cap NandDrives, v < drive'
             PROVE  v \in dev'.mounted
  BY DEF Restored
<1>0. /\ drive \in 0 .. LastDrive + 1 /\ LastDrive \in Nat /\ Good(dev) /\ dev \in Device
      /\ v \in 1 .. LastDrive /\ v # SDMC
  BY DriveAssumption DEF Inv, StorageTypeOK, Good, NandDrives, SDMC
<1>1. CASE Card \/ UNCHANGED storageVars
  <2>1. UNCHANGED <<op, backup, drive, dev>>
    BY <1>1 DEF Card, CardRemove, CardInsert, server, storageVars
  <2> QED BY <2>1 DEF Restored
<1>2. CASE SdioHandler
  <2>1. dev'.mounted = dev.mounted \ {SDMC} /\ UNCHANGED <<op, backup, drive>>
    BY <1>0, <1>2, HandlerGood DEF SdioHandler, server
  <2> QED BY <1>0, <2>1 DEF Restored
<1>3. CASE Client
  <2>1. drive' = 0
    BY <1>3 DEF Client, CallMount, CallUnmount, CallAccess, CallPrepare, PrepareRefused,
                CallFinalize, Return, SDMC
  <2> QED BY <1>0, <2>1
<1>4. CASE MountOk
  <2>1. PICK n \in NandOutcomes : dev' = MountVolume(dev, card, n, drive)
    BY <1>4 DEF MountOk
  <2>2. /\ UNCHANGED <<op, backup, drive>> /\ ~dev.panic /\ drive \in Drives \ dev.mounted
        /\ dev'.vol[drive] # Unread
    BY <1>4 DEF MountOk, Mounting, Wanted
  <2>3. drive \in NandDrives
    BY <1>0, <2>2 DEF Drives, NandDrives, SDMC
  <2>4. dev'.mounted = dev.mounted
    BY <1>0, <2>1, <2>2, <2>3, MountRestores
  <2> QED BY <2>2, <2>4 DEF Restored
<1>5. CASE MountFails \/ FinalizeDone
  BY <1>5 DEF MountFails, FinalizeDone, Return
<1>6. CASE StoreMounted
  <2>1. op = "finalize" /\ backup' = backup /\ drive' = drive + 1
    BY <1>6 DEF StoreMounted, Return
  <2>2. dev'.mounted = dev.mounted \cup {drive}
    BY <1>0, <1>6 DEF StoreMounted, Device
  <2>3. v < drive \/ v = drive
    BY <1>0, <2>1
  <2> QED BY <2>1, <2>2, <2>3 DEF Restored
<1>7. CASE SkipDrive
  <2>1. op = "finalize" /\ UNCHANGED <<backup, dev>> /\ drive' = drive + 1
    BY <1>7 DEF SkipDrive
  <2>2. drive \in dev.mounted \/ drive \notin backup
    BY <1>7, <2>1 DEF SkipDrive, Wanted
  <2>3. v < drive \/ v = drive
    BY <1>0, <2>1
  <2> QED BY <2>1, <2>2, <2>3 DEF Restored
<1> QED BY <1>1, <1>2, <1>3, <1>4, <1>5, <1>6, <1>7 DEF StorageNext, ServerStep

\* fFinalizeRawAccess reports success only with every NAND drive mounted that
\* was mounted before, although mounting one of them may unmount the others, for
\* any cards pulled and inserted and any answers of the NAND.
THEOREM ReleaseRestoresHolds == StorageSpec => ReleaseRestores
<1>1. StorageInit => Restored
  BY DEF StorageInit, Restored
<1>2. Inv /\ Restored /\ [StorageNext]_storageVars
        => [raw /\ ~raw' => backup \cap NandDrives \subseteq dev'.mounted]_storageVars
  <2> SUFFICES ASSUME Inv, Restored, StorageNext, raw, ~raw'
               PROVE  backup \cap NandDrives \subseteq dev'.mounted
    OBVIOUS
  <2>1. FinalizeDone
    BY DEF StorageNext, Card, CardRemove, CardInsert, SdioHandler, ServerStep, MountOk,
         MountFails,
           StoreMounted, SkipDrive, Client, CallMount, CallUnmount, CallAccess, CallPrepare,
           PrepareRefused, CallFinalize, server
  <2>2. op = "finalize" /\ drive \notin Drives /\ dev' = dev
    BY <2>1 DEF FinalizeDone
  <2>3. drive = LastDrive + 1 /\ LastDrive \in Nat
    BY <2>2, DriveAssumption DEF Inv, StorageTypeOK, Drives, NandDrives, SDMC
  <2>4. \A v \in NandDrives : v < drive
    BY <2>3 DEF NandDrives
  <2> QED BY <2>2, <2>4 DEF Restored
<1> QED BY <1>1, <1>2, InvAlways, RestoredStep, PTL DEF StorageSpec, ReleaseRestores

-----------------------------------------------------------------------------
(* The inductive invariant.                                                *)

\* Steps by what a tool has at them.
Before == {"ensure", "ensuring", "size", "serial", "select", "open", "reserve", "prepare",
           "buffer"}
Held == Transfer \cup {"buffer", "finalize"}
WithFile == {"reserve", "prepare", "close", "giveUp", "finalizing"} \cup Held
Behind == WithFile \cup {"discard", "prompt", "unlink"}

\* A mounted SD drive is initialised, and its volume, if it was read, was read
\* from the card in the slot, until the interrupt has dropped it.
SdMounted ==
  /\ pulled => card = NoCard
  /\ got /\ drive = SDMC => card # NoCard
  /\ SDMC \in dev.mounted \/ (got /\ drive = SDMC) =>
       /\ dev.sd
       /\ dev.vol[SDMC] # Unread => /\ dev.vol[SDMC] \in FatCards
                                    /\ card = dev.vol[SDMC] \/ (card = NoCard /\ pulled)

\* The command the server works on is the one the tool waits for.
Commands ==
  /\ op = "mount" => pc \in {"menu", "select"} \/ (pc = "ensuring" /\ drive = SDMC)
  /\ op = "finalize" => pc = "finalizing"
  /\ pc = "finalizing" /\ op = "idle" /\ ret = "ok" => ~raw

\* Once fsEnsureMounted has succeeded FatFs knows the SD volume only while it is
\* mounted.  So no access to it runs sdmmc_sd_init, which would close the NAND.
SdKnown ==
  (\/ pc = "size"
   \/ pc \in {"serial", "open"} /\ tool = "backup"
   \/ pc = "ensuring" /\ op = "idle" /\ ret = "ok")
    => (SDMC \in dev.reg => SDMC \in dev.mounted)

\* The raw NAND that fGetDeviceSize found open stays open.
RawKept ==
  /\ pc \in {"serial", "open", "reserve", "prepare"} /\ tool = "backup" => dev.rnand
  /\ TransferExclusive

\* How far the tool is, and what it will report.
Progress ==
  /\ pc \in Before => pos = 0
  /\ pc \in {"read", "write"} => pos < Chunks
  /\ pc \in Before \cup Transfer \cup {"giveUp", "discard"} => outcome = "fail"
  /\ pc = "unlink" => outcome # "ok" /\ tool = "backup"
  /\ pc \in {"serial", "reserve"} => tool = "backup"
  /\ pc = "select" => tool = "restore"

\* Where the file is open and the device buffer allocated.
Resources ==
  /\ file # "closed" => pc \in WithFile /\ home \in FatCards
  /\ buf => pc \in Transfer \cup {"finalize", "finalizing"}

\* Without disturbance raw access and an incomplete backup exist only on the
\* way from their creation to the step that ends them.
Undisturbed ==
  ~upset =>
    /\ raw => pc \in Held \cup {"finalizing"}
    /\ pc \in WithFile /\ tool = "backup" => file = "open"
    /\ (pc \in WithFile /\ tool = "backup") \/ partial # {} => card = home /\ SDMC \in dev.mounted
    /\ partial # {} => tool = "backup" /\ pc \in Behind /\ partial = {home}
    /\ pc = "prompt" /\ outcome = "ok" => partial = {}
    /\ pc = "prompt" /\ tool = "backup" /\ outcome = "ok" => home \in images

\* What home names when fUnlink may be called on it.
Deletes ==
  /\ tool = "restore" /\ pc \in {"giveUp", "discard"} => raw
  /\ ~StackSurvives /\ tool = "backup" /\ pc # "menu" /\ outcome # "ok"
       => home \in partial \cup {NoCard}

ToolsIInv ==
  /\ ToolTypes /\ Commands /\ SdKnown /\ RawKept
  /\ Progress /\ Resources /\ Undisturbed /\ Deletes

-----------------------------------------------------------------------------
(* Calls with a path.                                                      *)

\* find_volume accepts the SD volume only with a card in the slot, and what it
\* reads it reads from that card.  On an initialised card it touches nothing
\* but the volume, which it can read if the card has a FAT.
LEMMA FindSdVolume ==
  ASSUME NEW d, Good(d), NEW c \in Slot, NEW n
  PROVE  LET f == FindVolume(d, c, n, SDMC) IN
         /\ f.vol[SDMC] # Unread =>
              f.sd /\ c # NoCard /\ (f = d \/ (f.vol[SDMC] = c /\ c \in FatCards))
         /\ d.sd => /\ f.mounted = d.mounted /\ f.reg = d.reg /\ f.rnand = d.rnand
                    /\ c \in FatCards => f.vol[SDMC] # Unread
<1> DEFINE f == FindVolume(d, c, n, SDMC)
           a == Drop(d, {SDMC})
           e == SdInit(a, c, n)
           g == [e EXCEPT !.vol = [@ EXCEPT ![SDMC] = c]]
<1>1. /\ Good(a) /\ a.mounted = d.mounted /\ a.sd = d.sd /\ a.reg = d.reg
      /\ a.rnand = d.rnand /\ a.vol[SDMC] = Unread
  BY DropGood DEF Drives
<1>2. /\ e \in Device /\ e.vol[SDMC] = Unread
      /\ d.sd => e.sd /\ e.mounted = d.mounted /\ e.reg = d.reg /\ e.rnand = d.rnand
  <2>1. Good(e) /\ Kept(a, e)
    <3> HIDE DEF a
    <3> QED BY <1>1, SdInitGood
  <2>2. d.sd => e = a
    BY <1>1 DEF SdInit
  <2> HIDE DEF a, e
  <2> QED BY <1>1, <2>1, <2>2 DEF Good, Kept, SameSd
<1>3. \/ f = d /\ d.sd /\ c # NoCard /\ d.vol[SDMC] # Unread
      \/ f = g /\ e.sd /\ c # NoCard /\ c \in FatCards
      \/ f = e /\ ~(e.sd /\ c # NoCard /\ c \in FatCards)
  BY DEF FindVolume, Active, DiskInit, HasFat, Medium
<1> HIDE DEF a, e, f
<1>4. /\ g.vol[SDMC] = c /\ g.sd = e.sd /\ g.mounted = e.mounted /\ g.reg = e.reg
      /\ g.rnand = e.rnand
  BY <1>2 DEF Device, Drives
<1>5. c \in FatCards => c # NoCard /\ c # Unread
  BY CardAssumption
<1> HIDE DEF g
<1> QED
  BY <1>2, <1>3, <1>4, <1>5 DEF f

\* While the raw NAND is open, a path on a NAND drive touches neither it nor
\* the mounts: nothing makes sdmmc_sd_init run.
LEMMA FindNandVolume ==
  ASSUME NEW d, Good(d), NEW c \in Slot, NEW n, NEW i \in NandDrives, d.rnand
  PROVE  LET f == FindVolume(d, c, n, i) IN
         f.mounted = d.mounted /\ f.reg = d.reg /\ f.rnand
<1> DEFINE f == FindVolume(d, c, n, i)
           a == Drop(d, {i})
           b == [a EXCEPT !.nparts = 0]
           e == DnandInit(a, c, n)
           g == [e EXCEPT !.vol = [@ EXCEPT ![i] = Chip]]
<1>1. Good(a) /\ a.mounted = d.mounted /\ a.reg = d.reg /\ a.rnand
  BY DropGood DEF Drives
<1> HIDE DEF a
<1>2. ~a.dnand => Good(b) /\ b.mounted = d.mounted /\ b.reg = d.reg /\ b.rnand
  BY <1>1, PartitionAssumption DEF Good, Device
<1> HIDE DEF b
<1>3. e \in {a, b} \/ e = ReadHeader(b, n)
  BY <1>2 DEF DnandInit, RnandInit, b, Good, Device
<1>4. ~a.dnand => /\ ReadHeader(b, n).mounted = b.mounted /\ ReadHeader(b, n).reg = b.reg
                  /\ ReadHeader(b, n).rnand /\ ReadHeader(b, n) \in Device
  <2>1. ASSUME ~a.dnand
        PROVE  /\ ReadHeader(b, n).mounted = b.mounted /\ ReadHeader(b, n).reg = b.reg
               /\ ReadHeader(b, n) \in Device
    BY <1>2, <2>1, HeaderGood DEF Good
  <2>2. ASSUME ~a.dnand PROVE ReadHeader(b, n).rnand
    <3> DEFINE filled == FillPartitions(b)
    <3>1. filled.rnand = b.rnand /\ filled \in Device
      BY <1>2, <2>2, FillGood
    <3> HIDE DEF filled
    <3> QED BY <1>2, <2>2, <3>1 DEF ReadHeader, filled, Device
  <2> QED BY <2>1, <2>2
<1>5. e.mounted = d.mounted /\ e.reg = d.reg /\ e.rnand /\ e \in Device
  BY <1>1, <1>2, <1>3, <1>4 DEF Good, DnandInit
<1>6. f \in {d, e, g}
  BY DEF FindVolume, DiskInit, Medium, a, NandDrives, SDMC
<1> HIDE DEF e, f
<1>7. g.mounted = e.mounted /\ g.reg = e.reg /\ g.rnand = e.rnand
  BY <1>5 DEF Device
<1> QED
  BY <1>5, <1>6, <1>7 DEF f

-----------------------------------------------------------------------------
(* The tools are clients of the storage stack: each of their steps is one  *)
(* of its steps, or none.                                                  *)

\* The tools call the server and do nothing else to its state.
LEMMA StepOfStorage == [Next]_vars => [StorageNext]_storageVars
<1> SUFFICES ASSUME [Next]_vars PROVE [StorageNext]_storageVars
  OBVIOUS
<1>0. SDMC \in Drives /\ CtrNand \in Drives
  BY DriveAssumption DEF Drives, NandDrives, CtrNand
<1>1. AccessSd \/ NoAccessSd => [StorageNext]_storageVars
  BY <1>0 DEF AccessSd, NoAccessSd, StorageNext, Client
<1>2. CASE ToolStep
  <2>1. ASSUME EnsureSd \/ Prepare \/ PrepareFails \/ Finalize
        PROVE  StorageNext \/ UNCHANGED storageVars
    BY <1>0, <2>1 DEF EnsureSd, Prepare, PrepareFails, Finalize, StorageNext, Client
  <2>2. ASSUME \/ EnsuredSd \/ NandSize \/ Reserve \/ Buffer \/ ReadChunk \/ WriteChunk \/ Poll
               \/ Finalized \/ Close
        PROVE  UNCHANGED storageVars
    BY <2>2 DEF EnsuredSd, NandSize, Reserve, Buffer, ReadChunk, WriteChunk, Poll,
         Finalized, Close
  <2>3. ASSUME OpenFile \/ OpenFails \/ Unlink
        PROVE  AccessSd \/ NoAccessSd
    BY <2>3 DEF OpenFile, OpenFails, Unlink
  <2>4. ASSUME ReadSerial
        PROVE  CallAccess(CtrNand) \/ UNCHANGED storageVars
    BY <2>4 DEF ReadSerial
  <2>5. CallAccess(CtrNand) => StorageNext
    BY <1>0 DEF StorageNext, Client
  <2> QED
    BY <1>1, <1>2, <2>1, <2>2, <2>3, <2>4, <2>5 DEF ToolStep
<1>3. ASSUME ServerSteps \/ Browse \/ PullCard \/ InsertCard \/ Interrupt
      PROVE  StorageNext
  BY <1>3 DEF ServerSteps, Browse, PullCard, InsertCard, Interrupt, StorageNext, Client,
       Card
<1>4. ASSUME Select \/ Prompt \/ \E t \in {"backup", "restore"} : StartTool(t)
      PROVE  UNCHANGED storageVars
  BY <1>4 DEF Select, Prompt, StartTool
<1>5. UNCHANGED vars => UNCHANGED storageVars
  BY DEF vars
<1> QED
  BY <1>2, <1>3, <1>4, <1>5 DEF Next

\* So what is proved about the server holds below the tools.
LEMMA ToolsKeepInv == Spec => []Inv
<1>1. Init => StorageInit
  BY DEF Init
<1>2. Spec => StorageSpec
  BY <1>1, StepOfStorage, PTL DEF Spec, StorageSpec
<1> QED
  BY <1>2, InvAlways, PTL

-----------------------------------------------------------------------------
(* The SD volume.                                                          *)

\* No initialisation and no interrupt drops the SD volume of a card in the slot.
LEMMA SdMountedStep ==
  ASSUME ~PullDuringMount, Inv, SdMounted, [StorageNext]_storageVars
  PROVE  SdMounted'
<1>0. dev \in Device /\ Good(dev) /\ card \in Slot /\ SDMC \in Drives
  BY DEF Inv, StorageTypeOK, Slot, Drives
<1>1. CASE CardRemove
  <2>1. ~got /\ (dev.sd => dev.irq)
    BY <1>0, <1>1 DEF CardRemove, Good
  <2>2. card' = NoCard /\ dev' = dev /\ pulled' = dev.irq /\ got' = got /\ drive' = drive
    BY <1>1 DEF CardRemove, server
  <2>3. card # NoCard
    BY <1>1 DEF CardRemove
  <2> QED
    BY <2>1, <2>2 DEF SdMounted
<1>2. CASE CardInsert
  <2>1. card' # NoCard /\ card = NoCard /\ ~pulled
    BY <1>2, CardAssumption DEF CardInsert
  <2>2. pulled' = pulled /\ dev' = dev /\ got' = got /\ drive' = drive
    BY <1>2 DEF CardInsert, server
  <2>3. NoCard \notin FatCards
    BY CardAssumption
  <2> QED
    BY <2>1, <2>2, <2>3 DEF SdMounted
<1>3. CASE SdioHandler
  <2>1. SDMC \notin dev'.mounted
    BY <1>0, <1>3, HandlerGood
  <2>2. ~(got /\ drive = SDMC)
    BY <1>3 DEF SdioHandler, SdMounted
  <2>3. ~pulled' /\ got' = got /\ drive' = drive
    BY <1>3 DEF SdioHandler, server
  <2> QED
    BY <2>1, <2>2, <2>3 DEF SdMounted
<1>4. ASSUME NEW i \in Drives, CallMount(i) PROVE SdMounted'
  <2>1. ~got /\ ~got' /\ dev' = dev /\ card' = card /\ pulled' = pulled
    BY <1>4 DEF CallMount, Idle, Inv, Mount
  <2> QED
    BY <2>1 DEF SdMounted
<1>5. ASSUME NEW i \in Drives, CallUnmount(i) PROVE SdMounted'
  <2>1. ~got /\ ~got'
    BY <1>5 DEF CallUnmount, Return, Idle, Inv, Mount
  <2>2. dev' = Unmount(dev, {i}) /\ card' = card /\ pulled' = pulled
    BY <1>5 DEF CallUnmount
  <2>3. /\ dev'.mounted = dev.mounted \ {i} /\ dev'.sd = dev.sd
        /\ i # SDMC => dev'.vol[SDMC] = dev.vol[SDMC]
    BY <1>0, <2>2, UnmountGood
  <2> QED
    BY <2>1, <2>2, <2>3 DEF SdMounted
<1>6. ASSUME NEW i \in Drives, CallAccess(i) PROVE SdMounted'
  <2>1. PICK n \in NandOutcomes : dev' = FindVolume(dev, card, n, i)
    BY <1>6 DEF CallAccess
  <2>2. ~got /\ ~got' /\ card' = card /\ pulled' = pulled
    BY <1>6 DEF CallAccess, Return, Idle, Inv, Mount
  <2> DEFINE f == FindVolume(dev, card, n, i)
  <2>3. /\ SDMC \in f.mounted <=> SDMC \in dev.mounted
        /\ dev.sd => f.sd
        /\ i # SDMC => f.vol[SDMC] = dev.vol[SDMC]
    BY <1>0, FindVolumeGood
  <2>4. i = SDMC /\ f.vol[SDMC] # Unread =>
          f = dev \/ (f.vol[SDMC] = card /\ card \in FatCards)
    BY <1>0, FindSdVolume
  <2> HIDE DEF f
  <2>5. dev' = f
    BY <2>1 DEF f
  <2> QED
    BY <2>2, <2>3, <2>4, <2>5 DEF SdMounted
<1>7. CASE CallPrepare
  <2> DEFINE up == dev.mounted \cap NandDrives
  <2>1. up \in SUBSET Drives /\ SDMC \notin up
    BY <1>0 DEF Device, NandDrives, SDMC
  <2>2. dev' = Unmount(dev, up)
    BY <1>7 DEF CallPrepare
  <2> HIDE DEF up
  <2>3. SameSd(dev, dev') /\ dev'.sd = dev.sd
    BY <1>0, <2>1, <2>2, UnmountGood
  <2>4. ~got /\ ~got' /\ card' = card /\ pulled' = pulled
    BY <1>7 DEF CallPrepare, Return, Idle, Inv, Mount
  <2> QED
    BY <2>3, <2>4 DEF SdMounted, SameSd
<1>8. ASSUME PrepareRefused \/ FinalizeDone PROVE SdMounted'
  <2>1. ~got' /\ UNCHANGED <<card, pulled, dev>>
    BY <1>8 DEF PrepareRefused, FinalizeDone, Return
  <2> QED
    BY <2>1 DEF SdMounted
<1>9. CASE CallFinalize
  <2>1. ~got /\ ~got' /\ dev' = dev /\ card' = card /\ pulled' = pulled
    BY <1>9 DEF CallFinalize, Idle, Inv, Mount
  <2> QED
    BY <2>1 DEF SdMounted
<1>10. ASSUME MountOk \/ MountFails PROVE SdMounted'
  <2>1. PICK n \in NandOutcomes : dev' = MountVolume(dev, card, n, drive)
    BY <1>10 DEF MountOk, MountFails
  <2>2. drive \in Drives /\ drive \notin dev.mounted /\ ~got /\ card' = card /\ pulled' = pulled
    BY <1>10 DEF MountOk, MountFails, Wanted, Mounting
  <2> DEFINE r == [dev EXCEPT !.reg = @ \cup {drive}]
             a == Drop(r, {drive})
             f == MountVolume(dev, card, n, drive)
  <2>3. /\ SDMC \in f.mounted <=> SDMC \in dev.mounted
        /\ dev.sd => f.sd
        /\ drive # SDMC => f.vol[SDMC] = dev.vol[SDMC]
        /\ drive = SDMC /\ f.vol[SDMC] # Unread => f.vol[SDMC] = card /\ f.sd /\ card # NoCard
    BY <1>0, <2>2, MountVolumeGood
  <2>4. drive = SDMC /\ f.vol[SDMC] # Unread => card \in FatCards
    <3>2. f = FindVolume(a, card, n, drive)
      BY DEF MountVolume
    <3>0. Good(r)
      BY <1>0, <2>2 DEF Good, Device
    <3> HIDE DEF r
    <3>1. Good(a) /\ (drive = SDMC => a.vol[SDMC] = Unread)
      BY <2>2, <3>0, DropGood
    <3> HIDE DEF a, f
    <3> QED BY <1>0, <3>1, <3>2, FindSdVolume
  <2> HIDE DEF f
  <2>5. dev' = f
    BY <2>1 DEF f
  <2>6. CASE MountOk
    <3>1. got' /\ drive' = drive /\ dev'.vol[drive] # Unread
      BY <2>6 DEF MountOk
    <3> QED
      BY <2>2, <2>3, <2>4, <2>5, <3>1 DEF SdMounted
  <2>7. CASE MountFails
    <3>1. ~got' /\ dev'.vol[drive] = Unread
      BY <2>7 DEF MountFails, Return
    <3> QED
      BY <2>2, <2>3, <2>5, <3>1 DEF SdMounted
  <2> QED
    BY <1>10, <2>6, <2>7
<1>11. CASE StoreMounted
  <2>1. ~got' /\ got /\ card' = card /\ pulled' = pulled
    BY <1>11 DEF StoreMounted, Return
  <2>2. dev'.mounted = dev.mounted \cup {drive} /\ dev'.vol = dev.vol /\ dev'.sd = dev.sd
    BY <1>11 DEF StoreMounted, Device
  <2> QED
    BY <2>1, <2>2 DEF SdMounted
<1>12. CASE SkipDrive
  BY <1>12 DEF SkipDrive, SdMounted
<1>13. CASE UNCHANGED storageVars
  BY <1>13 DEF storageVars, server, SdMounted
<1> QED
  BY <1>1, <1>2, <1>3, <1>4, <1>5, <1>6, <1>7, <1>8, <1>9, <1>10, <1>11, <1>12,
     <1>13 DEF StorageNext, Card, ServerStep, Client

-----------------------------------------------------------------------------
(* Steps of the tools, the server and the card.                            *)

\* Steps that call nothing that changes the storage stack.
LEMMA QuietStep ==
  ASSUME Inv, SdMounted, ToolsIInv, UNCHANGED storageVars,
         \/ EnsuredSd \/ NandSize \/ Reserve \/ Buffer \/ ReadChunk \/ WriteChunk \/ Poll
         \/ Finalized \/ Close \/ Select \/ Prompt \/ (\E t \in {"backup", "restore"} : StartTool(t))
  PROVE  ToolsIInv'
<1>0. UNCHANGED <<card, pulled, dev, raw, backup, op, drive, got, ret>>
  BY DEF storageVars, server
<1>1. CASE EnsuredSd
  <2>1. ToolTypes'
    BY <1>1, CardAssumption, StackAssumption DEF EnsuredSd, Goto, ToolsIInv, Idle,
       Before, Held, WithFile, Behind, Transfer, Exits, Steps, ToolTypes, Progress,
       Resources
  <2>2. Commands'
    BY <1>0, <1>1, CardAssumption, StackAssumption DEF EnsuredSd, Goto, ToolsIInv, Idle,
       Before, Held, WithFile, Behind, Transfer, Exits, Steps, Commands
  <2>3. SdKnown'
    BY <1>0, <1>1, CardAssumption, StackAssumption DEF EnsuredSd, Goto, ToolsIInv, Idle,
       Before, Held, WithFile, Behind, Transfer, Exits, Steps, SdKnown, Commands
  <2>4. RawKept'
    BY <1>1, CardAssumption, StackAssumption DEF EnsuredSd, Goto, ToolsIInv, Idle,
       Before, Held, WithFile, Behind, Transfer, Exits, Steps, RawKept,
       TransferExclusive, Progress, Commands
  <2>5. Progress'
    BY <1>1, CardAssumption, StackAssumption DEF EnsuredSd, Goto, ToolsIInv, Idle,
       Before, Held, WithFile, Behind, Transfer, Exits, Steps, Progress, ToolTypes
  <2>6. Resources'
    BY <1>1, CardAssumption, StackAssumption DEF EnsuredSd, Goto, ToolsIInv, Idle,
       Before, Held, WithFile, Behind, Transfer, Exits, Steps, Resources, Progress,
       ToolTypes
  <2>7. Undisturbed'
    BY <1>0, <1>1, CardAssumption, StackAssumption DEF EnsuredSd, Goto, ToolsIInv, Idle,
       Before, Held, WithFile, Behind, Transfer, Exits, Steps, Undisturbed, Progress,
       ToolTypes, SdMounted, Commands, Resources, Inv, StorageTypeOK
  <2>8. Deletes'
    BY <1>1, CardAssumption, StackAssumption DEF EnsuredSd, Goto, ToolsIInv, Idle,
       Before, Held, WithFile, Behind, Transfer, Exits, Steps, Deletes, Progress,
       ToolTypes, Undisturbed, Commands, Resources
  <2> QED BY <2>1, <2>2, <2>3, <2>4, <2>5, <2>6, <2>7, <2>8 DEF ToolsIInv
<1>2. CASE NandSize
  <2>1. ToolTypes'
    BY <1>2, CardAssumption, StackAssumption DEF NandSize, Goto, ToolsIInv, Idle,
       Before, Held, WithFile, Behind, Transfer, Exits, Steps, ToolTypes, Progress,
       Resources
  <2>2. Commands'
    BY <1>0, <1>2, CardAssumption, StackAssumption DEF NandSize, Goto, ToolsIInv, Idle,
       Before, Held, WithFile, Behind, Transfer, Exits, Steps, Commands
  <2>3. SdKnown'
    BY <1>0, <1>2, CardAssumption, StackAssumption DEF NandSize, Goto, ToolsIInv, Idle,
       Before, Held, WithFile, Behind, Transfer, Exits, Steps, SdKnown, Commands
  <2>4. RawKept'
    BY <1>0, <1>2, CardAssumption, StackAssumption DEF NandSize, Goto, ToolsIInv, Idle,
       Before, Held, WithFile, Behind, Transfer, Exits, Steps, RawKept,
       TransferExclusive, Progress, Commands
  <2>5. Progress'
    BY <1>2, CardAssumption, StackAssumption DEF NandSize, Goto, ToolsIInv, Idle,
       Before, Held, WithFile, Behind, Transfer, Exits, Steps, Progress, ToolTypes
  <2>6. Resources'
    BY <1>2, CardAssumption, StackAssumption DEF NandSize, Goto, ToolsIInv, Idle,
       Before, Held, WithFile, Behind, Transfer, Exits, Steps, Resources, Progress,
       ToolTypes
  <2>7. Undisturbed'
    BY <1>0, <1>2, CardAssumption, StackAssumption DEF NandSize, Goto, ToolsIInv, Idle,
       Before, Held, WithFile, Behind, Transfer, Exits, Steps, Undisturbed, Progress,
       ToolTypes, SdMounted, Commands, Resources, Inv, StorageTypeOK
  <2>8. Deletes'
    BY <1>2, CardAssumption, StackAssumption DEF NandSize, Goto, ToolsIInv, Idle,
       Before, Held, WithFile, Behind, Transfer, Exits, Steps, Deletes, Progress,
       ToolTypes, Undisturbed, Commands, Resources
  <2> QED BY <2>1, <2>2, <2>3, <2>4, <2>5, <2>6, <2>7, <2>8 DEF ToolsIInv
<1>3. CASE Reserve
  <2>1. ToolTypes'
    BY <1>3, CardAssumption, StackAssumption DEF Reserve, Goto, ToolsIInv, Idle, Before,
       Held, WithFile, Behind, Transfer, Exits, Steps, ToolTypes, Progress, Resources
  <2>2. Commands'
    BY <1>0, <1>3, CardAssumption, StackAssumption DEF Reserve, Goto, ToolsIInv, Idle,
       Before, Held, WithFile, Behind, Transfer, Exits, Steps, Commands
  <2>3. SdKnown'
    BY <1>3, CardAssumption, StackAssumption DEF Reserve, Goto, ToolsIInv, Idle, Before,
       Held, WithFile, Behind, Transfer, Exits, Steps, SdKnown, Commands
  <2>4. RawKept'
    BY <1>0, <1>3, CardAssumption, StackAssumption DEF Reserve, Goto, ToolsIInv, Idle,
       Before, Held, WithFile, Behind, Transfer, Exits, Steps, RawKept,
       TransferExclusive, Progress, Commands
  <2>5. Progress'
    BY <1>3, CardAssumption, StackAssumption DEF Reserve, Goto, ToolsIInv, Idle, Before,
       Held, WithFile, Behind, Transfer, Exits, Steps, Progress, ToolTypes
  <2>6. Resources'
    BY <1>3, CardAssumption, StackAssumption DEF Reserve, Goto, ToolsIInv, Idle, Before,
       Held, WithFile, Behind, Transfer, Exits, Steps, Resources, Progress, ToolTypes
  <2>7. Undisturbed'
    BY <1>0, <1>3, CardAssumption, StackAssumption DEF Reserve, Goto, ToolsIInv, Idle,
       Before, Held, WithFile, Behind, Transfer, Exits, Steps, Undisturbed, Progress,
       ToolTypes, SdMounted, Commands, Resources, Inv, StorageTypeOK
  <2>8. Deletes'
    BY <1>3, CardAssumption, StackAssumption DEF Reserve, Goto, ToolsIInv, Idle, Before,
       Held, WithFile, Behind, Transfer, Exits, Steps, Deletes, Progress, ToolTypes,
       Undisturbed, Commands, Resources
  <2> QED BY <2>1, <2>2, <2>3, <2>4, <2>5, <2>6, <2>7, <2>8 DEF ToolsIInv
<1>4. CASE Buffer
  <2>1. ToolTypes'
    BY <1>4, CardAssumption, StackAssumption DEF Buffer, Goto, ToolsIInv, Idle, Before,
       Held, WithFile, Behind, Transfer, Exits, Steps, ToolTypes, Progress, Resources
  <2>2. Commands'
    BY <1>0, <1>4, CardAssumption, StackAssumption DEF Buffer, Goto, ToolsIInv, Idle,
       Before, Held, WithFile, Behind, Transfer, Exits, Steps, Commands
  <2>3. SdKnown'
    BY <1>4, CardAssumption, StackAssumption DEF Buffer, Goto, ToolsIInv, Idle, Before,
       Held, WithFile, Behind, Transfer, Exits, Steps, SdKnown, Commands
  <2>4. RawKept'
    BY <1>0, <1>4, CardAssumption, StackAssumption DEF Buffer, Goto, ToolsIInv, Idle,
       Before, Held, WithFile, Behind, Transfer, Exits, Steps, RawKept,
       TransferExclusive, Progress, Commands
  <2>5. Progress'
    BY <1>4, ChunkAssumption, CardAssumption, StackAssumption DEF Buffer, Goto,
       ToolsIInv, Idle, Before, Held, WithFile, Behind, Transfer, Exits, Steps,
       Progress, ToolTypes
  <2>6. Resources'
    BY <1>4, CardAssumption, StackAssumption DEF Buffer, Goto, ToolsIInv, Idle, Before,
       Held, WithFile, Behind, Transfer, Exits, Steps, Resources, Progress, ToolTypes
  <2>7. Undisturbed'
    BY <1>0, <1>4, CardAssumption, StackAssumption DEF Buffer, Goto, ToolsIInv, Idle,
       Before, Held, WithFile, Behind, Transfer, Exits, Steps, Undisturbed, Progress,
       ToolTypes, SdMounted, Commands, Resources, Inv, StorageTypeOK
  <2>8. Deletes'
    BY <1>4, CardAssumption, StackAssumption DEF Buffer, Goto, ToolsIInv, Idle, Before,
       Held, WithFile, Behind, Transfer, Exits, Steps, Deletes, Progress, ToolTypes,
       Undisturbed, Commands, Resources
  <2> QED BY <2>1, <2>2, <2>3, <2>4, <2>5, <2>6, <2>7, <2>8 DEF ToolsIInv
<1>5. CASE ReadChunk
  <2>1. ToolTypes'
    BY <1>5, CardAssumption, StackAssumption DEF ReadChunk, Goto, ToolsIInv, Idle,
       Before, Held, WithFile, Behind, Transfer, Exits, Steps, ToolTypes, Progress,
       Resources
  <2>2. Commands'
    BY <1>0, <1>5, CardAssumption, StackAssumption DEF ReadChunk, Goto, ToolsIInv, Idle,
       Before, Held, WithFile, Behind, Transfer, Exits, Steps, Commands
  <2>3. SdKnown'
    BY <1>5, CardAssumption, StackAssumption DEF ReadChunk, Goto, ToolsIInv, Idle,
       Before, Held, WithFile, Behind, Transfer, Exits, Steps, SdKnown, Commands
  <2>4. RawKept'
    BY <1>0, <1>5, CardAssumption, StackAssumption DEF ReadChunk, Goto, ToolsIInv, Idle,
       Before, Held, WithFile, Behind, Transfer, Exits, Steps, RawKept,
       TransferExclusive, Progress, Commands
  <2>5. Progress'
    BY <1>5, CardAssumption, StackAssumption DEF ReadChunk, Goto, ToolsIInv, Idle,
       Before, Held, WithFile, Behind, Transfer, Exits, Steps, Progress, ToolTypes
  <2>6. Resources'
    BY <1>5, CardAssumption, StackAssumption DEF ReadChunk, Goto, ToolsIInv, Idle,
       Before, Held, WithFile, Behind, Transfer, Exits, Steps, Resources, Progress,
       ToolTypes
  <2>7. Undisturbed'
    BY <1>0, <1>5, CardAssumption, StackAssumption DEF ReadChunk, Goto, ToolsIInv, Idle,
       Before, Held, WithFile, Behind, Transfer, Exits, Steps, Undisturbed, Progress,
       ToolTypes, SdMounted, Commands, Resources, Inv, StorageTypeOK
  <2>8. Deletes'
    BY <1>5, CardAssumption, StackAssumption DEF ReadChunk, Goto, ToolsIInv, Idle,
       Before, Held, WithFile, Behind, Transfer, Exits, Steps, Deletes, Progress,
       ToolTypes, Undisturbed, Commands, Resources
  <2> QED BY <2>1, <2>2, <2>3, <2>4, <2>5, <2>6, <2>7, <2>8 DEF ToolsIInv
<1>6. CASE WriteChunk
  <2>1. ToolTypes'
    BY <1>6, ChunkAssumption, CardAssumption, StackAssumption DEF WriteChunk, Goto,
       ToolsIInv, Idle, Before, Held, WithFile, Behind, Transfer, Exits, Steps,
       ToolTypes, Progress, Resources
  <2>2. Commands'
    BY <1>0, <1>6, CardAssumption, StackAssumption DEF WriteChunk, Goto, ToolsIInv,
       Idle, Before, Held, WithFile, Behind, Transfer, Exits, Steps, Commands
  <2>3. SdKnown'
    BY <1>6, CardAssumption, StackAssumption DEF WriteChunk, Goto, ToolsIInv, Idle,
       Before, Held, WithFile, Behind, Transfer, Exits, Steps, SdKnown, Commands
  <2>4. RawKept'
    BY <1>0, <1>6, CardAssumption, StackAssumption DEF WriteChunk, Goto, ToolsIInv,
       Idle, Before, Held, WithFile, Behind, Transfer, Exits, Steps, RawKept,
       TransferExclusive, Progress, Commands
  <2>5. Progress'
    BY <1>6, CardAssumption, StackAssumption DEF WriteChunk, Goto, ToolsIInv, Idle,
       Before, Held, WithFile, Behind, Transfer, Exits, Steps, Progress, ToolTypes
  <2>6. Resources'
    BY <1>6, CardAssumption, StackAssumption DEF WriteChunk, Goto, ToolsIInv, Idle,
       Before, Held, WithFile, Behind, Transfer, Exits, Steps, Resources, Progress,
       ToolTypes
  <2>7. Undisturbed'
    BY <1>0, <1>6, CardAssumption, StackAssumption DEF WriteChunk, Goto, ToolsIInv,
       Idle, Before, Held, WithFile, Behind, Transfer, Exits, Steps, Undisturbed,
       Progress, ToolTypes, SdMounted, Commands, Resources, Inv, StorageTypeOK
  <2>8. Deletes'
    BY <1>6, CardAssumption, StackAssumption DEF WriteChunk, Goto, ToolsIInv, Idle,
       Before, Held, WithFile, Behind, Transfer, Exits, Steps, Deletes, Progress,
       ToolTypes, Undisturbed, Commands, Resources
  <2> QED BY <2>1, <2>2, <2>3, <2>4, <2>5, <2>6, <2>7, <2>8 DEF ToolsIInv
<1>7. CASE Poll
  <2>1. ToolTypes'
    BY <1>7, CardAssumption, StackAssumption DEF Poll, Goto, ToolsIInv, Idle, Before,
       Held, WithFile, Behind, Transfer, Exits, Steps, ToolTypes, Progress, Resources
  <2>2. Commands'
    BY <1>0, <1>7, CardAssumption, StackAssumption DEF Poll, Goto, ToolsIInv, Idle,
       Before, Held, WithFile, Behind, Transfer, Exits, Steps, Commands
  <2>3. SdKnown'
    BY <1>7, CardAssumption, StackAssumption DEF Poll, Goto, ToolsIInv, Idle, Before,
       Held, WithFile, Behind, Transfer, Exits, Steps, SdKnown, Commands
  <2>4. RawKept'
    BY <1>0, <1>7, CardAssumption, StackAssumption DEF Poll, Goto, ToolsIInv, Idle,
       Before, Held, WithFile, Behind, Transfer, Exits, Steps, RawKept,
       TransferExclusive, Progress, Commands
  <2>5. Progress'
    BY <1>7, CardAssumption, StackAssumption DEF Poll, Goto, ToolsIInv, Idle, Before,
       Held, WithFile, Behind, Transfer, Exits, Steps, Progress, ToolTypes
  <2>6. Resources'
    BY <1>7, CardAssumption, StackAssumption DEF Poll, Goto, ToolsIInv, Idle, Before,
       Held, WithFile, Behind, Transfer, Exits, Steps, Resources, Progress, ToolTypes
  <2>7. Undisturbed'
    BY <1>0, <1>7, CardAssumption, StackAssumption DEF Poll, Goto, ToolsIInv, Idle,
       Before, Held, WithFile, Behind, Transfer, Exits, Steps, Undisturbed, Progress,
       ToolTypes, SdMounted, Commands, Resources, Inv, StorageTypeOK
  <2>8. Deletes'
    BY <1>7, CardAssumption, StackAssumption DEF Poll, Goto, ToolsIInv, Idle, Before,
       Held, WithFile, Behind, Transfer, Exits, Steps, Deletes, Progress, ToolTypes,
       Undisturbed, Commands, Resources
  <2> QED BY <2>1, <2>2, <2>3, <2>4, <2>5, <2>6, <2>7, <2>8 DEF ToolsIInv
<1>8. CASE Finalized
  <2>1. ToolTypes'
    BY <1>0, <1>8, ChunkAssumption, CardAssumption, StackAssumption DEF Finalized, Goto,
       ToolsIInv, Idle, Before, Held, WithFile, Behind, Transfer, Exits, Steps,
       ToolTypes, Progress, Resources
  <2>2. Commands'
    BY <1>0, <1>8, CardAssumption, StackAssumption DEF Finalized, Goto, ToolsIInv, Idle,
       Before, Held, WithFile, Behind, Transfer, Exits, Steps, Commands
  <2>3. SdKnown'
    BY <1>8, CardAssumption, StackAssumption DEF Finalized, Goto, ToolsIInv, Idle,
       Before, Held, WithFile, Behind, Transfer, Exits, Steps, SdKnown, Commands
  <2>4. RawKept'
    BY <1>8, CardAssumption, StackAssumption DEF Finalized, Goto, ToolsIInv, Idle,
       Before, Held, WithFile, Behind, Transfer, Exits, Steps, RawKept,
       TransferExclusive, Progress, Commands
  <2>5. Progress'
    BY <1>8, CardAssumption, StackAssumption DEF Finalized, Goto, ToolsIInv, Idle,
       Before, Held, WithFile, Behind, Transfer, Exits, Steps, Progress, ToolTypes
  <2>6. Resources'
    BY <1>8, CardAssumption, StackAssumption DEF Finalized, Goto, ToolsIInv, Idle,
       Before, Held, WithFile, Behind, Transfer, Exits, Steps, Resources, Progress,
       ToolTypes
  <2>7. Undisturbed'
    BY <1>0, <1>8, CardAssumption, StackAssumption DEF Finalized, Goto, ToolsIInv, Idle,
       Before, Held, WithFile, Behind, Transfer, Exits, Steps, Undisturbed, Progress,
       ToolTypes, SdMounted, Commands, Resources, Inv, StorageTypeOK
  <2>8. Deletes'
    BY <1>8, CardAssumption, StackAssumption DEF Finalized, Goto, ToolsIInv, Idle,
       Before, Held, WithFile, Behind, Transfer, Exits, Steps, Deletes, Progress,
       ToolTypes, Undisturbed, Commands, Resources
  <2> QED BY <2>1, <2>2, <2>3, <2>4, <2>5, <2>6, <2>7, <2>8 DEF ToolsIInv
<1>9. CASE Close
  <2>1. ToolTypes'
    BY <1>9, CardAssumption, StackAssumption DEF Close, Goto, ToolsIInv, Idle, Before,
       Held, WithFile, Behind, Transfer, Exits, Steps, ToolTypes, Progress, Resources,
       NextAfterClose, Commit, FileUsable, Active
  <2>2. Commands'
    BY <1>0, <1>9, CardAssumption, StackAssumption DEF Close, Goto, ToolsIInv, Idle,
       Before, Held, WithFile, Behind, Transfer, Exits, Steps, Commands, NextAfterClose,
       Commit, FileUsable, Active
  <2>3. SdKnown'
    BY <1>9, CardAssumption, StackAssumption DEF Close, Goto, ToolsIInv, Idle, Before,
       Held, WithFile, Behind, Transfer, Exits, Steps, SdKnown, Commands,
       NextAfterClose, Commit, FileUsable, Active
  <2>4. RawKept'
    BY <1>9, CardAssumption, StackAssumption DEF Close, Goto, ToolsIInv, Idle, Before,
       Held, WithFile, Behind, Transfer, Exits, Steps, RawKept, TransferExclusive,
       Progress, Commands, NextAfterClose, Commit, FileUsable, Active
  <2>5. Progress'
    BY <1>9, CardAssumption, StackAssumption DEF Close, Goto, ToolsIInv, Idle, Before,
       Held, WithFile, Behind, Transfer, Exits, Steps, Progress, ToolTypes,
       NextAfterClose, Commit, FileUsable, Active
  <2>6. Resources'
    BY <1>9, CardAssumption, StackAssumption DEF Close, Goto, ToolsIInv, Idle, Before,
       Held, WithFile, Behind, Transfer, Exits, Steps, Resources, Progress, ToolTypes,
       NextAfterClose, Commit, FileUsable, Active
  <2>7. Undisturbed'
    BY <1>0, <1>9, CardAssumption, StackAssumption DEF Close, Goto, ToolsIInv, Idle,
       Before, Held, WithFile, Behind, Transfer, Exits, Steps, Undisturbed, Progress,
       ToolTypes, SdMounted, Commands, Resources, Inv, StorageTypeOK, NextAfterClose,
       Commit, FileUsable, Active
  <2>8. Deletes'
    BY <1>0, <1>9, CardAssumption, StackAssumption DEF Close, Goto, ToolsIInv, Idle,
       Before, Held, WithFile, Behind, Transfer, Exits, Steps, Deletes, Progress,
       ToolTypes, Undisturbed, Commands, Resources, NextAfterClose, Commit, FileUsable,
       Active
  <2> QED BY <2>1, <2>2, <2>3, <2>4, <2>5, <2>6, <2>7, <2>8 DEF ToolsIInv
<1>10. CASE Prompt
  <2>1. ToolTypes'
    BY <1>10, CardAssumption, StackAssumption DEF Prompt, Goto, ToolsIInv, Idle, Before,
       Held, WithFile, Behind, Transfer, Exits, Steps, ToolTypes, Progress, Resources
  <2>2. Commands'
    BY <1>0, <1>10, CardAssumption, StackAssumption DEF Prompt, Goto, ToolsIInv, Idle,
       Before, Held, WithFile, Behind, Transfer, Exits, Steps, Commands
  <2>3. SdKnown'
    BY <1>10, CardAssumption, StackAssumption DEF Prompt, Goto, ToolsIInv, Idle, Before,
       Held, WithFile, Behind, Transfer, Exits, Steps, SdKnown, Commands
  <2>4. RawKept'
    BY <1>10, CardAssumption, StackAssumption DEF Prompt, Goto, ToolsIInv, Idle, Before,
       Held, WithFile, Behind, Transfer, Exits, Steps, RawKept, TransferExclusive,
       Progress, Commands
  <2>5. Progress'
    BY <1>10, CardAssumption, StackAssumption DEF Prompt, Goto, ToolsIInv, Idle, Before,
       Held, WithFile, Behind, Transfer, Exits, Steps, Progress, ToolTypes
  <2>6. Resources'
    BY <1>10, CardAssumption, StackAssumption DEF Prompt, Goto, ToolsIInv, Idle, Before,
       Held, WithFile, Behind, Transfer, Exits, Steps, Resources, Progress, ToolTypes
  <2>7. Undisturbed'
    BY <1>0, <1>10, CardAssumption, StackAssumption DEF Prompt, Goto, ToolsIInv, Idle,
       Before, Held, WithFile, Behind, Transfer, Exits, Steps, Undisturbed, Progress,
       ToolTypes, SdMounted, Commands, Resources, Inv, StorageTypeOK
  <2>8. Deletes'
    BY <1>10, CardAssumption, StackAssumption DEF Prompt, Goto, ToolsIInv, Idle, Before,
       Held, WithFile, Behind, Transfer, Exits, Steps, Deletes, Progress, ToolTypes,
       Undisturbed, Commands, Resources
  <2> QED BY <2>1, <2>2, <2>3, <2>4, <2>5, <2>6, <2>7, <2>8 DEF ToolsIInv
<1>11. CASE (\E t \in {"backup", "restore"} : StartTool(t))
  <2>1. ToolTypes'
    BY <1>11, ChunkAssumption, CardAssumption, StackAssumption DEF StartTool, Goto,
       ToolsIInv, Idle, Before, Held, WithFile, Behind, Transfer, Exits, Steps,
       ToolTypes, Progress, Resources
  <2>2. Commands'
    BY <1>0, <1>11, CardAssumption, StackAssumption DEF StartTool, Goto, ToolsIInv,
       Idle, Before, Held, WithFile, Behind, Transfer, Exits, Steps, Commands
  <2>3. SdKnown'
    BY <1>11, CardAssumption, StackAssumption DEF StartTool, Goto, ToolsIInv, Idle,
       Before, Held, WithFile, Behind, Transfer, Exits, Steps, SdKnown, Commands
  <2>4. RawKept'
    BY <1>11, CardAssumption, StackAssumption DEF StartTool, Goto, ToolsIInv, Idle,
       Before, Held, WithFile, Behind, Transfer, Exits, Steps, RawKept,
       TransferExclusive, Progress, Commands
  <2>5. Progress'
    BY <1>11, CardAssumption, StackAssumption DEF StartTool, Goto, ToolsIInv, Idle,
       Before, Held, WithFile, Behind, Transfer, Exits, Steps, Progress, ToolTypes
  <2>6. Resources'
    BY <1>11, CardAssumption, StackAssumption DEF StartTool, Goto, ToolsIInv, Idle,
       Before, Held, WithFile, Behind, Transfer, Exits, Steps, Resources, Progress,
       ToolTypes
  <2>7. Undisturbed'
    BY <1>0, <1>11, CardAssumption, StackAssumption DEF StartTool, Goto, ToolsIInv,
       Idle, Before, Held, WithFile, Behind, Transfer, Exits, Steps, Undisturbed,
       Progress, ToolTypes, SdMounted, Commands, Resources, Inv, StorageTypeOK
  <2>8. Deletes'
    BY <1>11, CardAssumption, StackAssumption DEF StartTool, Goto, ToolsIInv, Idle,
       Before, Held, WithFile, Behind, Transfer, Exits, Steps, Deletes, Progress,
       ToolTypes, Undisturbed, Commands, Resources
  <2> QED BY <2>1, <2>2, <2>3, <2>4, <2>5, <2>6, <2>7, <2>8 DEF ToolsIInv
<1>12. CASE Select
  <2>1. ToolTypes'
    BY <1>0, <1>12, CardAssumption, StackAssumption DEF Select, Goto, ToolsIInv, Idle,
         Before,
       Held, WithFile, Behind, Transfer, Exits, Steps, ToolTypes, Progress, Resources
  <2>2. Commands'
    BY <1>0, <1>12, CardAssumption, StackAssumption DEF Select, Goto, ToolsIInv, Idle,
       Before, Held, WithFile, Behind, Transfer, Exits, Steps, Commands
  <2>3. SdKnown'
    BY <1>0, <1>12, CardAssumption, StackAssumption DEF Select, Goto, ToolsIInv, Idle,
         Before,
       Held, WithFile, Behind, Transfer, Exits, Steps, SdKnown, Commands,
       Progress, ToolTypes
  <2>4. RawKept'
    BY <1>0, <1>12, CardAssumption, StackAssumption DEF Select, Goto, ToolsIInv, Idle,
         Before,
       Held, WithFile, Behind, Transfer, Exits, Steps, RawKept, TransferExclusive,
       Progress, Commands
  <2>5. Progress'
    BY <1>0, <1>12, CardAssumption, StackAssumption DEF Select, Goto, ToolsIInv, Idle,
         Before,
       Held, WithFile, Behind, Transfer, Exits, Steps, Progress, ToolTypes
  <2>6. Resources'
    BY <1>0, <1>12, CardAssumption, StackAssumption DEF Select, Goto, ToolsIInv, Idle,
         Before,
       Held, WithFile, Behind, Transfer, Exits, Steps, Resources, Progress, ToolTypes
  <2>7. Undisturbed'
    BY <1>0, <1>12, CardAssumption, StackAssumption DEF Select, Goto, ToolsIInv, Idle,
       Before, Held, WithFile, Behind, Transfer, Exits, Steps, Undisturbed, Progress,
       ToolTypes, SdMounted, Commands, Resources, Inv, StorageTypeOK
  <2>8. Deletes'
    BY <1>0, <1>12, CardAssumption, StackAssumption DEF Select, Goto, ToolsIInv, Idle,
         Before,
       Held, WithFile, Behind, Transfer, Exits, Steps, Deletes, Progress, ToolTypes,
       Undisturbed, Commands, Resources
  <2> QED BY <2>1, <2>2, <2>3, <2>4, <2>5, <2>6, <2>7, <2>8 DEF ToolsIInv
<1> QED BY <1>1, <1>2, <1>3, <1>4, <1>5, <1>6, <1>7, <1>8, <1>9, <1>10, <1>11, <1>12

\* Calls the server starts to work on.
LEMMA EnsureStep ==
  ASSUME Inv, SdMounted, ToolsIInv, EnsureSd \/ Browse \/ Finalize
  PROVE  ToolsIInv'
<1>1. UNCHANGED <<card, pulled, dev, raw, backup, got, ret>>
  BY DEF EnsureSd, Browse, CallMount, Finalize, CallFinalize, storageVars, server
<1>2. CASE EnsureSd
  <2>1. ToolTypes'
    BY <1>2, CardAssumption, StackAssumption DEF EnsureSd, CallMount, storageVars,
       server, Goto, ToolsIInv, Idle, Before, Held, WithFile, Behind, Transfer, Exits,
       Steps, ToolTypes, Progress, Resources
  <2>2. Commands'
    BY <1>2, CardAssumption, StackAssumption DEF EnsureSd, CallMount, storageVars,
       server, Goto, ToolsIInv, Idle, Before, Held, WithFile, Behind, Transfer, Exits,
       Steps, Commands
  <2>3. SdKnown'
    BY <1>2, CardAssumption, StackAssumption DEF EnsureSd, CallMount, storageVars,
       server, Goto, ToolsIInv, Idle, Before, Held, WithFile, Behind, Transfer, Exits,
       Steps, SdKnown, Commands
  <2>4. RawKept'
    BY <1>2, CardAssumption, StackAssumption DEF EnsureSd, CallMount, storageVars,
       server, Goto, ToolsIInv, Idle, Before, Held, WithFile, Behind, Transfer, Exits,
       Steps, RawKept, TransferExclusive, Progress, Commands
  <2>5. Progress'
    BY <1>2, CardAssumption, StackAssumption DEF EnsureSd, CallMount, storageVars,
       server, Goto, ToolsIInv, Idle, Before, Held, WithFile, Behind, Transfer, Exits,
       Steps, Progress, ToolTypes
  <2>6. Resources'
    BY <1>2, CardAssumption, StackAssumption DEF EnsureSd, CallMount, storageVars,
       server, Goto, ToolsIInv, Idle, Before, Held, WithFile, Behind, Transfer, Exits,
       Steps, Resources, Progress, ToolTypes
  <2>7. Undisturbed'
    BY <1>2, CardAssumption, StackAssumption DEF EnsureSd, CallMount, storageVars,
       server, Goto, ToolsIInv, Idle, Before, Held, WithFile, Behind, Transfer, Exits,
       Steps, Undisturbed, Progress, ToolTypes, SdMounted, Commands, Resources, Inv,
       StorageTypeOK
  <2>8. Deletes'
    BY <1>2, CardAssumption, StackAssumption DEF EnsureSd, CallMount, storageVars,
       server, Goto, ToolsIInv, Idle, Before, Held, WithFile, Behind, Transfer, Exits,
       Steps, Deletes, Progress, ToolTypes, Undisturbed, Commands, Resources
  <2> QED BY <2>1, <2>2, <2>3, <2>4, <2>5, <2>6, <2>7, <2>8 DEF ToolsIInv
<1>3. CASE Browse
  <2>1. ToolTypes'
    BY <1>3, CardAssumption, StackAssumption DEF Browse, CallMount, toolVars, Goto,
       ToolsIInv, Idle, Before, Held, WithFile, Behind, Transfer, Exits, Steps,
       ToolTypes, Progress, Resources
  <2>2. Commands'
    BY <1>3, CardAssumption, StackAssumption DEF Browse, CallMount, toolVars, Goto,
       ToolsIInv, Idle, Before, Held, WithFile, Behind, Transfer, Exits, Steps, Commands
  <2>3. SdKnown'
    BY <1>3, CardAssumption, StackAssumption DEF Browse, CallMount, toolVars, Goto,
       ToolsIInv, Idle, Before, Held, WithFile, Behind, Transfer, Exits, Steps, SdKnown,
       Commands
  <2>4. RawKept'
    BY <1>3, CardAssumption, StackAssumption DEF Browse, CallMount, toolVars, Goto,
       ToolsIInv, Idle, Before, Held, WithFile, Behind, Transfer, Exits, Steps, RawKept,
       TransferExclusive, Progress, Commands
  <2>5. Progress'
    BY <1>3, CardAssumption, StackAssumption DEF Browse, CallMount, toolVars, Goto,
       ToolsIInv, Idle, Before, Held, WithFile, Behind, Transfer, Exits, Steps,
       Progress, ToolTypes
  <2>6. Resources'
    BY <1>3, CardAssumption, StackAssumption DEF Browse, CallMount, toolVars, Goto,
       ToolsIInv, Idle, Before, Held, WithFile, Behind, Transfer, Exits, Steps,
       Resources, Progress, ToolTypes
  <2>7. Undisturbed'
    BY <1>3, CardAssumption, StackAssumption DEF Browse, CallMount, toolVars, Goto,
       ToolsIInv, Idle, Before, Held, WithFile, Behind, Transfer, Exits, Steps,
       Undisturbed, Progress, ToolTypes, SdMounted, Commands, Resources, Inv,
       StorageTypeOK
  <2>8. Deletes'
    BY <1>3, CardAssumption, StackAssumption DEF Browse, CallMount, toolVars, Goto,
       ToolsIInv, Idle, Before, Held, WithFile, Behind, Transfer, Exits, Steps, Deletes,
       Progress, ToolTypes, Undisturbed, Commands, Resources
  <2> QED BY <2>1, <2>2, <2>3, <2>4, <2>5, <2>6, <2>7, <2>8 DEF ToolsIInv
<1>4. CASE Finalize
  <2>1. ToolTypes'
    BY <1>4, CardAssumption, StackAssumption DEF Finalize, CallFinalize, Goto,
       ToolsIInv, Idle, Before, Held, WithFile, Behind, Transfer, Exits, Steps,
       ToolTypes, Progress, Resources
  <2>2. Commands'
    BY <1>4, CardAssumption, StackAssumption DEF Finalize, CallFinalize, Goto,
       ToolsIInv, Idle, Before, Held, WithFile, Behind, Transfer, Exits, Steps, Commands
  <2>3. SdKnown'
    BY <1>4, CardAssumption, StackAssumption DEF Finalize, CallFinalize, Goto,
       ToolsIInv, Idle, Before, Held, WithFile, Behind, Transfer, Exits, Steps, SdKnown,
       Commands
  <2>4. RawKept'
    BY <1>4, CardAssumption, StackAssumption DEF Finalize, CallFinalize, Goto,
       ToolsIInv, Idle, Before, Held, WithFile, Behind, Transfer, Exits, Steps, RawKept,
       TransferExclusive, Progress, Commands
  <2>5. Progress'
    BY <1>4, CardAssumption, StackAssumption DEF Finalize, CallFinalize, Goto,
       ToolsIInv, Idle, Before, Held, WithFile, Behind, Transfer, Exits, Steps,
       Progress, ToolTypes
  <2>6. Resources'
    BY <1>4, CardAssumption, StackAssumption DEF Finalize, CallFinalize, Goto,
       ToolsIInv, Idle, Before, Held, WithFile, Behind, Transfer, Exits, Steps,
       Resources, Progress, ToolTypes
  <2>7. Undisturbed'
    BY <1>4, CardAssumption, StackAssumption DEF Finalize, CallFinalize, Goto,
       ToolsIInv, Idle, Before, Held, WithFile, Behind, Transfer, Exits, Steps,
       Undisturbed, Progress, ToolTypes, SdMounted, Commands, Resources, Inv,
       StorageTypeOK
  <2>8. Deletes'
    BY <1>4, CardAssumption, StackAssumption DEF Finalize, CallFinalize, Goto,
       ToolsIInv, Idle, Before, Held, WithFile, Behind, Transfer, Exits, Steps, Deletes,
       Progress, ToolTypes, Undisturbed, Commands, Resources
  <2> QED BY <2>1, <2>2, <2>3, <2>4, <2>5, <2>6, <2>7, <2>8 DEF ToolsIInv
<1> QED BY <1>2, <1>3, <1>4

\* Reading the serial number leaves the raw NAND open.
LEMMA SerialStep ==
  ASSUME Inv, SdMounted, ToolsIInv, ReadSerial
  PROVE  ToolsIInv'
<1>0. dev.rnand /\ Good(dev) /\ card \in Slot /\ CtrNand \in NandDrives
  BY DriveAssumption DEF ReadSerial, ToolsIInv, RawKept, Progress, Inv, StorageTypeOK, Slot,
       CtrNand, NandDrives
<1>1. /\ dev'.mounted = dev.mounted /\ dev'.reg = dev.reg /\ dev'.rnand
      /\ UNCHANGED <<card, pulled, raw, backup>> /\ op' = "idle"
  <2>1. CASE CallAccess(CtrNand)
    <3>1. PICK n \in NandOutcomes : dev' = FindVolume(dev, card, n, CtrNand)
      BY <2>1 DEF CallAccess
    <3>2. dev'.mounted = dev.mounted /\ dev'.reg = dev.reg /\ dev'.rnand
      BY <1>0, <3>1, FindNandVolume
    <3> QED BY <2>1, <3>2 DEF CallAccess, Return
  <2>2. CASE Idle /\ UNCHANGED storageVars
    BY <1>0, <2>2 DEF storageVars, server, Idle
  <2> QED BY <2>1, <2>2 DEF ReadSerial
<1>2. ToolTypes'
  BY StackAssumption DEF ReadSerial, Goto, ToolsIInv, Idle, Before, Held, WithFile,
     Behind, Transfer, Exits, Steps, ToolTypes, Progress, Resources
<1>3. Commands'
  BY <1>1, StackAssumption DEF ReadSerial, Goto, ToolsIInv, Idle, Before, Held,
     WithFile, Behind, Transfer, Exits, Steps, Commands
<1>4. SdKnown'
  BY <1>1, StackAssumption DEF ReadSerial, Goto, ToolsIInv, Idle, Before, Held,
     WithFile, Behind, Transfer, Exits, Steps, SdKnown, Commands
<1>5. RawKept'
  BY <1>1, StackAssumption DEF ReadSerial, Goto, ToolsIInv, Idle, Before, Held,
     WithFile, Behind, Transfer, Exits, Steps, RawKept, TransferExclusive, Progress,
     Commands
<1>6. Progress'
  BY StackAssumption DEF ReadSerial, Goto, ToolsIInv, Idle, Before, Held, WithFile,
     Behind, Transfer, Exits, Steps, Progress, ToolTypes
<1>7. Resources'
  BY StackAssumption DEF ReadSerial, Goto, ToolsIInv, Idle, Before, Held, WithFile,
     Behind, Transfer, Exits, Steps, Resources, Progress, ToolTypes
<1>8. Undisturbed'
  BY <1>1, StackAssumption DEF ReadSerial, Goto, ToolsIInv, Idle, Before, Held,
     WithFile, Behind, Transfer, Exits, Steps, Undisturbed, Progress, ToolTypes,
     SdMounted, Commands, Resources, Inv, StorageTypeOK
<1>9. Deletes'
  BY StackAssumption DEF ReadSerial, Goto, ToolsIInv, Idle, Before, Held, WithFile,
     Behind, Transfer, Exits, Steps, Deletes, Progress, ToolTypes, Undisturbed,
     Commands, Resources
<1> QED BY <1>2, <1>3, <1>4, <1>5, <1>6, <1>7, <1>8, <1>9 DEF ToolsIInv

\* With the SD card mounted, a call with a path on it leaves the mounts alone.
LEMMA OpenStep ==
  ASSUME Inv, SdMounted, ToolsIInv, OpenFile \/ OpenFails
  PROVE  ToolsIInv'
<1>0. /\ Good(dev) /\ card \in Slot /\ pc = "open"
      /\ tool = "backup" => dev.rnand /\ (SDMC \in dev.reg => SDMC \in dev.mounted /\ dev.sd)
  <2>1. Good(dev) /\ card \in Slot /\ pc = "open"
    BY DEF OpenFile, OpenFails, Inv, StorageTypeOK, Slot
  <2>2. tool = "backup" => dev.rnand
    BY <2>1 DEF ToolsIInv, RawKept
  <2>3. tool = "backup" => (SDMC \in dev.reg => SDMC \in dev.mounted)
    BY <2>1 DEF ToolsIInv, SdKnown
  <2>4. SDMC \in dev.mounted => dev.sd
    BY DEF SdMounted
  <2> QED BY <2>1, <2>2, <2>3, <2>4
<1>1. /\ UNCHANGED <<card, pulled, raw, backup>> /\ op' = "idle"
      /\ tool = "backup" =>
           /\ dev'.mounted = dev.mounted /\ dev'.reg = dev.reg /\ dev'.rnand
           /\ AccessSd => card \in FatCards /\ SDMC \in dev.mounted
  <2>1. CASE CallAccess(SDMC)
    <3>1. PICK n \in NandOutcomes : dev' = FindVolume(dev, card, n, SDMC)
      BY <2>1 DEF CallAccess
    <3>2. SDMC \in dev.reg
      BY <2>1 DEF CallAccess
    <3>3. tool = "backup" => dev'.mounted = dev.mounted /\ dev'.reg = dev.reg /\ dev'.rnand
      BY <1>0, <3>1, <3>2, FindSdVolume
    <3>4. AccessSd => dev'.vol[SDMC] # Unread
      BY DEF AccessSd, CallAccess, Return
    <3>5. tool = "backup" /\ dev'.vol[SDMC] # Unread => card \in FatCards
      BY <1>0, <3>1, <3>2, FindSdVolume DEF SdMounted
    <3> QED BY <1>0, <2>1, <3>2, <3>3, <3>4, <3>5 DEF CallAccess, Return
  <2>2. CASE Idle /\ SDMC \notin dev.reg /\ UNCHANGED storageVars
    BY <1>0, <2>2 DEF storageVars, server, Idle, AccessSd, CallAccess
  <2> QED BY <2>1, <2>2 DEF OpenFile, OpenFails, AccessSd, NoAccessSd
<1>4. tool \in {"backup", "restore"} /\ tool' = tool /\ images \subseteq FatCards
  BY DEF OpenFile, OpenFails, ToolsIInv, ToolTypes
<1>2. CASE OpenFile
  <2>1. ToolTypes'
    BY <1>1, <1>4, <1>2, ChunkAssumption, CardAssumption, StackAssumption DEF OpenFile,
         Goto,
       ToolsIInv, Idle, Before, Held, WithFile, Behind, Transfer, Exits, Steps,
       ToolTypes, Progress, Resources
  <2>2. Commands'
    BY <1>1, <1>4, <1>2, ChunkAssumption, CardAssumption, StackAssumption DEF OpenFile,
         Goto,
       ToolsIInv, Idle, Before, Held, WithFile, Behind, Transfer, Exits, Steps, Commands
  <2>3. SdKnown'
    BY <1>4, <1>2, ChunkAssumption, CardAssumption, StackAssumption DEF OpenFile, Goto,
       ToolsIInv, Idle, Before, Held, WithFile, Behind, Transfer, Exits, Steps, SdKnown,
       Commands
  <2>4. RawKept'
    BY <1>1, <1>4, <1>2, ChunkAssumption, CardAssumption, StackAssumption DEF OpenFile,
         Goto,
       ToolsIInv, Idle, Before, Held, WithFile, Behind, Transfer, Exits, Steps, RawKept,
       TransferExclusive, Progress, Commands
  <2>5. Progress'
    BY <1>4, <1>2, ChunkAssumption, CardAssumption, StackAssumption DEF OpenFile, Goto,
       ToolsIInv, Idle, Before, Held, WithFile, Behind, Transfer, Exits, Steps,
       Progress, ToolTypes
  <2>6. Resources'
    BY <1>1, <1>4, <1>2, ChunkAssumption, CardAssumption, StackAssumption DEF OpenFile,
         Goto,
       ToolsIInv, Idle, Before, Held, WithFile, Behind, Transfer, Exits, Steps,
       Resources, Progress, ToolTypes
  <2>7. Undisturbed'
    BY <1>1, <1>4, <1>2, ChunkAssumption, CardAssumption, StackAssumption DEF OpenFile,
         Goto,
       ToolsIInv, Idle, Before, Held, WithFile, Behind, Transfer, Exits, Steps,
       Undisturbed, Progress, ToolTypes, SdMounted, Commands, Resources, Inv,
       StorageTypeOK
  <2>8. Deletes'
    BY <1>4, <1>2, ChunkAssumption, CardAssumption, StackAssumption DEF OpenFile, Goto,
       ToolsIInv, Idle, Before, Held, WithFile, Behind, Transfer, Exits, Steps, Deletes,
       Progress, ToolTypes, Undisturbed, Commands, Resources
  <2> QED BY <2>1, <2>2, <2>3, <2>4, <2>5, <2>6, <2>7, <2>8 DEF ToolsIInv
<1>3. CASE OpenFails
  <2>1. ToolTypes'
    BY <1>4, <1>3, ChunkAssumption, CardAssumption, StackAssumption DEF OpenFails, Goto,
       ToolsIInv, Idle, Before, Held, WithFile, Behind, Transfer, Exits, Steps,
       ToolTypes, Progress, Resources
  <2>2. Commands'
    BY <1>1, <1>4, <1>3, ChunkAssumption, CardAssumption, StackAssumption DEF OpenFails,
         Goto,
       ToolsIInv, Idle, Before, Held, WithFile, Behind, Transfer, Exits, Steps, Commands
  <2>3. SdKnown'
    BY <1>4, <1>3, ChunkAssumption, CardAssumption, StackAssumption DEF OpenFails, Goto,
       ToolsIInv, Idle, Before, Held, WithFile, Behind, Transfer, Exits, Steps, SdKnown,
       Commands
  <2>4. RawKept'
    BY <1>4, <1>3, ChunkAssumption, CardAssumption, StackAssumption DEF OpenFails, Goto,
       ToolsIInv, Idle, Before, Held, WithFile, Behind, Transfer, Exits, Steps, RawKept,
       TransferExclusive, Progress, Commands
  <2>5. Progress'
    BY <1>4, <1>3, ChunkAssumption, CardAssumption, StackAssumption DEF OpenFails, Goto,
       ToolsIInv, Idle, Before, Held, WithFile, Behind, Transfer, Exits, Steps,
       Progress, ToolTypes
  <2>6. Resources'
    BY <1>4, <1>3, ChunkAssumption, CardAssumption, StackAssumption DEF OpenFails, Goto,
       ToolsIInv, Idle, Before, Held, WithFile, Behind, Transfer, Exits, Steps,
       Resources, Progress, ToolTypes
  <2>7. Undisturbed'
    BY <1>1, <1>4, <1>3, ChunkAssumption, CardAssumption, StackAssumption DEF OpenFails,
         Goto,
       ToolsIInv, Idle, Before, Held, WithFile, Behind, Transfer, Exits, Steps,
       Undisturbed, Progress, ToolTypes, SdMounted, Commands, Resources, Inv,
       StorageTypeOK
  <2>8. Deletes'
    BY <1>4, <1>3, ChunkAssumption, CardAssumption, StackAssumption DEF OpenFails, Goto,
       ToolsIInv, Idle, Before, Held, WithFile, Behind, Transfer, Exits, Steps, Deletes,
       Progress, ToolTypes, Undisturbed, Commands, Resources
  <2> QED BY <2>1, <2>2, <2>3, <2>4, <2>5, <2>6, <2>7, <2>8 DEF ToolsIInv
<1> QED BY <1>2, <1>3

\* fPrepareRawAccess unmounts the NAND drives and nothing else.
LEMMA PrepareStep ==
  ASSUME Inv, SdMounted, ToolsIInv, Prepare \/ PrepareFails
  PROVE  ToolsIInv'
<1>0. Good(dev) /\ dev \in Device
  BY DEF Inv, Good
<1>1. CASE Prepare
  <2> DEFINE up == dev.mounted \cap NandDrives
  <2>1. up \in SUBSET Drives /\ SDMC \notin up
    BY <1>0 DEF Device, NandDrives, SDMC
  <2>2. dev' = Unmount(dev, up)
    BY <1>1 DEF Prepare, CallPrepare
  <2>3. dev'.mounted = dev.mounted \ up
    BY <1>0, <2>1, <2>2, UnmountGood
  <2>4. dev'.rnand = dev.rnand
    BY <1>0, <2>1, <2>2, UnmountGood
  <2>5. /\ dev'.mounted \cap NandDrives = {} /\ (SDMC \in dev.mounted => SDMC \in dev'.mounted)
        /\ UNCHANGED <<card, pulled>> /\ op' = "idle" /\ raw' /\ ~raw
    BY <1>1, <2>1, <2>3 DEF Prepare, CallPrepare, Return
  <2>6. ToolTypes'
    BY <1>1, ChunkAssumption, CardAssumption, StackAssumption DEF Prepare, Goto,
       ToolsIInv, Idle, Before, Held, WithFile, Behind, Transfer, Exits, Steps,
       ToolTypes, Progress, Resources
  <2>7. Commands'
    BY <1>1, <2>5, ChunkAssumption, CardAssumption, StackAssumption DEF Prepare, Goto,
       ToolsIInv, Idle, Before, Held, WithFile, Behind, Transfer, Exits, Steps, Commands
  <2>8. SdKnown'
    BY <1>1, ChunkAssumption, CardAssumption, StackAssumption DEF Prepare, Goto,
       ToolsIInv, Idle, Before, Held, WithFile, Behind, Transfer, Exits, Steps, SdKnown,
       Commands
  <2>9. RawKept'
    BY <1>1, <2>4, <2>5, ChunkAssumption, CardAssumption, StackAssumption DEF Prepare,
       Goto, ToolsIInv, Idle, Before, Held, WithFile, Behind, Transfer, Exits, Steps,
       RawKept, TransferExclusive, Progress, Commands
  <2>10. Progress'
    BY <1>1, ChunkAssumption, CardAssumption, StackAssumption DEF Prepare, Goto,
       ToolsIInv, Idle, Before, Held, WithFile, Behind, Transfer, Exits, Steps,
       Progress, ToolTypes
  <2>11. Resources'
    BY <1>1, ChunkAssumption, CardAssumption, StackAssumption DEF Prepare, Goto,
       ToolsIInv, Idle, Before, Held, WithFile, Behind, Transfer, Exits, Steps,
       Resources, Progress, ToolTypes
  <2>12. Undisturbed'
    BY <1>1, <2>5, ChunkAssumption, CardAssumption, StackAssumption DEF Prepare, Goto,
       ToolsIInv, Idle, Before, Held, WithFile, Behind, Transfer, Exits, Steps,
       Undisturbed, Progress, ToolTypes, SdMounted, Commands, Resources, Inv,
       StorageTypeOK
  <2>13. Deletes'
    BY <1>1, ChunkAssumption, CardAssumption, StackAssumption DEF Prepare, Goto,
       ToolsIInv, Idle, Before, Held, WithFile, Behind, Transfer, Exits, Steps, Deletes,
       Progress, ToolTypes, Undisturbed, Commands, Resources
  <2> QED BY <2>6, <2>7, <2>8, <2>9, <2>10, <2>11, <2>12, <2>13 DEF ToolsIInv
<1>2. CASE PrepareFails
  <2>1. UNCHANGED <<card, pulled, dev, raw, backup>> /\ raw /\ op' = "idle"
    BY <1>2 DEF PrepareFails, PrepareRefused, Return
  <2>2. ToolTypes'
    BY <1>2, CardAssumption, StackAssumption DEF PrepareFails, Goto, ToolsIInv, Idle,
       Before, Held, WithFile, Behind, Transfer, Exits, Steps, ToolTypes, Progress,
       Resources
  <2>3. Commands'
    BY <1>2, <2>1, CardAssumption, StackAssumption DEF PrepareFails, Goto, ToolsIInv,
       Idle, Before, Held, WithFile, Behind, Transfer, Exits, Steps, Commands
  <2>4. SdKnown'
    BY <1>2, CardAssumption, StackAssumption DEF PrepareFails, Goto, ToolsIInv, Idle,
       Before, Held, WithFile, Behind, Transfer, Exits, Steps, SdKnown, Commands
  <2>5. RawKept'
    BY <1>2, CardAssumption, StackAssumption DEF PrepareFails, Goto, ToolsIInv, Idle,
       Before, Held, WithFile, Behind, Transfer, Exits, Steps, RawKept,
       TransferExclusive, Progress, Commands
  <2>6. Progress'
    BY <1>2, CardAssumption, StackAssumption DEF PrepareFails, Goto, ToolsIInv, Idle,
       Before, Held, WithFile, Behind, Transfer, Exits, Steps, Progress, ToolTypes
  <2>7. Resources'
    BY <1>2, CardAssumption, StackAssumption DEF PrepareFails, Goto, ToolsIInv, Idle,
       Before, Held, WithFile, Behind, Transfer, Exits, Steps, Resources, Progress,
       ToolTypes
  <2>8. Undisturbed'
    BY <1>2, <2>1, CardAssumption, StackAssumption DEF PrepareFails, Goto, ToolsIInv,
       Idle, Before, Held, WithFile, Behind, Transfer, Exits, Steps, Undisturbed,
       Progress, ToolTypes, SdMounted, Commands, Resources, Inv, StorageTypeOK
  <2>9. Deletes'
    BY <1>2, <2>1, CardAssumption, StackAssumption DEF PrepareFails, Goto, ToolsIInv,
       Idle, Before, Held, WithFile, Behind, Transfer, Exits, Steps, Deletes, Progress,
       ToolTypes, Undisturbed, Commands, Resources
  <2> QED BY <2>2, <2>3, <2>4, <2>5, <2>6, <2>7, <2>8, <2>9 DEF ToolsIInv
<1> QED BY <1>1, <1>2

\* fUnlink cannot fail on the card that holds the incomplete backup.
LEMMA UnlinkStep ==
  ASSUME Inv, SdMounted, ToolsIInv, Unlink
  PROVE  ToolsIInv'
<1>0. Good(dev) /\ card \in Slot
  BY DEF Inv, StorageTypeOK, Slot
<1>1. /\ SDMC \in dev'.mounted <=> SDMC \in dev.mounted
      /\ UNCHANGED <<card, pulled, raw, backup>> /\ op' = "idle"
      /\ SDMC \in dev.mounted /\ card \in FatCards => ~NoAccessSd
  <2>1. CASE CallAccess(SDMC)
    <3>1. PICK n \in NandOutcomes : dev' = FindVolume(dev, card, n, SDMC)
      BY <2>1 DEF CallAccess
    <3>2. SDMC \in dev'.mounted <=> SDMC \in dev.mounted
      BY <1>0, <3>1, FindVolumeGood DEF Drives
    <3>3. SDMC \in dev.mounted => SDMC \in dev.reg /\ dev.sd
      BY <1>0 DEF SdMounted, Good
    <3>4. SDMC \in dev.mounted /\ card \in FatCards => dev'.vol[SDMC] # Unread
      BY <1>0, <3>1, <3>3, FindSdVolume
    <3>5. SDMC \in dev.mounted /\ NoAccessSd => dev'.vol[SDMC] = Unread
      BY <3>3 DEF NoAccessSd, CallAccess, Return
    <3> QED BY <2>1, <3>2, <3>4, <3>5 DEF CallAccess, Return
  <2>2. CASE Idle /\ SDMC \notin dev.reg /\ UNCHANGED storageVars
    BY <1>0, <2>2 DEF storageVars, server, Idle, Good
  <2> QED BY <2>1, <2>2 DEF Unlink, AccessSd, NoAccessSd
<1>2. ToolTypes'
  BY StackAssumption DEF Unlink, Goto, ToolsIInv, Idle, Before, Held, WithFile, Behind,
     Transfer, Exits, Steps, ToolTypes, Progress, Resources
<1>3. Commands'
  BY <1>1, StackAssumption DEF Unlink, Goto, ToolsIInv, Idle, Before, Held, WithFile,
     Behind, Transfer, Exits, Steps, Commands
<1>4. SdKnown'
  BY StackAssumption DEF Unlink, Goto, ToolsIInv, Idle, Before, Held, WithFile, Behind,
     Transfer, Exits, Steps, SdKnown, Commands
<1>5. RawKept'
  BY StackAssumption DEF Unlink, Goto, ToolsIInv, Idle, Before, Held, WithFile, Behind,
     Transfer, Exits, Steps, RawKept, TransferExclusive, Progress, Commands
<1>6. Progress'
  BY StackAssumption DEF Unlink, Goto, ToolsIInv, Idle, Before, Held, WithFile, Behind,
     Transfer, Exits, Steps, Progress, ToolTypes
<1>7. Resources'
  BY StackAssumption DEF Unlink, Goto, ToolsIInv, Idle, Before, Held, WithFile, Behind,
     Transfer, Exits, Steps, Resources, Progress, ToolTypes
<1>8. Undisturbed'
  BY <1>1, StackAssumption DEF Unlink, Goto, ToolsIInv, Idle, Before, Held, WithFile,
     Behind, Transfer, Exits, Steps, Undisturbed, Progress, ToolTypes, SdMounted,
     Commands, Resources, Inv, StorageTypeOK
<1>9. Deletes'
  BY StackAssumption DEF Unlink, Goto, ToolsIInv, Idle, Before, Held, WithFile, Behind,
     Transfer, Exits, Steps, Deletes, Progress, ToolTypes, Undisturbed, Commands,
     Resources
<1> QED BY <1>2, <1>3, <1>4, <1>5, <1>6, <1>7, <1>8, <1>9 DEF ToolsIInv

\* The server works only while the tool waits for it, or in the menu.
LEMMA ServerStepKeeps ==
  ASSUME ~PullDuringMount, Inv, SdMounted, ToolsIInv, ServerSteps
  PROVE  ToolsIInv'
<1>0. Good(dev) /\ card \in Slot /\ SDMC \in Drives /\ dev \in Device
  BY DEF Inv, StorageTypeOK, Slot, Drives, Good
<1>1. UNCHANGED <<card, pulled, backup>> /\ UNCHANGED toolVars
  BY DEF ServerSteps, ServerStep, MountOk, MountFails, StoreMounted, SkipDrive, FinalizeDone
<1>2. op \in {"mount", "finalize"}
  BY DEF ServerSteps, ServerStep, MountOk, MountFails, StoreMounted, SkipDrive,
       FinalizeDone,
         Mounting, Inv, Mount, StorageTypeOK
<1>3. /\ SDMC \in dev.mounted => SDMC \in dev'.mounted
      /\ raw' = raw \/ (op = "finalize" /\ op' = "idle" /\ ~raw')
      /\ op' \in {op, "idle"}
      /\ op = "mount" /\ op' = "mount" => drive' = drive
      /\ op = "mount" /\ op' = "idle" /\ ret' = "ok" => drive \in dev'.mounted
      /\ op = "finalize" /\ op' = "idle" /\ ret' = "ok" => ~raw'
  <2>1. CASE MountOk \/ MountFails
    <3>1. PICK n \in NandOutcomes : dev' = MountVolume(dev, card, n, drive)
      BY <2>1 DEF MountOk, MountFails
    <3>2. drive \in Drives
      BY <2>1 DEF MountOk, MountFails, Wanted
    <3>3. SDMC \in dev.mounted <=> SDMC \in dev'.mounted
      BY <1>0, <3>1, <3>2, MountVolumeGood
    <3> QED BY <1>2, <2>1, <3>3 DEF MountOk, MountFails, Return
  <2>2. CASE StoreMounted
    <3>1. dev'.mounted = dev.mounted \cup {drive}
      BY <2>2 DEF StoreMounted, Device
    <3> QED BY <1>2, <2>2, <3>1 DEF StoreMounted, Return
  <2>3. CASE SkipDrive
    BY <2>3 DEF SkipDrive
  <2>4. CASE FinalizeDone
    BY <2>4 DEF FinalizeDone, Return
  <2> QED BY <2>1, <2>2, <2>3, <2>4 DEF ServerSteps, ServerStep
<1>4. ToolTypes'
  BY <1>1, ChunkAssumption, CardAssumption, StackAssumption DEF toolVars, Goto,
     ToolsIInv, Idle, Before, Held, WithFile, Behind, Transfer, Exits, Steps, ToolTypes,
     Progress, Resources
<1>5. Commands'
  BY <1>1, <1>2, <1>3, ChunkAssumption, CardAssumption, StackAssumption DEF toolVars,
     Goto, ToolsIInv, Idle, Before, Held, WithFile, Behind, Transfer, Exits, Steps,
     Commands
<1>6. SdKnown'
  BY <1>1, <1>2, <1>3, ChunkAssumption, CardAssumption, StackAssumption DEF toolVars,
     Goto, ToolsIInv, Idle, Before, Held, WithFile, Behind, Transfer, Exits, Steps,
     SdKnown, Commands
<1>7. RawKept'
  BY <1>1, <1>2, ChunkAssumption, CardAssumption, StackAssumption DEF toolVars, Goto,
     ToolsIInv, Idle, Before, Held, WithFile, Behind, Transfer, Exits, Steps, RawKept,
     TransferExclusive, Progress, Commands
<1>8. Progress'
  BY <1>1, ChunkAssumption, CardAssumption, StackAssumption DEF toolVars, Goto,
     ToolsIInv, Idle, Before, Held, WithFile, Behind, Transfer, Exits, Steps, Progress,
     ToolTypes
<1>9. Resources'
  BY <1>1, ChunkAssumption, CardAssumption, StackAssumption DEF toolVars, Goto,
     ToolsIInv, Idle, Before, Held, WithFile, Behind, Transfer, Exits, Steps, Resources,
     Progress, ToolTypes
<1>10. Undisturbed'
  BY <1>1, <1>3, ChunkAssumption, CardAssumption, StackAssumption DEF toolVars, Goto,
     ToolsIInv, Idle, Before, Held, WithFile, Behind, Transfer, Exits, Steps,
     Undisturbed, Progress, ToolTypes, SdMounted, Commands, Resources, Inv,
     StorageTypeOK
<1>11. Deletes'
  BY <1>1, <1>3, ChunkAssumption, CardAssumption, StackAssumption DEF toolVars, Goto,
     ToolsIInv, Idle, Before, Held, WithFile, Behind, Transfer, Exits, Steps, Deletes,
     Progress, ToolTypes, Undisturbed, Commands, Resources
<1> QED BY <1>4, <1>5, <1>6, <1>7, <1>8, <1>9, <1>10, <1>11 DEF ToolsIInv

\* A card that is pulled disturbs the tool; none can be inserted, and no
\* interrupt is served, while the card the tool works on is in the slot.
LEMMA CardStep ==
  ASSUME Inv, SdMounted, ToolsIInv, PullCard \/ InsertCard \/ Interrupt
  PROVE  ToolsIInv'
<1>0. Good(dev) /\ SDMC \in Drives /\ dev \in Device
  BY DEF Inv, Drives, Good
<1>1. CASE PullCard
  <2>1. UNCHANGED <<dev, raw, backup, op, drive, got, ret>> /\ card' = NoCard
    BY <1>1 DEF PullCard, CardRemove, server
  <2>2. ToolTypes'
    BY <1>1, CardAssumption, StackAssumption DEF PullCard, Goto, ToolsIInv, Idle,
       Before, Held, WithFile, Behind, Transfer, Exits, Steps, ToolTypes, Progress,
       Resources
  <2>3. Commands'
    BY <1>1, <2>1, CardAssumption, StackAssumption DEF PullCard, Goto, ToolsIInv, Idle,
       Before, Held, WithFile, Behind, Transfer, Exits, Steps, Commands
  <2>4. SdKnown'
    BY <1>1, <2>1, CardAssumption, StackAssumption DEF PullCard, Goto, ToolsIInv, Idle,
       Before, Held, WithFile, Behind, Transfer, Exits, Steps, SdKnown, Commands
  <2>5. RawKept'
    BY <1>1, <2>1, CardAssumption, StackAssumption DEF PullCard, Goto, ToolsIInv, Idle,
       Before, Held, WithFile, Behind, Transfer, Exits, Steps, RawKept,
       TransferExclusive, Progress, Commands
  <2>6. Progress'
    BY <1>1, CardAssumption, StackAssumption DEF PullCard, Goto, ToolsIInv, Idle,
       Before, Held, WithFile, Behind, Transfer, Exits, Steps, Progress, ToolTypes
  <2>7. Resources'
    BY <1>1, CardAssumption, StackAssumption DEF PullCard, Goto, ToolsIInv, Idle,
       Before, Held, WithFile, Behind, Transfer, Exits, Steps, Resources, Progress,
       ToolTypes
  <2>8. Undisturbed'
    BY <1>1, <2>1, ChunkAssumption, CardAssumption, StackAssumption DEF PullCard, Goto,
       ToolsIInv, Idle, Before, Held, WithFile, Behind, Transfer, Exits, Steps,
       Undisturbed, Progress, ToolTypes, SdMounted, Commands, Resources, Inv,
       StorageTypeOK
  <2>9. Deletes'
    BY <1>1, <2>1, CardAssumption, StackAssumption DEF PullCard, Goto, ToolsIInv, Idle,
       Before, Held, WithFile, Behind, Transfer, Exits, Steps, Deletes, Progress,
       ToolTypes, Undisturbed, Commands, Resources
  <2> QED BY <2>2, <2>3, <2>4, <2>5, <2>6, <2>7, <2>8, <2>9 DEF ToolsIInv
<1>2. CASE InsertCard
  <2>1. UNCHANGED <<dev, raw, backup, op, drive, got, ret>> /\ card = NoCard /\ UNCHANGED toolVars
    BY <1>2 DEF InsertCard, CardInsert, server
  <2>2. ToolTypes'
    BY <2>1, StackAssumption DEF toolVars, Goto, ToolsIInv, Idle, Before, Held,
       WithFile, Behind, Transfer, Exits, Steps, ToolTypes, Progress, Resources
  <2>3. Commands'
    BY <2>1, StackAssumption DEF toolVars, Goto, ToolsIInv, Idle, Before, Held,
       WithFile, Behind, Transfer, Exits, Steps, Commands
  <2>4. SdKnown'
    BY <2>1, StackAssumption DEF toolVars, Goto, ToolsIInv, Idle, Before, Held,
       WithFile, Behind, Transfer, Exits, Steps, SdKnown, Commands
  <2>5. RawKept'
    BY <2>1, StackAssumption DEF toolVars, Goto, ToolsIInv, Idle, Before, Held,
       WithFile, Behind, Transfer, Exits, Steps, RawKept, TransferExclusive, Progress,
       Commands
  <2>6. Progress'
    BY <2>1, StackAssumption DEF toolVars, Goto, ToolsIInv, Idle, Before, Held,
       WithFile, Behind, Transfer, Exits, Steps, Progress, ToolTypes
  <2>7. Resources'
    BY <2>1, StackAssumption DEF toolVars, Goto, ToolsIInv, Idle, Before, Held,
       WithFile, Behind, Transfer, Exits, Steps, Resources, Progress, ToolTypes
  <2>8. Undisturbed'
    BY <2>1, CardAssumption, StackAssumption DEF toolVars, Goto, ToolsIInv, Idle,
       Before, Held, WithFile, Behind, Transfer, Exits, Steps, Undisturbed, Progress,
       ToolTypes, SdMounted, Commands, Resources, Inv, StorageTypeOK
  <2>9. Deletes'
    BY <2>1, StackAssumption DEF toolVars, Goto, ToolsIInv, Idle, Before, Held,
       WithFile, Behind, Transfer, Exits, Steps, Deletes, Progress, ToolTypes,
       Undisturbed, Commands, Resources
  <2> QED BY <2>2, <2>3, <2>4, <2>5, <2>6, <2>7, <2>8, <2>9 DEF ToolsIInv
<1>3. CASE Interrupt
  <2>1. /\ dev'.mounted = dev.mounted \ {SDMC} /\ dev'.rnand = dev.rnand
        /\ dev'.reg = (IF SDMC \in dev.mounted THEN dev.reg \ {SDMC} ELSE dev.reg)
    BY <1>0, <1>3, HandlerGood DEF Interrupt
  <2>5. /\ dev'.rnand = dev.rnand /\ dev'.mounted \subseteq dev.mounted
        /\ SDMC \in dev'.reg => SDMC \in dev.reg /\ SDMC \notin dev.mounted
    BY <2>1
  <2>6. UNCHANGED <<card, raw, backup, op, drive, got, ret>> /\ pulled
    BY <1>3 DEF Interrupt, SdioHandler, server
  <2>7. ToolTypes'
    BY <1>3, ChunkAssumption, CardAssumption, StackAssumption DEF Interrupt, Goto,
       ToolsIInv, Idle, Before, Held, WithFile, Behind, Transfer, Exits, Steps,
       ToolTypes, Progress, Resources
  <2>8. Commands'
    BY <1>3, <2>6, ChunkAssumption, CardAssumption, StackAssumption DEF Interrupt, Goto,
       ToolsIInv, Idle, Before, Held, WithFile, Behind, Transfer, Exits, Steps, Commands
  <2>9. SdKnown'
    BY <1>3, <2>5, <2>6, ChunkAssumption, CardAssumption, StackAssumption DEF Interrupt,
       Goto, ToolsIInv, Idle, Before, Held, WithFile, Behind, Transfer, Exits, Steps,
       SdKnown, Commands
  <2>10. RawKept'
    BY <1>3, <2>5, <2>6, ChunkAssumption, CardAssumption, StackAssumption DEF Interrupt,
       Goto, ToolsIInv, Idle, Before, Held, WithFile, Behind, Transfer, Exits, Steps,
       RawKept, TransferExclusive, Progress, Commands
  <2>11. Progress'
    BY <1>3, ChunkAssumption, CardAssumption, StackAssumption DEF Interrupt, Goto,
       ToolsIInv, Idle, Before, Held, WithFile, Behind, Transfer, Exits, Steps,
       Progress, ToolTypes
  <2>12. Resources'
    BY <1>3, ChunkAssumption, CardAssumption, StackAssumption DEF Interrupt, Goto,
       ToolsIInv, Idle, Before, Held, WithFile, Behind, Transfer, Exits, Steps,
       Resources, Progress, ToolTypes
  <2>13. Undisturbed'
    BY <1>3, <2>6, ChunkAssumption, CardAssumption, StackAssumption DEF Interrupt, Goto,
       ToolsIInv, Idle, Before, Held, WithFile, Behind, Transfer, Exits, Steps,
       Undisturbed, Progress, ToolTypes, SdMounted, Commands, Resources, Inv,
       StorageTypeOK
  <2>14. Deletes'
    BY <1>3, <2>6, ChunkAssumption, CardAssumption, StackAssumption DEF Interrupt, Goto,
       ToolsIInv, Idle, Before, Held, WithFile, Behind, Transfer, Exits, Steps, Deletes,
       Progress, ToolTypes, Undisturbed, Commands, Resources
  <2> QED BY <2>7, <2>8, <2>9, <2>10, <2>11, <2>12, <2>13, <2>14 DEF ToolsIInv
<1> QED BY <1>1, <1>2, <1>3

-----------------------------------------------------------------------------
(* The theorems.                                                           *)

\* The invariant of the tools.
LEMMA ToolsInit == Init => SdMounted /\ ToolsIInv
<1> SUFFICES ASSUME Init PROVE SdMounted /\ ToolsIInv
  OBVIOUS
<1>1. /\ ~pulled /\ ~got /\ dev.mounted = {} /\ dev.reg = {} /\ ~raw /\ op = "idle"
      /\ pc = "menu" /\ tool = "backup" /\ file = "closed" /\ ~buf /\ pos = 0
      /\ outcome = "fail" /\ home = NoCard /\ images = FatCards /\ partial = {} /\ ~upset
  BY DEF Init, StorageInit
<1>2. buf \in BOOLEAN /\ upset \in BOOLEAN
  BY Zenon DEF Init
<1>3. SdMounted
  BY <1>1 DEF SdMounted
<1>4. ToolTypes
  BY <1>1, <1>2, ChunkAssumption DEF ToolTypes, Steps
<1>5. /\ Commands /\ SdKnown /\ RawKept /\ Progress /\ Resources /\ Undisturbed /\ Deletes
  BY <1>1 DEF Commands, SdKnown, RawKept, TransferExclusive, Progress, Resources,
     Undisturbed, Deletes, Before, Held, WithFile, Behind, Transfer
<1> QED
  BY <1>3, <1>4, <1>5 DEF ToolsIInv

LEMMA ToolsStep ==
  ASSUME ~PullDuringMount, Inv, SdMounted, ToolsIInv, [Next]_vars
  PROVE  SdMounted' /\ ToolsIInv'
<1>1. SdMounted'
  BY SdMountedStep, StepOfStorage
<1>2. CASE ToolStep \/ Select \/ Prompt \/ \E t \in {"backup", "restore"} : StartTool(t)
  <2>1. ASSUME \/ EnsuredSd \/ NandSize \/ Reserve \/ Buffer \/ ReadChunk \/ WriteChunk \/ Poll
               \/ Finalized \/ Close \/ Select \/ Prompt \/ \E t \in {"backup", "restore"} : StartTool(t)
        PROVE  ToolsIInv'
    <3>1. UNCHANGED storageVars
      BY <2>1 DEF EnsuredSd, NandSize, Reserve, Buffer, ReadChunk, WriteChunk, Poll,
                  Finalized, Close, Select, Prompt, StartTool
    <3> QED BY <2>1, <3>1, QuietStep
  <2> QED
    BY <1>1, <1>2, <2>1, EnsureStep, SerialStep, OpenStep, PrepareStep,
         UnlinkStep DEF ToolStep
<1>3. CASE ServerSteps
  BY <1>1, <1>3, ServerStepKeeps
<1>4. CASE Browse \/ PullCard \/ InsertCard \/ Interrupt
  BY <1>1, <1>4, EnsureStep, CardStep
<1>5. CASE UNCHANGED vars
  BY <1>1, <1>5 DEF vars, toolVars, storageVars, server, ToolsIInv, ToolTypes, Commands,
       SdKnown,
     RawKept, TransferExclusive, Progress, Resources, Undisturbed, Deletes
<1> QED
  BY <1>2, <1>3, <1>4, <1>5 DEF Next

\* Together with the one of the server it holds always.
LEMMA ToolsAlways ==
  ASSUME ~PullDuringMount
  PROVE  Spec => [](Inv /\ SdMounted /\ ToolsIInv)
<1>1. Inv /\ SdMounted /\ ToolsIInv /\ [Next]_vars => SdMounted' /\ ToolsIInv'
  BY ToolsStep
<1> QED
  BY <1>1, ToolsInit, ToolsKeepInv, PTL DEF Spec

\* From fPrepareRawAccess to fFinalizeRawAccess the tool has the NAND for
\* itself, and in the menu it holds neither buffer nor file, for any number of
\* cards, drives and chunks and any behaviour of the NAND, provided no card is
\* pulled in the gap of fMount.
THEOREM ToolsInvHolds ==
  ASSUME ~PullDuringMount
  PROVE  Spec => []ToolsInv
<1>1. Inv /\ ToolsIInv => ToolsInv
  BY DEF Inv, ToolsIInv, ToolsInv, ToolsTypeOK, RawKept, Resources, NoLeak,
     WithFile, Held, Transfer
<1> QED
  BY <1>1, ToolsAlways, PTL

\* A tool nobody pulled the card from, whose raw access was given back, leaves
\* no incomplete backup, and a backup it reported as finished is on its card.
THEOREM LeavesNoTraceHolds ==
  ASSUME ~PullDuringMount
  PROVE  Spec => []LeavesNoTrace
<1>1. ToolsIInv => LeavesNoTrace
  BY DEF ToolsIInv, Undisturbed, LeavesNoTrace, Behind, WithFile, Held, Transfer
<1> QED
  BY <1>1, ToolsAlways, PTL

\* The only thing the tools delete is what this backup wrote.
LEMMA ImagesKeptStep ==
  ASSUME ~StackSurvives, ToolsIInv, [Next]_vars
  PROVE  images \subseteq images' \/ raw
<1>1. CASE Unlink
  <2>1. CASE AccessSd /\ card = home
    <3>1. tool \in {"backup", "restore"} /\ pc \in {"discard", "unlink"} /\ outcome # "ok"
            /\ (pc = "unlink" => tool = "backup")
      BY <1>1 DEF Unlink, ToolsIInv, ToolTypes, Progress
    <3>2. CASE tool = "restore"
      BY <3>1, <3>2 DEF ToolsIInv, Deletes
    <3>3. CASE tool = "backup" /\ home \in partial
      BY <1>1, <3>3 DEF Unlink
    <3>4. CASE tool = "backup" /\ home \notin partial
      <4>1. home = NoCard
        BY <3>1, <3>4 DEF ToolsIInv, Deletes
      <4>2. images \ {home} = images
        BY <4>1, CardAssumption DEF ToolsIInv, ToolTypes
      <4> QED BY <1>1, <4>2 DEF Unlink
    <3> QED BY <3>1, <3>2, <3>3, <3>4
  <2>2. CASE ~(AccessSd /\ card = home)
    BY <1>1, <2>2 DEF Unlink
  <2> QED BY <2>1, <2>2
<1>2. CASE Close
  BY <1>2 DEF Close, Commit
<1>3. ASSUME ~Unlink, ~Close PROVE images' = images
  BY <1>3 DEF Next, ToolStep, EnsureSd, EnsuredSd, NandSize, ReadSerial, OpenFile,
       OpenFails,
     Reserve, Prepare, PrepareFails, Buffer, ReadChunk, WriteChunk, Poll, Finalize,
     Finalized,
     ServerSteps, Select, Prompt, StartTool, Browse, PullCard, InsertCard, Interrupt,
     toolVars, vars
<1> QED
  BY <1>1, <1>2, <1>3

\* A tool deletes a whole image only when fPrepareRawAccess refused a restore,
\* provided an uninitialised fpath does not hold the path of an earlier backup.
THEOREM ImagesKeptHolds ==
  ASSUME ~PullDuringMount, ~StackSurvives
  PROVE  Spec => ImagesKept
<1>1. ToolsIInv /\ [Next]_vars => [images \subseteq images' \/ raw]_vars
  BY ImagesKeptStep
<1> QED
  BY <1>1, ToolsAlways, PTL DEF Spec, ImagesKept

=============================================================================
