--------------------------- MODULE Machine_proofs ---------------------------
(***************************************************************************)
(* First StoreInv: whatever lines are sent, and wherever resets and power  *)
(* cuts come, soft limits are never on without homing and what the machine *)
(* works with is what is committed.  Nothing of that depends on what the   *)
(* parser makes of the words of a line: a line, whatever it is, changes    *)
(* the memory by a chain of writes, and each write commits.                *)
(*                                                                         *)
(* Then Whole, which does depend on it: a line of any length is read into  *)
(* a block that is typed (by induction over its words), the checks give a  *)
(* block that is executable, and each part of the execution leaves the     *)
(* work offsets and the positions as they should be.                       *)
(***************************************************************************)
EXTENDS Machine, WellFoundedInduction, TLAPS

----------------------------------------------------------------------------
(* The memory: writes, each of which commits *)

\* The memory n, come from m, is as it should be, and agrees with itself if m did.
Kept(m, n) == MemoryOK(n) /\ (Agrees(m) => Agrees(n))

\* A commit leaves the memory as it should be, with the image in flash.
LEMMA CommitOK ==
  ASSUME NEW m, DOMAIN m = {"set", "image", "disk", "log"}, m.set \in SafeSettings,
         ImageOK(m.image), \A i \in m.log : ImageOK(i)
  PROVE  /\ MemoryOK(Commit(m)) /\ Commit(m).set = m.set /\ Commit(m).image = m.image
         /\ Commit(m).disk = m.image
  BY DEF MemoryOK, Commit

\* A commit of an image that agrees with the settings in force.
LEMMA CommitKept ==
  ASSUME NEW m, DOMAIN m = {"set", "image", "disk", "log"}, m.set \in SafeSettings,
         ImageOK(m.image), \A i \in m.log : ImageOK(i),
         m.image.version, m.set = m.image.global
  PROVE  Agrees(Commit(m))
  BY CommitOK DEF Agrees

\* A record written into the image and committed.
LEMMA Written ==
  ASSUME NEW m, MemoryOK(m), NEW n, DOMAIN n = {"set", "image", "disk", "log"},
         n.set = m.set, n.log = m.log, ImageOK(n.image),
         n.image.version = m.image.version, n.image.global = m.image.global
  PROVE  Kept(m, Commit(n))
<1>1. MemoryOK(Commit(n))
  BY CommitOK DEF MemoryOK
<1>2. Agrees(m) => Agrees(Commit(n))
  BY CommitKept DEF MemoryOK, Agrees
<1> QED
  BY <1>1, <1>2 DEF Kept

\* A coordinate record, written and committed.
LEMMA WriteCoordKept ==
  ASSUME NEW m, MemoryOK(m), NEW k, NEW v
  PROVE  Kept(m, WriteCoord(m, k, v))
<1> DEFINE n == [m EXCEPT !.image.coord[k] = v]
<1>1. /\ DOMAIN n = {"set", "image", "disk", "log"} /\ n.set = m.set /\ n.log = m.log
      /\ DOMAIN n.image = DOMAIN m.image /\ n.image.version = m.image.version
      /\ n.image.global = m.image.global /\ n.image.startup = m.image.startup
      /\ DOMAIN n.image.coord = DOMAIN m.image.coord
  BY DEF MemoryOK, ImageOK
<1>2. ImageOK(n.image)
  BY <1>1 DEF MemoryOK, ImageOK
<1>3. WriteCoord(m, k, v) = Commit(n)
  BY DEF WriteCoord
<1> HIDE DEF n
<1> QED
  BY <1>1, <1>2, <1>3, Written

\* The build info, written and committed, which spoils startup line 1.
LEMMA StoreInfoKept ==
  ASSUME NEW m, MemoryOK(m), NEW text
  PROVE  Kept(m, StoreInfo(m, text))
<1> DEFINE n == [m EXCEPT !.image.info = text, !.image.startup[1] = Bad]
<1>1. /\ DOMAIN n = {"set", "image", "disk", "log"} /\ n.set = m.set /\ n.log = m.log
      /\ DOMAIN n.image = DOMAIN m.image /\ n.image.version = m.image.version
      /\ n.image.global = m.image.global /\ n.image.coord = m.image.coord
      /\ DOMAIN n.image.startup = DOMAIN m.image.startup
  BY DEF MemoryOK, ImageOK
<1>2. ImageOK(n.image)
  BY <1>1 DEF MemoryOK, ImageOK
<1>3. StoreInfo(m, text) = Commit(n)
  BY DEF StoreInfo
<1> HIDE DEF n
<1> QED
  BY <1>1, <1>2, <1>3, Written

\* A startup line, written and committed, with what it spoils of the build info; any number is taken.
LEMMA StoreStartupKept ==
  ASSUME NEW m, MemoryOK(m), NEW i \in Nat, NEW text
  PROVE  Kept(m, StoreStartup(m, i, text))
<1> DEFINE info == IF i = 2 \/ m.image.info = Bad THEN Bad
                   ELSE IF i = 1 THEN EmptyText ELSE m.image.info
           p == [m EXCEPT !.image.startup[i] = text, !.image.info = info]
           q == [m EXCEPT !.image.info = info]
<1> HIDE DEF info
<1>1. CASE i \in StartupLines
  <2>1. StoreStartup(m, i, text) = Commit(p)
    BY <1>1 DEF StoreStartup, info, StartupLines
  <2>2. /\ DOMAIN p = {"set", "image", "disk", "log"} /\ p.set = m.set /\ p.log = m.log
        /\ DOMAIN p.image = DOMAIN m.image /\ p.image.version = m.image.version
        /\ p.image.global = m.image.global /\ p.image.coord = m.image.coord
        /\ DOMAIN p.image.startup = DOMAIN m.image.startup
    BY DEF MemoryOK, ImageOK
  <2>3. ImageOK(p.image)
    BY <2>2 DEF MemoryOK, ImageOK
  <2> HIDE DEF p
  <2> QED
    BY <2>1, <2>2, <2>3, Written
<1>2. CASE i = 2
  <2>1. StoreStartup(m, i, text) = Commit(q)
    BY <1>2 DEF StoreStartup, info, StartupLines
  <2>2. /\ DOMAIN q = {"set", "image", "disk", "log"} /\ q.set = m.set /\ q.log = m.log
        /\ DOMAIN q.image = DOMAIN m.image /\ q.image.version = m.image.version
        /\ q.image.global = m.image.global /\ q.image.coord = m.image.coord
        /\ q.image.startup = m.image.startup
    BY DEF MemoryOK, ImageOK
  <2>3. ImageOK(q.image)
    BY <2>2 DEF MemoryOK, ImageOK
  <2> HIDE DEF q
  <2> QED
    BY <2>1, <2>2, <2>3, Written
<1>3. CASE i > 2
  <2>1. StoreStartup(m, i, text) = Commit(m)
    BY <1>3 DEF StoreStartup, StartupLines
  <2> QED
    BY <2>1, Written DEF MemoryOK
<1> QED
  BY <1>1, <1>2, <1>3 DEF StartupLines

\* Reading a record resets it when it is bad.
LEMMA ReadsKept ==
  ASSUME NEW m, MemoryOK(m)
  PROVE  /\ Kept(m, m) /\ \A k : Kept(m, ReadCoord(m, k).m)
         /\ \A n \in Nat : Kept(m, ReadStartup(m, n).m)
         /\ Kept(m, ReadInfo(m))
<1>1. Kept(m, m)
  BY DEF Kept
<1>2. ASSUME NEW k PROVE Kept(m, ReadCoord(m, k).m)
  BY <1>1, WriteCoordKept DEF ReadCoord
<1>3. ASSUME NEW n \in Nat PROVE Kept(m, ReadStartup(m, n).m)
  BY <1>1, StoreStartupKept DEF ReadStartup
<1>4. Kept(m, ReadInfo(m))
  BY <1>1, StoreInfoKept DEF ReadInfo
<1> QED
  BY <1>1, <1>2, <1>3, <1>4

\* The default settings have no soft limits.
LEMMA DefaultsSafe == DefaultSettings \in SafeSettings
  BY DEF DefaultSettings, SafeSettings

\* Settings that are safe, stored, are in force, in the image and committed.
LEMMA WriteGlobalOK ==
  ASSUME NEW m, MemoryOK(m), NEW set \in SafeSettings
  PROVE  LET w == WriteGlobal([m EXCEPT !.set = set])
         IN  MemoryOK(w) /\ Agrees(w) /\ w.set = set
<1> DEFINE r == [m EXCEPT !.set = set]
           n == [r EXCEPT !.image.version = TRUE, !.image.global = r.set]
<1>1. /\ DOMAIN r = {"set", "image", "disk", "log"} /\ r.set = set /\ r.log = m.log
      /\ r.image = m.image
  BY DEF MemoryOK
<1>2. WriteGlobal(r) = Commit(n)
  BY DEF WriteGlobal
<1> HIDE DEF r
<1>3. /\ DOMAIN n = {"set", "image", "disk", "log"} /\ n.set = set /\ n.log = m.log
      /\ DOMAIN n.image = DOMAIN m.image /\ n.image.version = TRUE
      /\ n.image.global = set /\ n.image.coord = m.image.coord
      /\ n.image.startup = m.image.startup
  BY <1>1 DEF MemoryOK, ImageOK
<1> HIDE DEF n
<1>4. ImageOK(n.image)
  BY <1>3 DEF MemoryOK, ImageOK
<1>5. MemoryOK(Commit(n)) /\ Agrees(Commit(n)) /\ Commit(n).set = set
  BY <1>3, <1>4, CommitOK, CommitKept DEF MemoryOK
<1> QED
  BY <1>2, <1>5 DEF r

\* A setting that is stored is one the checks let pass: soft limits go on with homing only, and off with it.
LEMMA StoreSettingKept ==
  ASSUME NEW m, MemoryOK(m), NEW n \in Nat, NEW v \in Int
  PROVE  Kept(m, StoreSetting(m, n, v).m)
<1>1. CASE SettingRefused(m, n, v)
  BY <1>1, ReadsKept DEF StoreSetting
<1>2. CASE ~SettingRefused(m, n, v)
  <2> DEFINE set == ApplySetting(m.set, n, v)
  <2>1. m.set \in SafeSettings
    BY DEF MemoryOK
  <2>2. set \in SafeSettings
    <3>1. CASE n = 0
      BY <2>1, <3>1 DEF ApplySetting, SafeSettings
    <3>2. CASE n = 20
      BY <1>2, <2>1, <3>2 DEF ApplySetting, SafeSettings, SettingRefused
    <3>3. CASE n = 22
      <4> DEFINE a == v # 0
                 b == m.set.soft /\ v # 0
      <4>1. set = [m.set EXCEPT !.homing = a, !.soft = b]
        BY <3>3 DEF ApplySetting
      <4>2. a \in BOOLEAN /\ b \in BOOLEAN /\ (b => a)
        OBVIOUS
      <4> HIDE DEF a, b, set
      <4>3. m.set \in [pulse : Int, homing : BOOLEAN, soft : BOOLEAN]
        BY <2>1 DEF SafeSettings
      <4>4. set \in [pulse : Int, homing : BOOLEAN, soft : BOOLEAN]
        BY <4>1, <4>2, <4>3
      <4>5. set.homing = a /\ set.soft = b
        BY <4>1, <4>3
      <4> QED
        BY <4>2, <4>4, <4>5 DEF SafeSettings
    <3> QED
      BY <1>2, <3>1, <3>2, <3>3 DEF SettingRefused
  <2>3. StoreSetting(m, n, v).m = WriteGlobal([m EXCEPT !.set = set])
    BY <1>2 DEF StoreSetting
  <2> HIDE DEF set
  <2> QED
    BY <2>2, <2>3, WriteGlobalOK DEF Kept
<1> QED
  BY <1>1, <1>2

\* The eight coordinate records, each with its own commit.
LEMMA RestoreParametersKept ==
  ASSUME NEW m, MemoryOK(m)
  PROVE  Kept(m, RestoreParameters(m))
<1> DEFINE upto(k) == [m.image EXCEPT !.coord = [i \in Systems |-> IF i <= k THEN Zero ELSE m.image.coord[i]]]
           r == [m EXCEPT !.image = upto(7), !.disk = upto(7), !.log = m.log \cup {upto(k) : k \in Systems}]
<1>1. RestoreParameters(m) = r
  BY DEF RestoreParameters
<1>2. ASSUME NEW k
      PROVE  /\ ImageOK(upto(k)) /\ upto(k).version = m.image.version
             /\ upto(k).global = m.image.global /\ upto(k).startup = m.image.startup
  <2> DEFINE c == [i \in Systems |-> IF i <= k THEN Zero ELSE m.image.coord[i]]
             u == [m.image EXCEPT !.coord = c]
  <2>1. DOMAIN c = Systems
    OBVIOUS
  <2> HIDE DEF c
  <2>2. /\ DOMAIN u = DOMAIN m.image /\ u.coord = c /\ u.version = m.image.version
        /\ u.global = m.image.global /\ u.startup = m.image.startup
    BY DEF MemoryOK, ImageOK
  <2> HIDE DEF u
  <2>3. ImageOK(u)
    BY <2>1, <2>2 DEF MemoryOK, ImageOK
  <2> QED
    BY <2>2, <2>3 DEF u, c
<1> HIDE DEF upto
<1>3. /\ DOMAIN r = {"set", "image", "disk", "log"} /\ r.set = m.set /\ r.image = upto(7)
      /\ r.disk = upto(7) /\ r.log = m.log \cup {upto(k) : k \in Systems}
  BY DEF MemoryOK
<1> HIDE DEF r
<1>4. MemoryOK(r)
  BY <1>2, <1>3 DEF MemoryOK
<1>5. Agrees(m) => Agrees(r)
  <2> SUFFICES ASSUME Agrees(m) PROVE Agrees(r)
    OBVIOUS
  <2>1. m.image.version /\ m.set = m.image.global
    BY DEF Agrees
  <2>2. r.image = r.disk /\ r.image.version = m.image.version /\ r.image.global = m.set /\ r.set = m.set
    BY <1>2, <1>3, <2>1
  <2> QED
    BY <2>1, <2>2 DEF Agrees
<1> QED
  BY <1>1, <1>4, <1>5 DEF Kept

\* The texts emptied in the image only.
LEMMA RestoreTextsKept ==
  ASSUME NEW m, MemoryOK(m)
  PROVE  /\ MemoryOK(RestoreTexts(m))
         /\ Agrees(m) /\ m.image.startup = m.disk.startup => Agrees(RestoreTexts(m))
<1> DEFINE t == [n \in StartupLines |-> Wiped(m.image.startup[n])]
           r == [m EXCEPT !.image.startup = t, !.image.info = Wiped(m.image.info)]
<1>1. RestoreTexts(m) = r
  BY DEF RestoreTexts
<1>2. DOMAIN t = StartupLines /\ \A n \in StartupLines : t[n] \in {m.image.startup[n], EmptyText}
  BY DEF Wiped
<1> HIDE DEF t
<1>3. /\ DOMAIN r = {"set", "image", "disk", "log"} /\ r.set = m.set /\ r.disk = m.disk /\ r.log = m.log
      /\ DOMAIN r.image = DOMAIN m.image /\ r.image.version = m.image.version
      /\ r.image.global = m.image.global /\ r.image.coord = m.image.coord
      /\ r.image.startup = t
  BY DEF MemoryOK, ImageOK
<1> HIDE DEF r
<1>4. MemoryOK(r)
  BY <1>2, <1>3 DEF MemoryOK, ImageOK
<1>5. ASSUME Agrees(m), m.image.startup = m.disk.startup PROVE Agrees(r)
  BY <1>2, <1>3, <1>5 DEF Agrees
<1> QED
  BY <1>1, <1>4, <1>5

\* With the settings restored the machine agrees with its memory, whatever was there before.
LEMMA RestoreAllOK ==
  ASSUME NEW m, MemoryOK(m)
  PROVE  /\ Kept(m, RestoreDefaults(m)) /\ MemoryOK(RestoreAll(m)) /\ Agrees(RestoreAll(m))
<1> DEFINE d == RestoreDefaults(m)
           p == RestoreParameters(d)
<1>1. MemoryOK(d) /\ Agrees(d)
  BY DefaultsSafe, WriteGlobalOK DEF RestoreDefaults
<1>2. MemoryOK(p) /\ Agrees(p)
  BY <1>1, RestoreParametersKept DEF Kept
<1>3. p.image = p.disk
  BY <1>1 DEF RestoreParameters, MemoryOK
<1> HIDE DEF d, p
<1>4. MemoryOK(RestoreTexts(p)) /\ Agrees(RestoreTexts(p))
  BY <1>2, <1>3, RestoreTextsKept
<1> QED
  BY <1>1, <1>4 DEF RestoreAll, Kept, d, p

\* At power-up the image is what is in flash: the settings are read, or all is restored.
LEMMA SettingsInitOK ==
  ASSUME NEW m, MemoryOK(m), m.image = m.disk
  PROVE  MemoryOK(SettingsInit(m)) /\ Agrees(SettingsInit(m))
<1>1. CASE m.image.version /\ m.image.global # Bad
  <2> DEFINE r == [m EXCEPT !.set = m.image.global]
  <2>1. SettingsInit(m) = r
    BY <1>1 DEF SettingsInit
  <2>2. /\ DOMAIN r = {"set", "image", "disk", "log"} /\ r.set = m.image.global /\ r.disk = m.disk
        /\ r.log = m.log /\ r.image = m.image
    BY DEF MemoryOK
  <2> HIDE DEF r
  <2>3. MemoryOK(r)
    BY <1>1, <2>2 DEF MemoryOK, ImageOK
  <2>4. Agrees(r)
    BY <1>1, <2>2 DEF Agrees
  <2> QED
    BY <2>1, <2>3, <2>4
<1>2. CASE ~(m.image.version /\ m.image.global # Bad)
  BY <1>2, RestoreAllOK DEF SettingsInit
<1> QED
  BY <1>1, <1>2

\* The two listings read all the records they list.
LEMMA ShowKept ==
  ASSUME NEW m, MemoryOK(m)
  PROVE  Kept(m, ShowParameters(m)) /\ Kept(m, ShowStartup(m))
<1>1. Kept(m, ShowParameters(m))
  BY ReadsKept DEF ShowParameters
<1>2. Kept(m, ShowStartup(m))
  <2>1. Kept(m, ReadStartup(m, 0).m)
    BY ReadsKept
  <2>2. Kept(ReadStartup(m, 0).m, ReadStartup(ReadStartup(m, 0).m, 1).m)
    BY <2>1, ReadsKept DEF Kept
  <2> QED
    BY <2>1, <2>2 DEF Kept, ShowStartup
<1> QED
  BY <1>1, <1>2

----------------------------------------------------------------------------
(* A line of G-code *)

\* t is a machine with the memory of s; with one that goes back to that of s.
Same(s, t) == "m" \in DOMAIN t /\ t.m = s.m
Comes(s, t) == "m" \in DOMAIN t /\ Kept(s.m, t.m)

\* What an action relates is related in a chain.
LEMMA Chain ==
  ASSUME NEW s, NEW t, NEW u
  PROVE  /\ Same(s, t) /\ Same(t, u) => Same(s, u)
         /\ Comes(s, t) /\ Comes(t, u) => Comes(s, u)
         /\ Comes(s, t) /\ Same(t, u) => Comes(s, u)
         /\ Same(s, t) /\ Comes(t, u) => Comes(s, u)
  BY DEF Same, Comes, Kept

\* Waiting for the motion, a move and the coolant leave the memory alone.
LEMMA MotionSame ==
  ASSUME NEW s, "m" \in DOMAIN s
  PROVE  /\ Same(s, Sync(s)) /\ \A target : Same(s, MoveTo(s, target))
         /\ \A flood : Same(s, CoolantSync(s, flood))
<1>1. Same(s, Sync(s))
  BY DEF Same, Sync
<1>2. ASSUME NEW target PROVE Same(s, MoveTo(s, target))
  BY DEF Same, MoveTo
<1>3. ASSUME NEW flood PROVE Same(s, CoolantSync(s, flood))
  <2> DEFINE t == Sync(s)
  <2> HIDE DEF t
  <2>1. Same(s, t)
    BY <1>1 DEF t
  <2>2. CoolantSync(s, flood) \in {s, t, [t EXCEPT !.cool = flood]}
    BY DEF CoolantSync, t
  <2> QED
    BY <2>1, <2>2 DEF Same
<1> QED
  BY <1>1, <1>2, <1>3

\* So does a probe cycle, whichever way it ends.
LEMMA ProbeSame ==
  ASSUME NEW s, "m" \in DOMAIN s, NEW b
  PROVE  Same(s, Probe(s, b))
<1> DEFINE ready == Sync(s)
           moved == MoveTo(ready, b.target)
           done == Sync(moved)
<1>1. Same(s, ready)
  BY MotionSame
<1>2. Same(s, moved)
  BY <1>1, MotionSame, Chain DEF Same
<1>3. Same(s, done)
  BY <1>2, MotionSame, Chain DEF Same
<1>4. \/ Probe(s, b) \in {[s EXCEPT !.gc.pos = b.target], ready, [ready EXCEPT !.st = "ALARM"], done}
      \/ Probe(s, b) = [done EXCEPT !.st = IF b.modal.motion = "G384" THEN "ALARM" ELSE done.st,
                                    !.plan = done.pos, !.gc.pos = b.target]
  BY DEF Probe
<1> HIDE DEF ready, moved, done
<1> QED
  BY <1>1, <1>3, <1>4 DEF Same

\* So do the first parts of the execution of a line.
LEMMA FirstPartsSame ==
  ASSUME NEW s, "m" \in DOMAIN s, NEW b
  PROVE  /\ Same(s, SetFeedAndCoolant(s, b)) /\ Same(s, Dwell(s, b))
         /\ Same(s, SetToolOffset(s, b)) /\ Same(s, SelectSystem(s, b))
<1>1. Same(s, SetFeedAndCoolant(s, b))
  <2> DEFINE t == [s EXCEPT !.gc.modal.feed = b.modal.feed, !.gc.rate = b.rate]
             c == CoolantSync(t, b.modal.coolant)
  <2>1. Same(s, t)
    BY DEF Same
  <2>2. Same(t, c)
    BY <2>1, MotionSame DEF Same
  <2>3. SetFeedAndCoolant(s, b) \in {t, [c EXCEPT !.gc.modal.coolant = b.modal.coolant]}
    BY DEF SetFeedAndCoolant
  <2> HIDE DEF t, c
  <2> QED
    BY <2>1, <2>2, <2>3 DEF Same
<1>2. Same(s, Dwell(s, b))
  BY MotionSame DEF Dwell, Same
<1>3. Same(s, SetToolOffset(s, b))
  <2> DEFINE t == [s EXCEPT !.gc.tlo = IF b.tool = "G49" THEN 0 ELSE Scaled(b, b.v.Z)]
  <2>1. Same(s, t) /\ Same(t, Sync(t))
    BY MotionSame DEF Same
  <2>2. SetToolOffset(s, b) \in {s, Sync(t)}
    BY DEF SetToolOffset
  <2> HIDE DEF t
  <2> QED
    BY <2>1, <2>2 DEF Same
<1>4. Same(s, SelectSystem(s, b))
  <2> DEFINE t == [s EXCEPT !.gc.modal.sel = b.modal.sel, !.gc.coord = b.coord]
  <2>1. Same(s, t) /\ Same(t, Sync(t))
    BY MotionSame DEF Same
  <2>2. SelectSystem(s, b) \in {s, Sync(t)}
    BY DEF SelectSystem
  <2> HIDE DEF t
  <2> QED
    BY <2>1, <2>2 DEF Same
<1> QED
  BY <1>1, <1>2, <1>3, <1>4

\* A record written once the motion has ended.
LEMMA WrittenComes ==
  ASSUME NEW s, "m" \in DOMAIN s, MemoryOK(s.m), NEW k, NEW v
  PROVE  Comes(s, [Sync(s) EXCEPT !.m = WriteCoord(Sync(s).m, k, v)])
<1> DEFINE t == Sync(s)
           w == WriteCoord(t.m, k, v)
<1>1. "m" \in DOMAIN t /\ t.m = s.m
  BY MotionSame DEF Same
<1>2. Kept(s.m, w)
  BY <1>1, WriteCoordKept
<1> HIDE DEF t, w
<1>3. "m" \in DOMAIN [t EXCEPT !.m = w] /\ [t EXCEPT !.m = w].m = w
  BY <1>1
<1> QED
  BY <1>2, <1>3 DEF Comes, t, w

\* The non-modal command writes one coordinate record, or none.
LEMMA NonModalComes ==
  ASSUME NEW s, "m" \in DOMAIN s, MemoryOK(s.m), NEW b
  PROVE  Comes(s, NonModal(s, b))
<1>0. Comes(s, s) /\ \A t : Same(s, t) => Comes(s, t)
  BY ReadsKept DEF Comes, Same
<1>1. CASE b.action = "G10"
  <2> DEFINE t == [Sync(s) EXCEPT !.m = WriteCoord(Sync(s).m, b.record, b.data)]
             u == [t EXCEPT !.gc.coord = b.data]
  <2>1. Comes(s, t)
    BY WrittenComes
  <2>2. Same(t, u) /\ Same(u, Sync(u))
    BY <2>1, MotionSame DEF Comes, Same
  <2>3. NonModal(s, b) \in {t, Sync(u)}
    BY <1>1 DEF NonModal, SetCoordinateData
  <2> HIDE DEF t, u
  <2> QED
    BY <2>1, <2>2, <2>3, Chain
<1>2. CASE b.action \in {"G28", "G30"}
  <2> DEFINE via == IF Given(b) = {} THEN s ELSE MoveTo(s, b.target)
             t == MoveTo(via, b.data)
  <2>1. Same(s, via)
    BY MotionSame DEF Same
  <2>2. Same(via, t)
    BY <2>1, MotionSame DEF Same
  <2>3. NonModal(s, b) = [t EXCEPT !.gc.pos = b.data]
    BY <1>2 DEF NonModal, GoPredefined
  <2> HIDE DEF via, t
  <2>4. Same(s, [t EXCEPT !.gc.pos = b.data])
    BY <2>1, <2>2 DEF Same
  <2> QED
    BY <1>0, <2>3, <2>4
<1>3. CASE b.action \in {"G281", "G301"}
  <2>1. NonModal(s, b) = StorePredefined(s, G28Record) \/ NonModal(s, b) = StorePredefined(s, G30Record)
    BY <1>3 DEF NonModal
  <2> QED
    BY <2>1, WrittenComes DEF StorePredefined
<1>4. CASE b.action \in {"G92", "G921"}
  <2> DEFINE t == [s EXCEPT !.gc.off = b.data]
             u == [s EXCEPT !.gc.off = Zero]
  <2>1. Same(s, t) /\ Same(t, Sync(t)) /\ Same(s, u) /\ Same(u, Sync(u))
    BY MotionSame DEF Same
  <2>2. NonModal(s, b) \in {Sync(t), Sync(u)}
    BY <1>4 DEF NonModal
  <2> HIDE DEF t, u
  <2> QED
    BY <1>0, <2>1, <2>2, Chain
<1>5. CASE b.action \notin {"G10", "G28", "G30", "G281", "G301", "G92", "G921"}
  BY <1>0, <1>5 DEF NonModal
<1> QED
  BY <1>1, <1>2, <1>3, <1>4, <1>5

\* The motion of a line leaves the memory alone.
LEMMA MotionPartSame ==
  ASSUME NEW s, "m" \in DOMAIN s, NEW b
  PROVE  Same(s, Motion(s, b))
<1> DEFINE t == MoveTo(s, b.target)
<1>1. Same(s, s) /\ Same(s, t) /\ Same(s, Probe(s, b))
  BY MotionSame, ProbeSame DEF Same
<1>2. Motion(s, b) \in {s, Probe(s, b), [t EXCEPT !.gc.pos = b.target]}
  BY DEF Motion
<1> HIDE DEF t
<1> QED
  BY <1>1, <1>2 DEF Same

\* The end of a program reads the first coordinate record.
LEMMA ProgramEndComes ==
  ASSUME NEW s, "m" \in DOMAIN s, MemoryOK(s.m)
  PROVE  Comes(s, ProgramEnd(s).s)
<1> DEFINE t == [s EXCEPT !.gc.modal = [s.gc.modal EXCEPT !.motion = "G1", !.plane = "G17", !.distance = "G90",
                                            !.feed = "G94", !.sel = 0, !.coolant = FALSE]]
           r == ReadCoord(t.m, 0)
           loaded == [t EXCEPT !.m = r.m, !.gc.coord = r.value]
           u == [t EXCEPT !.gc.modal.flow = "running"]
           v == [loaded EXCEPT !.gc.modal.flow = "running", !.cool = IF t.abort THEN loaded.cool ELSE FALSE]
<1>1. ProgramEnd(s).s \in {u, loaded, Sync(v)}
  BY DEF ProgramEnd
<1>2. Same(s, t)
  BY DEF Same
<1>3. Same(t, u)
  BY <1>2 DEF Same
<1>4. Kept(t.m, r.m)
  BY <1>2, ReadsKept DEF Same
<1> HIDE DEF t, r
<1>5. Comes(t, loaded)
  BY <1>2, <1>4 DEF Same, Comes
<1>6. Same(loaded, v)
  BY <1>5 DEF Same, Comes
<1> HIDE DEF loaded, v
<1>7. Same(v, Sync(v))
  BY <1>6, MotionSame DEF Same
<1>8. Comes(t, t)
  BY <1>2, ReadsKept DEF Comes, Same
<1> HIDE DEF u
<1> QED
  BY <1>1, <1>2, <1>3, <1>5, <1>6, <1>7, <1>8, Chain

\* A whole line executed: its parts in a chain.
LEMMA ExecuteComes ==
  ASSUME NEW s, "m" \in DOMAIN s, MemoryOK(s.m), NEW b
  PROVE  Comes(s, Execute(s, b).s)
<1> DEFINE feed == SetFeedAndCoolant(s, b)
           dwelt == Dwell(feed, b)
           fed == SetToolOffset(dwelt, b)
           sel == SelectSystem(fed, b)
           placed == NonModal(sel, b)
           modal == [placed EXCEPT !.gc.modal = b.modal]
           moved == Motion(modal, b)
<1>1. Same(s, feed)
  BY FirstPartsSame
<1>2. Same(feed, dwelt)
  BY <1>1, FirstPartsSame DEF Same
<1>3. Same(dwelt, fed)
  BY <1>2, FirstPartsSame DEF Same
<1>4. Same(fed, sel)
  BY <1>3, FirstPartsSame DEF Same
<1>5. Same(s, sel) /\ MemoryOK(sel.m)
  BY <1>1, <1>2, <1>3, <1>4 DEF Same
<1>6. Comes(sel, placed)
  BY <1>5, NonModalComes DEF Same
<1>7. Same(placed, modal)
  BY <1>6 DEF Same, Comes
<1>8. Same(modal, moved)
  BY <1>7, MotionPartSame DEF Same
<1>9. Execute(s, b) = ProgramFlow(moved, b.modal.flow)
  BY DEF Execute
<1> HIDE DEF feed, dwelt, fed, sel, placed, modal, moved
<1>10. Comes(s, moved)
  BY <1>5, <1>6, <1>7, <1>8, Chain
<1>11. Same(moved, Sync(moved)) /\ "m" \in DOMAIN moved /\ MemoryOK(moved.m)
  BY <1>10, MotionSame DEF Comes, Kept
<1> DEFINE y == Sync(moved)
<1>12. ProgramFlow(moved, b.modal.flow).s \in {moved, [y EXCEPT !.gc.modal.flow = "running"], ProgramEnd(y).s}
  BY DEF ProgramFlow
<1>13. Comes(s, y)
  BY <1>10, <1>11, Chain
<1> HIDE DEF y
<1>14. Comes(s, [y EXCEPT !.gc.modal.flow = "running"])
  BY <1>13 DEF Comes
<1>15. Comes(s, ProgramEnd(y).s)
  BY <1>13, ProgramEndComes, Chain DEF Comes, Kept
<1> QED
  BY <1>9, <1>10, <1>12, <1>14, <1>15

\* The checks may reset a record they cannot read.
LEMMA CheckedKept ==
  ASSUME NEW g, NEW m, MemoryOK(m), NEW b
  PROVE  Kept(m, Checked(g, m, b).m)
<1> DEFINE selects == G12Group \in b.groups /\ b.modal.sel # g.modal.sel
           sel == IF selects THEN ReadCoord(m, b.modal.sel) ELSE [ok |-> TRUE, value |-> g.coord, m |-> m]
           k == CASE b.action = "G10" -> G10Record(b) [] b.action = "G28" -> G28Record
                  [] b.action = "G30" -> G30Record [] OTHER -> 0
           reads == b.action \in {"G10", "G28", "G30"}
           rec == IF reads THEN ReadCoord(sel.m, k) ELSE [ok |-> TRUE, value |-> Zero, m |-> sel.m]
<1>1. Kept(m, m) /\ Kept(m, sel.m)
  BY ReadsKept
<1> HIDE DEF selects, sel, k
<1>2. Kept(sel.m, rec.m)
  BY <1>1, ReadsKept DEF Kept
<1>3. Kept(m, rec.m)
  BY <1>1, <1>2 DEF Kept
<1>4. Checked(g, m, b).m \in {m, sel.m, rec.m}
  BY DEF Checked, selects, sel, k
<1> HIDE DEF rec
<1> QED
  BY <1>1, <1>3, <1>4

\* The machine waits for its motion before a record that was reset is committed.
LEMMA RereadComes ==
  ASSUME NEW s, "m" \in DOMAIN s, NEW m, Kept(s.m, m)
  PROVE  Comes(s, Reread(s, m))
<1> DEFINE t == Sync(s)
<1>1. Same(s, t)
  BY MotionSame
<1>2. Reread(s, m) \in {s, [t EXCEPT !.m = m]} /\ (Reread(s, m) = s => m = s.m \/ Reread(s, m) = [t EXCEPT !.m = m])
  BY DEF Reread
<1> HIDE DEF t
<1> QED
  BY <1>1, <1>2 DEF Same, Comes

\* A line of G-code, accepted or refused, whatever its words.
LEMMA GcodeComes ==
  ASSUME NEW s, "m" \in DOMAIN s, MemoryOK(s.m), NEW words, NEW jog, NEW junk
  PROVE  Comes(s, GcExecuteLine(s, words, jog, junk).s)
<1> DEFINE c == Checked(s.gc, s.m, Parse(s.gc, words, jog, junk))
           r == Reread(s, c.m)
<1>1. Kept(s.m, c.m)
  BY CheckedKept
<1> HIDE DEF c
<1>2. Comes(s, r) /\ MemoryOK(r.m) /\ "m" \in DOMAIN r
  BY <1>1, RereadComes DEF Comes, Kept
<1>3. GcExecuteLine(s, words, jog, junk) = Finish(r, c, jog)
  BY DEF GcExecuteLine, Rest, c
<1> HIDE DEF r
<1>4. Comes(r, Execute(r, c.b).s)
  BY <1>2, ExecuteComes
<1>5. Same(r, Jog(r, c.b))
  <2> DEFINE t == MoveTo(r, c.b.target)
  <2>1. Same(r, t)
    BY <1>2, MotionSame
  <2>2. Jog(r, c.b) = [t EXCEPT !.gc.pos = c.b.target, !.st = IF t.st = "IDLE" /\ t.path # <<>> THEN "JOG" ELSE t.st]
    BY DEF Jog
  <2> HIDE DEF t
  <2> QED
    BY <2>1, <2>2 DEF Same
<1>6. Finish(r, c, jog).s \in {r, Execute(r, c.b).s, Jog(r, c.b)}
  BY DEF Finish
<1> QED
  BY <1>2, <1>3, <1>4, <1>5, <1>6, Chain

----------------------------------------------------------------------------
(* Lines and starts *)

\* A reset leaves the memory alone.
LEMMA McResetSame ==
  ASSUME NEW s, "m" \in DOMAIN s
  PROVE  Same(s, McReset(s))
  BY DEF Same, McReset

\* The machine s with a memory that s.m becomes.
LEMMA SetComes ==
  ASSUME NEW s, "m" \in DOMAIN s, NEW n, Kept(s.m, n)
  PROVE  Comes(s, [s EXCEPT !.m = n])
  BY DEF Comes

\* So do $C and $X.
LEMMA ToggleSame ==
  ASSUME NEW s, "m" \in DOMAIN s
  PROVE  Same(s, ToggleCheck(s).s) /\ Same(s, Unlock(s)) /\ Same(s, s)
<1>1. Same(s, s) /\ Same(s, McReset(s)) /\ Same(s, [s EXCEPT !.st = "CHECK"])
  BY McResetSame DEF Same
<1>2. ToggleCheck(s).s \in {s, McReset(s), [s EXCEPT !.st = "CHECK"]}
  BY DEF ToggleCheck, Answer
<1>3. Same(s, Unlock(s))
  BY DEF Same, Unlock
<1> QED
  BY <1>1, <1>2, <1>3

\* $N: the line is executed, then stored.
LEMMA SetStartupComes ==
  ASSUME NEW s, "m" \in DOMAIN s, MemoryOK(s.m), NEW l, l.n \in Nat, NEW junk
  PROVE  Comes(s, SetStartup(s, l, junk).s)
<1> DEFINE r == GcExecuteLine(s, l.words, FALSE, junk)
           t == Sync(r.s)
           u == [t EXCEPT !.m = StoreStartup(t.m, l.n, l.words)]
<1>1. SetStartup(s, l, junk).s \in {s, r.s, u}
  BY DEF SetStartup, Answer
<1>2. Comes(s, r.s)
  BY GcodeComes
<1>3. Comes(s, s)
  BY ReadsKept DEF Comes
<1> HIDE DEF r
<1>4. Same(r.s, t)
  BY <1>2, MotionSame DEF Comes
<1>5. Comes(s, t)
  BY <1>2, <1>4, Chain
<1> HIDE DEF t
<1>6. Kept(t.m, StoreStartup(t.m, l.n, l.words))
  BY <1>5, StoreStartupKept DEF Comes, Kept
<1>7. Comes(t, u)
  BY <1>5, <1>6, SetComes DEF Comes
<1> HIDE DEF u
<1>8. Comes(s, u)
  BY <1>5, <1>7, Chain
<1> QED
  BY <1>1, <1>2, <1>3, <1>8

\* $RST: defaults, coordinate records, or all.
LEMMA RestoreComes ==
  ASSUME NEW s, "m" \in DOMAIN s, MemoryOK(s.m), NEW what
  PROVE  Comes(s, RestoreStored(s, what))
<1> DEFINE t == Sync(s)
           n == IF what = "all" THEN RestoreAll(t.m) ELSE RestoreParameters(t.m)
           u == IF what = "settings" THEN [s EXCEPT !.m = RestoreDefaults(s.m)] ELSE [t EXCEPT !.m = n]
<1>1. RestoreStored(s, what) = McReset(u)
  BY DEF RestoreStored
<1>2. Same(s, t)
  BY MotionSame
<1> HIDE DEF t
<1>3. Kept(t.m, n)
  BY <1>2, RestoreAllOK, RestoreParametersKept DEF Kept, Same
<1> HIDE DEF n
<1>4. Comes(t, [t EXCEPT !.m = n])
  BY <1>2, <1>3, SetComes DEF Same
<1>5. Comes(s, [s EXCEPT !.m = RestoreDefaults(s.m)])
  BY RestoreAllOK, SetComes
<1>6. Comes(s, u)
  BY <1>2, <1>4, <1>5, Chain
<1> HIDE DEF u
<1>7. Same(u, McReset(u))
  BY <1>6, McResetSame DEF Comes
<1> QED
  BY <1>1, <1>6, <1>7, Chain

\* The $ commands, one by one.
LEMMA SystemLineComes ==
  ASSUME NEW s, "m" \in DOMAIN s, MemoryOK(s.m), NEW l, l.cmd \in LineCommands \ {"gcode"},
         l.n \in Nat, l.v \in Int, NEW junk
  PROVE  Comes(s, SystemLine(s, l, junk).s)
<1>0. Comes(s, s) /\ \A t : Same(s, t) => Comes(s, t)
  BY ReadsKept DEF Comes, Same
<1>1. CASE l.cmd = "jog"
  <2>1. SystemLine(s, l, junk).s \in {s, GcExecuteLine(s, l.words, TRUE, junk).s}
    BY <1>1 DEF SystemLine, Answer
  <2> QED
    BY <1>0, <2>1, GcodeComes
<1>2. CASE l.cmd = "check"
  <2>1. SystemLine(s, l, junk) = ToggleCheck(s)
    BY <1>2 DEF SystemLine
  <2> QED
    BY <1>0, <2>1, ToggleSame
<1>3. CASE l.cmd = "unlock"
  <2>1. SystemLine(s, l, junk).s = Unlock(s)
    BY <1>3 DEF SystemLine, Answer
  <2> QED
    BY <1>0, <2>1, ToggleSame
<1>4. CASE l.cmd = "startup"
  <2>1. SystemLine(s, l, junk).s = s \/ SystemLine(s, l, junk) = SetStartup(s, l, junk)
    BY <1>4 DEF SystemLine, Answer
  <2> QED
    BY <1>0, <2>1, SetStartupComes
<1>5. CASE l.cmd = "setting"
  <2> DEFINE n == StoreSetting(s.m, l.n, l.v).m
  <2>1. SystemLine(s, l, junk).s \in {s, [s EXCEPT !.m = n]}
    BY <1>5 DEF SystemLine, Answer
  <2>2. Kept(s.m, n)
    BY StoreSettingKept
  <2> HIDE DEF n
  <2> QED
    BY <1>0, <2>1, <2>2, SetComes
<1>6. CASE l.cmd = "restore"
  <2>1. SystemLine(s, l, junk).s \in {s, RestoreStored(s, l.arg)}
    BY <1>6 DEF SystemLine, Answer
  <2> QED
    BY <1>0, <2>1, RestoreComes
<1>7. CASE l.cmd = "info"
  <2> DEFINE n == StoreInfo(s.m, <<l.arg>>)
  <2>1. SystemLine(s, l, junk).s \in {s, [s EXCEPT !.m = n]}
    BY <1>7 DEF SystemLine, Answer
  <2>2. Kept(s.m, n)
    BY StoreInfoKept
  <2> HIDE DEF n
  <2> QED
    BY <1>0, <2>1, <2>2, SetComes
<1>8. CASE l.cmd = "parameters"
  <2>1. SystemLine(s, l, junk).s \in {s, Reread(s, ShowParameters(s.m))}
    BY <1>8 DEF SystemLine, Answer
  <2> QED
    BY <1>0, <2>1, ShowKept, RereadComes
<1>9. CASE l.cmd = "lines"
  <2>1. SystemLine(s, l, junk).s \in {s, Reread(s, ShowStartup(s.m))}
    BY <1>9 DEF SystemLine, Answer
  <2> QED
    BY <1>0, <2>1, ShowKept, RereadComes
<1>10. CASE l.cmd = "version"
  <2> DEFINE n == ReadInfo(s.m)
  <2>1. SystemLine(s, l, junk).s \in {s, [s EXCEPT !.m = n]}
    BY <1>10 DEF SystemLine, Answer
  <2>2. Kept(s.m, n)
    BY ReadsKept
  <2> HIDE DEF n
  <2> QED
    BY <1>0, <2>1, <2>2, SetComes
<1> QED
  BY <1>1, <1>2, <1>3, <1>4, <1>5, <1>6, <1>7, <1>8, <1>9, <1>10 DEF LineCommands

\* Any line of a client.
LEMMA ExecuteLineComes ==
  ASSUME NEW s, "m" \in DOMAIN s, MemoryOK(s.m), NEW l \in Lines, NEW junk
  PROVE  Comes(s, ExecuteLine(s, l, junk).s)
<1>0. l.cmd \in LineCommands /\ l.n \in Nat /\ l.v \in Int
  BY LinesAssumption
<1>1. Comes(s, s)
  BY ReadsKept DEF Comes
<1>2. \/ l.cmd # "gcode" /\ ExecuteLine(s, l, junk) = SystemLine(s, l, junk)
      \/ ExecuteLine(s, l, junk).s \in {s, GcExecuteLine(s, l.words, FALSE, junk).s}
  BY DEF ExecuteLine, Answer
<1> QED
  BY <1>0, <1>1, <1>2, SystemLineComes, GcodeComes

\* A startup line that is read and executed.
LEMMA StartupLineComes ==
  ASSUME NEW s, "m" \in DOMAIN s, MemoryOK(s.m), NEW n \in Nat
  PROVE  Comes(s, StartupLine(s, n))
<1> DEFINE r == ReadStartup(s.m, n)
           t == [s EXCEPT !.m = r.m]
<1>1. StartupLine(s, n) \in {t, GcExecuteLine(t, r.value, FALSE, LetterBit("F")).s}
  BY DEF StartupLine
<1>2. Kept(s.m, r.m)
  BY ReadsKept
<1> HIDE DEF r
<1>3. Comes(s, t)
  BY <1>2, SetComes
<1> HIDE DEF t
<1>4. Comes(t, GcExecuteLine(t, r.value, FALSE, LetterBit("F")).s)
  BY <1>3, GcodeComes DEF Comes, Kept
<1>5. Comes(s, GcExecuteLine(t, r.value, FALSE, LetterBit("F")).s)
  BY <1>3, <1>4, Chain
<1> QED
  BY <1>1, <1>3, <1>5

\* The start of the main loop: the parser reads its offsets, and the startup lines are executed.
LEMMA RestartedComes ==
  ASSUME NEW s, "m" \in DOMAIN s, MemoryOK(s.m)
  PROVE  Comes(s, Restarted(s))
<1> DEFINE g == GcInit(s.m)
           t == [s EXCEPT !.m = g.m, !.gc = [g.gc EXCEPT !.pos = s.pos], !.plan = s.pos, !.path = <<>>,
                     !.cool = FALSE, !.abort = FALSE, !.st = IF s.st = "ALARM" THEN s.st ELSE "IDLE"]
           u == StartupLine(t, 0)
           v == StartupLine(u, 1)
<1>1. Restarted(s) \in {t, v}
  BY DEF Restarted
<1>2. Kept(s.m, g.m)
  BY ReadsKept DEF GcInit
<1> HIDE DEF g
<1>3. Comes(s, t)
  BY <1>2 DEF Comes
<1> HIDE DEF t
<1>4. Comes(t, u)
  BY <1>3, StartupLineComes DEF Comes, Kept
<1>5. Comes(s, u)
  BY <1>3, <1>4, Chain
<1> HIDE DEF u
<1>6. Comes(u, v)
  BY <1>5, StartupLineComes DEF Comes, Kept
<1> HIDE DEF v
<1>7. Comes(s, v)
  BY <1>5, <1>6, Chain
<1> QED
  BY <1>1, <1>3, <1>7

\* A boot reads the settings or restores all, and the machine agrees with its memory.
LEMMA BootedOK ==
  ASSUME NEW s, "m" \in DOMAIN s, MemoryOK(s.m), s.m.image = s.m.disk
  PROVE  MemoryOK(Booted(s).m) /\ Agrees(Booted(s).m)
<1> DEFINE n == SettingsInit(s.m)
           t == [s EXCEPT !.m = n, !.st = IF n.set.homing THEN "ALARM" ELSE "IDLE"]
<1>1. MemoryOK(n) /\ Agrees(n)
  BY SettingsInitOK
<1>2. Booted(s) = Restarted(t)
  BY DEF Booted
<1> HIDE DEF n
<1>3. "m" \in DOMAIN t /\ t.m = n
  OBVIOUS
<1> HIDE DEF t
<1>4. Comes(t, Restarted(t))
  BY <1>1, <1>3, RestartedComes
<1> QED
  BY <1>1, <1>2, <1>3, <1>4 DEF Comes, Kept

----------------------------------------------------------------------------
(* The steps, and the theorems *)

\* An action forgets the images the call committed, and the memory stays as it should be.
LEMMA BecomeKept ==
  ASSUME NEW s, MemoryOK(s.m), Become(s)
  PROVE  MemoryOK(mem') /\ (Agrees(s.m) => Agrees(mem'))
<1> DEFINE n == [s.m EXCEPT !.log = {}]
<1>1. mem' = n
  BY DEF Become
<1>2. /\ DOMAIN n = {"set", "image", "disk", "log"} /\ n.set = s.m.set /\ n.image = s.m.image
      /\ n.disk = s.m.disk /\ n.log = {}
  BY DEF MemoryOK
<1> HIDE DEF n
<1>3. MemoryOK(n)
  BY <1>2 DEF MemoryOK
<1>4. Agrees(s.m) => Agrees(n)
  BY <1>2 DEF Agrees
<1>5. /\ DOMAIN mem' = DOMAIN n /\ mem'.set = n.set /\ mem'.image = n.image /\ mem'.disk = n.disk
      /\ mem'.log = n.log
  BY <1>1
<1> QED
  BY <1>1, <1>3, <1>4

\* The power goes: the memory is what was committed.
LEMMA OffOK ==
  ASSUME NEW disk, ImageOK(disk), Become(OffMachine(disk))
  PROVE  MemoryOK(mem') /\ mem'.image = mem'.disk
<1> DEFINE s == OffMachine(disk)
<1>1. s.m = MemoryAtPowerUp(disk)
  BY DEF OffMachine
<1>2. MemoryOK(MemoryAtPowerUp(disk)) /\ MemoryAtPowerUp(disk).image = MemoryAtPowerUp(disk).disk
  BY DefaultsSafe DEF MemoryAtPowerUp, MemoryOK
<1>3. mem' = [s.m EXCEPT !.log = {}]
  BY DEF Become
<1> HIDE DEF s
<1>4. MemoryOK(mem')
  BY <1>1, <1>2, BecomeKept DEF s
<1>5. mem'.image = s.m.image /\ mem'.disk = s.m.disk
  BY <1>1, <1>2, <1>3 DEF MemoryOK
<1> QED
  BY <1>1, <1>2, <1>4, <1>5

\* An erased sector holds no settings.
LEMMA ErasedOK == ImageOK(ErasedImage)
  BY DEF ErasedImage, ImageOK

\* The power goes at rest.
LEMMA PowerOffOK ==
  ASSUME NEW disk, ImageOK(disk), PowerOff(disk)
  PROVE  StoreInv'
  BY OffOK DEF PowerOff, StoreInv

\* The power goes during a call: what is left is one of the images committed, or an erased sector.
LEMMA CutOK ==
  ASSUME NEW m, MemoryOK(m), CutDuring(m)
  PROVE  StoreInv'
<1>1. PICK disk \in m.log \cup {ErasedImage} : PowerOff(disk)
  BY DEF CutDuring
<1>2. ImageOK(disk)
  BY <1>1, ErasedOK DEF MemoryOK
<1> QED
  BY <1>1, <1>2, PowerOffOK

\* A step of the powered machine, from a memory that comes from the one before.
LEMMA OnOK ==
  ASSUME StoreInv, on, NEW s, Kept(mem, s.m), Become(s), UNCHANGED on
  PROVE  StoreInv'
<1>1. MemoryOK(s.m) /\ Agrees(s.m)
  BY DEF StoreInv, Kept
<1>2. MemoryOK(mem') /\ Agrees(mem')
  BY <1>1, BecomeKept
<1> QED
  BY <1>2 DEF StoreInv

\* The memory of the machine as it is.
LEMMA NowM == "m" \in DOMAIN Now /\ Now.m = mem
  BY DEF Now

\* A line, whether it is executed to its end, cut short by a reset or by the power.
LEMMA LinePreserves ==
  ASSUME StoreInv, LineArrives
  PROVE  StoreInv'
<1>1. PICK l \in Lines : \E junk \in Junk(l) : \E r \in {ExecuteLine(Now, l, junk)} :
                          Line(l, r) \/ ResetInLine(r) \/ PowerFailsInLine(r)
  BY DEF LineArrives
<1>2. PICK junk \in Junk(l) : \E r \in {ExecuteLine(Now, l, junk)} :
                          Line(l, r) \/ ResetInLine(r) \/ PowerFailsInLine(r)
  BY <1>1
<1> DEFINE r == ExecuteLine(Now, l, junk)
<1>3. Line(l, r) \/ ResetInLine(r) \/ PowerFailsInLine(r)
  BY <1>2
<1>4. on
  BY DEF LineArrives
<1>5. Comes(Now, r.s)
  BY NowM, ExecuteLineComes DEF StoreInv
<1> HIDE DEF r
<1>6. Kept(mem, r.s.m) /\ MemoryOK(r.s.m)
  BY <1>5, NowM DEF Comes, Kept
<1>7. CASE Line(l, r)
  BY <1>4, <1>6, <1>7, OnOK DEF Line
<1>8. CASE ResetInLine(r)
  <2> DEFINE w == [Now EXCEPT !.st = IF Now.st = "IDLE" THEN "CYCLE" ELSE Now.st, !.m = r.s.m]
             z(p) == [McReset(w) EXCEPT !.pos = p]
  <2>1. \E p \in StopsAt(w) : Become(z(p))
    BY <1>8 DEF ResetInLine
  <2>2. "m" \in DOMAIN w /\ w.m = r.s.m
    BY NowM
  <2> HIDE DEF w
  <2>3. Same(w, McReset(w))
    BY <2>2, McResetSame
  <2>4. ASSUME NEW p PROVE z(p).m = r.s.m
    BY <2>2, <2>3 DEF Same
  <2> HIDE DEF z
  <2>5. PICK p \in StopsAt(w) : Become(z(p))
    BY <2>1
  <2>6. Kept(mem, z(p).m)
    BY <1>6, <2>4
  <2>7. UNCHANGED on
    BY <1>8 DEF ResetInLine
  <2> QED
    BY <1>4, <2>5, <2>6, <2>7, OnOK
<1>9. CASE PowerFailsInLine(r)
  BY <1>6, <1>9, CutOK DEF PowerFailsInLine
<1> QED
  BY <1>3, <1>7, <1>8, <1>9

\* The steps that leave the memory alone.
LEMMA MovesPreserve ==
  ASSUME StoreInv, Reset \/ CycleStart \/ Move \/ JogCancel
  PROVE  StoreInv'
<1>0. on /\ UNCHANGED on
  BY DEF Reset, CycleStart, Move, JogCancel
<1>1. Kept(mem, mem)
  BY DEF StoreInv, Kept
<1>2. \E s : s.m = mem /\ Become(s)
  <2>1. CASE Reset
    <3>1. PICK p \in StopsAt(Now) : Become([McReset(Now) EXCEPT !.pos = p])
      BY <2>1 DEF Reset
    <3>2. Same(Now, McReset(Now))
      BY NowM, McResetSame
    <3>3. [McReset(Now) EXCEPT !.pos = p].m = mem
      BY <3>2, NowM DEF Same
    <3> QED
      BY <3>1, <3>3
  <2>2. CASE CycleStart
    <3>1. Become([Now EXCEPT !.st = "CYCLE"]) /\ [Now EXCEPT !.st = "CYCLE"].m = mem
      BY <2>2, NowM DEF CycleStart
    <3> QED
      BY <3>1
  <2>3. CASE Move
    <3> DEFINE s == [Now EXCEPT !.pos = Head(path), !.path = Tail(path),
                                !.st = IF Tail(path) = <<>> THEN "IDLE" ELSE Now.st]
    <3>1. Become(s)
      BY <2>3 DEF Move
    <3>2. s.m = mem
      BY NowM
    <3> HIDE DEF s
    <3> QED
      BY <3>1, <3>2
  <2>4. CASE JogCancel
    <3> DEFINE s(p) == [Now EXCEPT !.pos = p, !.plan = p, !.gc.pos = p, !.path = <<>>, !.st = "IDLE"]
    <3>1. \E p \in StopsAt(Now) : Become(s(p))
      BY <2>4 DEF JogCancel
    <3>2. ASSUME NEW p PROVE s(p).m = mem
      BY NowM
    <3> HIDE DEF s
    <3> QED
      BY <3>1, <3>2
  <2> QED
    BY <2>1, <2>2, <2>3, <2>4
<1>3. PICK s : s.m = mem /\ Become(s)
  BY <1>2
<1>4. Kept(mem, s.m)
  BY <1>1, <1>3
<1> QED
  BY <1>0, <1>3, <1>4, OnOK

\* The starts of the main loop, and the power.
LEMMA StartsPreserve ==
  ASSUME StoreInv, Reinit \/ Boot \/ PowerFails \/ PowerFailsAtStart
  PROVE  StoreInv'
<1>0. MemoryOK(Now.m) /\ "m" \in DOMAIN Now /\ on \in BOOLEAN
  BY NowM DEF StoreInv
<1>1. Comes(Now, Restarted(Now))
  BY <1>0, RestartedComes
<1>2. Kept(mem, Restarted(Now).m) /\ MemoryOK(Restarted(Now).m)
  BY <1>1, NowM DEF Comes, Kept
<1>3. ~on => MemoryOK(Booted(Now).m) /\ Agrees(Booted(Now).m)
  BY <1>0, NowM, BootedOK DEF StoreInv
<1>4. CASE Reinit
  BY <1>2, <1>4, OnOK DEF Reinit
<1>5. CASE Boot
  <2>1. MemoryOK(mem') /\ Agrees(mem') /\ on' = TRUE
    BY <1>3, <1>5, BecomeKept DEF Boot
  <2> QED
    BY <2>1 DEF StoreInv
<1>6. CASE PowerFails
  <2>1. ImageOK(mem.disk)
    BY DEF StoreInv, MemoryOK
  <2> QED
    BY <1>6, <2>1, PowerOffOK DEF PowerFails
<1>7. CASE PowerFailsAtStart
  <2> DEFINE m == (IF on THEN Restarted(Now) ELSE Booted(Now)).m
  <2>1. CutDuring(m)
    BY <1>7 DEF PowerFailsAtStart
  <2>2. MemoryOK(m)
    BY <1>0, <1>2, <1>3
  <2> HIDE DEF m
  <2> QED
    BY <2>1, <2>2, CutOK
<1> QED
  BY <1>4, <1>5, <1>6, <1>7

\* So is the memory of the machine that has never been powered.
LEMMA InitStore == Init => StoreInv
<1> SUFFICES ASSUME Init PROVE StoreInv
  OBVIOUS
<1>1. mem = MemoryAtPowerUp(ErasedImage) /\ on = FALSE
  BY DEF Init, OffMachine
<1>2. MemoryOK(MemoryAtPowerUp(ErasedImage))
  BY ErasedOK, DefaultsSafe DEF MemoryAtPowerUp, MemoryOK
<1>3. MemoryAtPowerUp(ErasedImage).image = MemoryAtPowerUp(ErasedImage).disk
  BY DEF MemoryAtPowerUp
<1> QED
  BY <1>1, <1>2, <1>3 DEF StoreInv

\* In every state the memory is as it should be, and a powered machine agrees with it.
THEOREM StoreInvCorrect == Spec => []StoreInv
<1>1. Init => StoreInv
  BY InitStore
<1>2. StoreInv /\ [Next]_vars => StoreInv'
  <2> SUFFICES ASSUME StoreInv, [Next]_vars PROVE StoreInv'
    OBVIOUS
  <2>1. CASE LineArrives
    BY <2>1, LinePreserves
  <2>2. CASE Reset \/ CycleStart \/ Move \/ JogCancel
    BY <2>2, MovesPreserve
  <2>3. CASE Reinit \/ Boot \/ PowerFails \/ PowerFailsAtStart
    BY <2>3, StartsPreserve
  <2>4. CASE UNCHANGED vars
    BY <2>4 DEF StoreInv, vars
  <2> QED
    BY <2>1, <2>2, <2>3, <2>4 DEF Next
<1> QED
  BY <1>1, <1>2, PTL DEF Spec

\* Soft limits are never on without homing, in force or stored (settings.cpp:288-303).
THEOREM SoftNeedsHomingCorrect == Spec => []SoftNeedsHoming
<1>1. StoreInv => SoftNeedsHoming
  BY DEF StoreInv, MemoryOK, ImageOK, SafeSettings, SoftNeedsHoming
<1> QED
  BY <1>1, StoreInvCorrect, PTL

\* Between lines the machine works with what it would find after a power cut, but for the texts
\* that `$RST=*` has emptied without committing (settings.cpp:140-157).
THEOREM DurableCorrect == Spec => []Durable
<1>1. StoreInv => Durable
  BY DEF StoreInv, Durable
<1> QED
  BY <1>1, StoreInvCorrect, PTL

----------------------------------------------------------------------------
(* Induction *)

\* A set of natural numbers that is not empty has a least element.
LEMMA LeastOf ==
  ASSUME NEW T, T \subseteq Nat, T # {}
  PROVE  \E x \in T : \A y \in T : x <= y
<1> DEFINE R == {ss \in Nat \X Nat : ss[1] < ss[2]}
<1>1. IsWellFoundedOn(R, Nat)
  BY NatLessThanWellFounded DEF OpToRel
<1> HIDE DEF R
<1>2. PICK x \in T : \A y \in T : ~(<<y, x>> \in R)
  BY <1>1, WFMin
<1>3. \A y \in T : ~(y < x)
  BY <1>2 DEF R
<1> QED
  BY <1>3

\* What holds of 0, and of n + 1 whenever it holds of n, holds of all of them: the library states it
\* of an operator, which no prover here can instantiate; of a set it needs none.
LEMMA SetInduction ==
  ASSUME NEW T, 0 \in T, \A n \in Nat : n \in T => n + 1 \in T
  PROVE  Nat \subseteq T
<1> SUFFICES ASSUME Nat \ T # {} PROVE FALSE
  OBVIOUS
<1>1. PICK x \in Nat \ T : \A y \in Nat \ T : x <= y
  BY LeastOf
<1>2. x - 1 \in T
  BY <1>1
<1> QED
  BY <1>1, <1>2

----------------------------------------------------------------------------
(* The words of a line *)

\* f is the block after each of the first n words.
Reads(f, n, b, words) ==
  f = [i \in 0..n |-> IF i = 0 THEN b ELSE ParseWord(f[i - 1], words[i])]

\* Such an f exists, whatever the words.
LEMMA ReadsExist ==
  ASSUME NEW b, NEW words
  PROVE  \A n \in Nat : \E f : Reads(f, n, b, words)
<1> DEFINE T == {n \in Nat : \E f : Reads(f, n, b, words)}
<1>1. 0 \in T
  <2> DEFINE f == [i \in 0..0 |-> b]
  <2>1. f = [i \in 0..0 |-> IF i = 0 THEN b ELSE ParseWord(f[i - 1], words[i])]
    OBVIOUS
  <2> QED
    BY <2>1 DEF Reads
<1>2. ASSUME NEW n \in Nat, n \in T PROVE n + 1 \in T
  <2>1. PICK f : Reads(f, n, b, words)
    BY <1>2
  <2> DEFINE g == [i \in 0..n + 1 |-> IF i = n + 1 THEN ParseWord(f[n], words[n + 1]) ELSE f[i]]
  <2>2. ASSUME NEW i \in 0..n + 1 PROVE g[i] = IF i = 0 THEN b ELSE ParseWord(g[i - 1], words[i])
    <3>1. CASE i = 0
      BY <2>1, <3>1 DEF Reads
    <3>2. CASE i \in 1..n
      BY <2>1, <3>2 DEF Reads
    <3>3. CASE i = n + 1
      BY <3>3
    <3> QED
      BY <3>1, <3>2, <3>3
  <2>3. g = [i \in 0..n + 1 |-> g[i]]
    OBVIOUS
  <2> HIDE DEF g
  <2>4. Reads(g, n + 1, b, words)
    BY <2>2, <2>3 DEF Reads
  <2> QED
    BY <2>4
<1> HIDE DEF T
<1>3. Nat \subseteq T
  BY <1>1, <1>2, SetInduction
<1> QED
  BY <1>3 DEF T

\* The block of a line is the one after its last word.
LEMMA ParseReads ==
  ASSUME NEW g, NEW words, Len(words) \in Nat, NEW jog, NEW junk
  PROVE  \E f : /\ Reads(f, Len(words), NewBlock(g, jog, junk), words)
                /\ Parse(g, words, jog, junk) = f[Len(words)]
<1> DEFINE b == NewBlock(g, jog, junk)
           n == Len(words)
           f == CHOOSE f : f = [i \in 0..n |-> IF i = 0 THEN b ELSE ParseWord(f[i - 1], words[i])]
<1>1. Parse(g, words, jog, junk) = f[n]
  BY DEF Parse
<1>2. n \in Nat
  OBVIOUS
<1> HIDE DEF b, n
<1>3. PICK h : Reads(h, n, b, words)
  BY <1>2, ReadsExist
<1>4. h = [i \in 0..n |-> IF i = 0 THEN b ELSE ParseWord(h[i - 1], words[i])]
  BY <1>3 DEF Reads
<1>5. f = [i \in 0..n |-> IF i = 0 THEN b ELSE ParseWord(f[i - 1], words[i])]
  BY <1>4
<1> HIDE DEF f
<1>6. Reads(f, n, b, words)
  BY <1>5 DEF Reads
<1> QED
  BY <1>1, <1>6 DEF n, b

\* The letters.
LEMMA LettersAre ==
  ToSet(Letters) = {"F", "I", "J", "K", "L", "N", "P", "R", "S", "T", "X", "Y", "Z"}
<1>1. DOMAIN Letters = 1..13
  BY DEF Letters
<1>2. \A x : x \in ToSet(Letters) <=> \E i \in 1..13 : x = Letters[i]
  BY <1>1 DEF ToSet
<1>3. /\ Letters[1] = "F" /\ Letters[2] = "I" /\ Letters[3] = "J" /\ Letters[4] = "K"
      /\ Letters[5] = "L" /\ Letters[6] = "N" /\ Letters[7] = "P" /\ Letters[8] = "R"
      /\ Letters[9] = "S" /\ Letters[10] = "T" /\ Letters[11] = "X" /\ Letters[12] = "Y"
      /\ Letters[13] = "Z"
  BY DEF Letters
<1>4. \A i \in 1..13 : i \in {1, 2, 3, 4, 5, 6, 7, 8, 9, 10, 11, 12, 13}
  OBVIOUS
<1>5. \A x : x \in ToSet(Letters) => x \in {"F", "I", "J", "K", "L", "N", "P", "R", "S", "T", "X", "Y", "Z"}
  BY <1>2, <1>3, <1>4
<1>6. \A x \in {"F", "I", "J", "K", "L", "N", "P", "R", "S", "T", "X", "Y", "Z"} : x \in ToSet(Letters)
  BY <1>2, <1>3
<1> QED
  BY <1>5, <1>6

\* A word that selects a coordinate system is in the modal group of them, and in no other.
LEMMA SystemGroup ==
  ASSUME NEW c \in DOMAIN CoordSystems
  PROVE  GroupOf(c) = G12Group /\ c \in Commands
<1>1. c \in {"G54", "G55", "G56", "G57", "G58", "G59"}
  BY DEF CoordSystems
<1>2. DOMAIN Groups = 1..14 /\ Groups[10] = DOMAIN CoordSystems
  BY DEF Groups
<1>3. ASSUME NEW i \in 1..14, c \in Groups[i] PROVE i = 10
  <2>1. i \in {1, 2, 3, 4, 5, 6, 7, 8, 9, 10, 11, 12, 13, 14}
    OBVIOUS
  <2>2. /\ c \notin Groups[1] /\ c \notin Groups[2]
    BY <1>1 DEF Groups, NonModalCommands, AxisCommands, MotionCommands
  <2>3. /\ c \notin Groups[3] /\ c \notin Groups[4] /\ c \notin Groups[5] /\ c \notin Groups[6]
        /\ c \notin Groups[7] /\ c \notin Groups[8] /\ c \notin Groups[9]
    BY <1>1 DEF Groups
  <2>4. /\ c \notin Groups[11] /\ c \notin Groups[12] /\ c \notin Groups[13] /\ c \notin Groups[14]
    BY <1>1 DEF Groups
  <2> QED
    BY <1>3, <2>1, <2>2, <2>3, <2>4
<1>4. \A i \in DOMAIN Groups : c \in Groups[i] <=> i = 10
  BY <1>2, <1>3
<1>5. (CHOOSE i \in DOMAIN Groups : c \in Groups[i]) = 10
  BY <1>2, <1>4
<1>6. c \in Commands
  BY <1>2 DEF Commands
<1> QED
  BY <1>5, <1>6 DEF GroupOf, G12Group

\* The fields of a block.
BlockFields == {"ok", "jog", "bit", "groups", "axis", "action", "tool", "words", "v", "modal",
                "coord", "record", "data", "target", "rate"}

\* A block the words of a line may make, in the parser's state g: a system is selected by a word
\* of the systems' group only.
Block(g, b) ==
  /\ DOMAIN b = BlockFields
  /\ b.modal \in Modals
  /\ b.v \in [ToSet(Letters) -> Int] /\ b.v["F"] >= 0 /\ b.v["P"] >= 0
  /\ b.modal.sel # g.modal.sel => G12Group \in b.groups

\* Modes of the groups.
LEMMA GroupModes ==
  /\ "G1" \in Groups[2] /\ "G0" \in Groups[2] /\ "G17" \in Groups[3] /\ "G90" \in Groups[4]
  /\ "G94" \in Groups[6] /\ "G21" \in Groups[7]
  BY DEF Groups, MotionCommands

\* The modes of a jog.
LEMMA JogModes ==
  ASSUME NEW modal \in Modals
  PROVE  LET j == [modal EXCEPT !.motion = "G1", !.feed = "G94"] IN j \in Modals /\ j.sel = modal.sel
  BY GroupModes DEF Modals

\* It starts as one.
LEMMA NewBlockOK ==
  ASSUME NEW g \in Parsers, NEW jog, NEW junk
  PROVE  Block(g, NewBlock(g, jog, junk))
<1> DEFINE modal == IF jog THEN [g.modal EXCEPT !.motion = "G1", !.feed = "G94"] ELSE g.modal
<1>1. g.modal \in Modals
  BY DEF Parsers
<1>2. modal \in Modals /\ modal.sel = g.modal.sel
  <2>1. /\ [g.modal EXCEPT !.motion = "G1", !.feed = "G94"] \in Modals
        /\ [g.modal EXCEPT !.motion = "G1", !.feed = "G94"].sel = g.modal.sel
    BY <1>1, JogModes
  <2> QED
    BY <1>1, <2>1
<1>3. NoValues \in [ToSet(Letters) -> Int] /\ NoValues["F"] = 0 /\ NoValues["P"] = 0
  BY LettersAre DEF NoValues
<1> HIDE DEF modal
<1>4. /\ DOMAIN NewBlock(g, jog, junk) = BlockFields
      /\ NewBlock(g, jog, junk).modal = modal /\ NewBlock(g, jog, junk).v = NoValues
  BY DEF NewBlock, modal, BlockFields
<1> QED
  BY <1>2, <1>3, <1>4 DEF Block

\* A letter and its value: those that are never negative are the feed rate's and P's.
LEMMA ValueWordOK ==
  ASSUME NEW g, NEW b, Block(g, b), NEW l \in ToSet(Letters), NEW x \in Int
  PROVE  Block(g, ValueWord(b, l, x))
<1>1. CASE l \in b.words \/ (l \in {"F", "N", "P", "T", "S"} /\ x < 0)
  <2>1. ValueWord(b, l, x) = [b EXCEPT !.ok = FALSE]
    BY <1>1 DEF ValueWord, Failed
  <2> QED
    BY <2>1 DEF Block
<1>2. CASE ~(l \in b.words \/ (l \in {"F", "N", "P", "T", "S"} /\ x < 0))
  <2> DEFINE v == [b.v EXCEPT ![l] = x]
             n == [b EXCEPT !.words = b.words \cup {l}, !.v[l] = x, !.bit = LetterBit(l)]
  <2>1. ValueWord(b, l, x) = n
    BY <1>2 DEF ValueWord
  <2>2. DOMAIN n = DOMAIN b /\ n.v = v /\ n.modal = b.modal /\ n.groups = b.groups
    BY DEF Block
  <2>3. v \in [ToSet(Letters) -> Int] /\ v["F"] >= 0 /\ v["P"] >= 0
    BY <1>2, LettersAre DEF Block
  <2> HIDE DEF n, v
  <2> QED
    BY <2>1, <2>2, <2>3 DEF Block
<1> QED
  BY <1>1, <1>2

\* A modal group is taken, or the block fails.
LEMMA TakeGroupOK ==
  ASSUME NEW g, NEW b, NEW bit,
         DOMAIN b = BlockFields,
         b.modal \in Modals,
         b.v \in [ToSet(Letters) -> Int], b.v["F"] >= 0, b.v["P"] >= 0,
         b.modal.sel # g.modal.sel => G12Group \in b.groups \cup {bit}
  PROVE  Block(g, TakeGroup(b, bit))
<1>1. CASE bit \in b.groups
  <2> DEFINE n == [b EXCEPT !.ok = FALSE]
  <2>1. TakeGroup(b, bit) = n
    BY <1>1 DEF TakeGroup, Failed
  <2>2. DOMAIN n = DOMAIN b /\ n.v = b.v /\ n.modal = b.modal /\ n.groups = b.groups
    OBVIOUS
  <2> HIDE DEF n
  <2> QED
    BY <1>1, <2>1, <2>2 DEF Block
<1>2. CASE bit \notin b.groups
  <2> DEFINE n == [b EXCEPT !.groups = b.groups \cup {bit}, !.bit = bit]
  <2>1. TakeGroup(b, bit) = n
    BY <1>2 DEF TakeGroup
  <2>2. DOMAIN n = DOMAIN b /\ n.v = b.v /\ n.modal = b.modal /\ n.groups = b.groups \cup {bit}
    OBVIOUS
  <2> HIDE DEF n
  <2> QED
    BY <2>1, <2>2 DEF Block
<1> QED
  BY <1>1, <1>2

\* What a command makes of the modes; it selects a system only if it names one.
LEMMA ModalOfOK ==
  ASSUME NEW modal \in Modals, NEW c
  PROVE  /\ ModalOf(modal, c) \in Modals
         /\ c \notin DOMAIN CoordSystems => ModalOf(modal, c).sel = modal.sel
<1>1. /\ c \in Groups[2] => [modal EXCEPT !.motion = c] \in Modals
      /\ c \in Groups[3] => [modal EXCEPT !.plane = c] \in Modals
      /\ c \in Groups[4] => [modal EXCEPT !.distance = c] \in Modals
      /\ c \in Groups[6] => [modal EXCEPT !.feed = c] \in Modals
      /\ c \in Groups[7] => [modal EXCEPT !.units = c] \in Modals
      /\ [modal EXCEPT !.coolant = TRUE] \in Modals /\ [modal EXCEPT !.coolant = FALSE] \in Modals
  BY DEF Modals
<1>2. /\ [modal EXCEPT !.motion = c].sel = modal.sel /\ [modal EXCEPT !.plane = c].sel = modal.sel
      /\ [modal EXCEPT !.distance = c].sel = modal.sel /\ [modal EXCEPT !.feed = c].sel = modal.sel
      /\ [modal EXCEPT !.units = c].sel = modal.sel /\ [modal EXCEPT !.flow = c].sel = modal.sel
      /\ [modal EXCEPT !.coolant = TRUE].sel = modal.sel /\ [modal EXCEPT !.coolant = FALSE].sel = modal.sel
  BY DEF Modals
<1>3. c \in {"M0", "M2", "M30"} => [modal EXCEPT !.flow = c] \in Modals
  BY DEF Modals
<1>4. c \in DOMAIN CoordSystems => [modal EXCEPT !.sel = CoordSystems[c]] \in Modals
  <2>1. c \in DOMAIN CoordSystems => CoordSystems[c] \in 0..5
    BY DEF CoordSystems
  <2> QED
    BY <2>1 DEF Modals
<1>5. \/ c \in Groups[2] /\ ModalOf(modal, c) = [modal EXCEPT !.motion = c]
      \/ c \in Groups[3] /\ ModalOf(modal, c) = [modal EXCEPT !.plane = c]
      \/ c \in Groups[4] /\ ModalOf(modal, c) = [modal EXCEPT !.distance = c]
      \/ c \in Groups[6] /\ ModalOf(modal, c) = [modal EXCEPT !.feed = c]
      \/ c \in Groups[7] /\ ModalOf(modal, c) = [modal EXCEPT !.units = c]
      \/ ModalOf(modal, c) \in {[modal EXCEPT !.coolant = TRUE], [modal EXCEPT !.coolant = FALSE], modal}
      \/ c \in {"M0", "M2", "M30"} /\ ModalOf(modal, c) = [modal EXCEPT !.flow = c]
      \/ c \in DOMAIN CoordSystems /\ ModalOf(modal, c) = [modal EXCEPT !.sel = CoordSystems[c]]
  BY DEF ModalOf
<1> QED
  BY <1>1, <1>2, <1>3, <1>4, <1>5

\* A command.
LEMMA CommandWordOK ==
  ASSUME NEW g, NEW b, Block(g, b), NEW c
  PROVE  Block(g, CommandWord(b, c))
<1> DEFINE claim == AxisClaim(c)
           taken == [b EXCEPT !.axis = IF claim = "none" THEN b.axis ELSE claim,
                              !.action = IF c \in NonModalCommands THEN c ELSE b.action,
                              !.tool = IF claim = "tool" THEN c ELSE b.tool,
                              !.modal = ModalOf(b.modal, c)]
<1>1. CommandWord(b, c) \in {TakeGroup(b, b.bit), [b EXCEPT !.ok = FALSE], TakeGroup(taken, GroupOf(c))}
  BY DEF CommandWord, Failed
<1>2. Block(g, TakeGroup(b, b.bit))
  BY TakeGroupOK DEF Block
<1>3. Block(g, [b EXCEPT !.ok = FALSE])
  BY DEF Block
<1>4. /\ DOMAIN taken = DOMAIN b /\ taken.v = b.v /\ taken.groups = b.groups
      /\ taken.modal = ModalOf(b.modal, c)
  BY DEF Block
<1>5. /\ ModalOf(b.modal, c) \in Modals
      /\ c \notin DOMAIN CoordSystems => ModalOf(b.modal, c).sel = b.modal.sel
      /\ c \in DOMAIN CoordSystems => GroupOf(c) = G12Group
  BY ModalOfOK, SystemGroup DEF Block
<1> HIDE DEF taken
<1>6. taken.modal.sel # g.modal.sel => G12Group \in taken.groups \cup {GroupOf(c)}
  BY <1>4, <1>5 DEF Block
<1>7. Block(g, TakeGroup(taken, GroupOf(c)))
  BY <1>4, <1>5, <1>6, TakeGroupOK DEF Block
<1> QED
  BY <1>1, <1>2, <1>3, <1>7

\* The words of a line, one after the other.
LEMMA ParseOK ==
  ASSUME NEW g \in Parsers, NEW words \in Texts, NEW jog, NEW junk
  PROVE  Block(g, Parse(g, words, jog, junk))
<1> DEFINE n == Len(words)
           b == NewBlock(g, jog, junk)
<1>1. n \in Nat /\ \A i \in 1..n : words[i][2] \in Int
  BY DEF Texts
<1>2. PICK f : Reads(f, n, b, words) /\ Parse(g, words, jog, junk) = f[n]
  BY <1>1, ParseReads
<1> HIDE DEF n, b
<1> DEFINE T == {i \in Nat : i <= n => Block(g, f[i])}
<1>3. 0 \in T
  BY <1>1, <1>2, NewBlockOK DEF Reads, b
<1>4. ASSUME NEW i \in Nat, i \in T PROVE i + 1 \in T
  <2> SUFFICES ASSUME i + 1 <= n PROVE Block(g, f[i + 1])
    OBVIOUS
  <2>1. Block(g, f[i])
    BY <1>1, <1>4
  <2>2. i + 1 \in 0..n /\ i + 1 \in 1..n /\ i + 1 # 0 /\ (i + 1) - 1 = i
    BY <1>1
  <2>3. f[i + 1] = ParseWord(f[i], words[i + 1])
    BY <1>2, <2>2 DEF Reads
  <2>4. words[i + 1][2] \in Int
    BY <1>1, <2>2
  <2> QED
    BY <2>1, <2>3, <2>4, ValueWordOK, CommandWordOK DEF ParseWord
<1> HIDE DEF T
<1>5. n \in T
  BY <1>1, <1>3, <1>4, SetInduction
<1> QED
  BY <1>1, <1>2, <1>5 DEF T

----------------------------------------------------------------------------
(* The memory: what its records hold *)

Typed(m) ==
  /\ MemoryOK(m) /\ RecordsOK(m.image) /\ RecordsOK(m.disk)
  /\ \A i \in m.log : RecordsOK(i)

\* n comes from m, and its good coordinate records are those of m; or some have been stored.
Repaired(m, n) ==
  /\ Typed(n) /\ (Tidy(m) => Tidy(n))
  /\ \A k \in Systems : m.image.coord[k] # Bad => n.image.coord[k] = m.image.coord[k]
Grown(m, n) ==
  /\ Typed(n) /\ (Tidy(m) => Tidy(n))
  /\ \A k \in Systems : m.image.coord[k] # Bad => n.image.coord[k] # Bad

\* A commit leaves nothing in the image that is not in flash.
LEMMA CommitTyped ==
  ASSUME NEW m, DOMAIN m = {"set", "image", "disk", "log"}, RecordsOK(m.image),
         \A i \in m.log : RecordsOK(i), MemoryOK(Commit(m))
  PROVE  Typed(Commit(m)) /\ Tidy(Commit(m)) /\ Commit(m).image = m.image /\ Commit(m).disk = m.image
<1>1. /\ Commit(m).image = m.image /\ Commit(m).disk = m.image
      /\ Commit(m).log = m.log \cup {m.image}
  BY DEF Commit
<1>2. RecordsOK(Commit(m).image) /\ RecordsOK(Commit(m).disk) /\ \A i \in Commit(m).log : RecordsOK(i)
  BY <1>1
<1> QED
  BY <1>1, <1>2 DEF Typed, Tidy

\* A coordinate record, written and committed.
LEMMA WriteCoordTyped ==
  ASSUME NEW m, Typed(m), NEW k \in Systems, NEW v \in Point
  PROVE  LET w == WriteCoord(m, k, v)
         IN  /\ Typed(w) /\ Tidy(w) /\ w.set = m.set /\ w.disk.startup = m.image.startup
             /\ w.image.coord = [m.image.coord EXCEPT ![k] = v]
<1> DEFINE n == [m EXCEPT !.image.coord[k] = v]
<1>1. WriteCoord(m, k, v) = Commit(n)
  BY DEF WriteCoord
<1>2. MemoryOK(WriteCoord(m, k, v))
  BY WriteCoordKept DEF Kept, Typed
<1>3. /\ DOMAIN n = {"set", "image", "disk", "log"} /\ n.set = m.set /\ n.log = m.log
      /\ n.image.coord = [m.image.coord EXCEPT ![k] = v] /\ n.image.startup = m.image.startup
  BY DEF Typed, MemoryOK, ImageOK
<1> HIDE DEF n
<1>4. [m.image.coord EXCEPT ![k] = v] \in [Systems -> Point \cup {Bad}]
  BY DEF Typed, RecordsOK
<1>5. RecordsOK(n.image)
  BY <1>3, <1>4 DEF Typed, RecordsOK
<1>6. /\ Typed(Commit(n)) /\ Tidy(Commit(n)) /\ Commit(n).image = n.image /\ Commit(n).disk = n.image
  BY <1>1, <1>2, <1>3, <1>5, CommitTyped DEF Typed
<1>7. Commit(n).set = m.set
  BY <1>3 DEF Commit
<1> QED
  BY <1>1, <1>3, <1>6, <1>7

\* The origin is a point, and no point is the mark of a bad record.
LEMMA ZeroPoint == Zero \in Point /\ Zero # Bad /\ \A p \in Point : p # Bad
  BY BadAssumption DEF Zero, Point

\* A record that is bad is reset: nothing else is stored by that, unless texts were waiting.
LEMMA ResetRepairs ==
  ASSUME NEW m, Typed(m), NEW k \in Systems, m.image.coord[k] = Bad
  PROVE  LET w == WriteCoord(m, k, Zero)
         IN  /\ Repaired(m, w) /\ w.set = m.set
             /\ Tidy(m) => w.disk.startup = m.disk.startup
<1> DEFINE w == WriteCoord(m, k, Zero)
<1>1. /\ Typed(w) /\ Tidy(w) /\ w.set = m.set /\ w.disk.startup = m.image.startup
      /\ w.image.coord = [m.image.coord EXCEPT ![k] = Zero]
  BY ZeroPoint, WriteCoordTyped
<1> HIDE DEF w
<1>2. ASSUME NEW j \in Systems, m.image.coord[j] # Bad
      PROVE  w.image.coord[j] = m.image.coord[j]
  BY <1>1, <1>2 DEF Typed, RecordsOK
<1>3. Tidy(m) => m.image.startup = m.disk.startup
  BY DEF Tidy
<1> QED
  BY <1>1, <1>2, <1>3 DEF Repaired, w

\* What a line that is refused may do to the memory.
Reset1(m, n) == n = m \/ \E k \in Systems : m.image.coord[k] = Bad /\ n = WriteCoord(m, k, Zero)

\* A memory with at most one record reset.
LEMMA Reset1OK ==
  ASSUME NEW m, Typed(m), NEW n, Reset1(m, n)
  PROVE  Repaired(m, n) /\ n.set = m.set /\ (Tidy(m) => n.disk.startup = m.disk.startup)
<1>1. Repaired(m, m)
  BY DEF Repaired
<1> QED
  BY <1>1, ResetRepairs DEF Reset1

\* A record read: its value, or the origin it is reset to.
LEMMA ReadCoordReset ==
  ASSUME NEW m, Typed(m), NEW k \in Systems
  PROVE  LET r == ReadCoord(m, k)
         IN  /\ Reset1(m, r.m) /\ r.value \in Point /\ r.ok \in BOOLEAN
             /\ r.ok => r.m = m /\ r.value = m.image.coord[k]
             /\ r.m.image.coord[k] = r.value
<1>0. m.image.coord[k] \in Point \cup {Bad}
  BY DEF Typed, RecordsOK
<1>1. CASE m.image.coord[k] # Bad
  BY <1>0, <1>1 DEF ReadCoord, Reset1
<1>2. CASE m.image.coord[k] = Bad
  <2>1. WriteCoord(m, k, Zero).image.coord = [m.image.coord EXCEPT ![k] = Zero]
    BY ZeroPoint, WriteCoordTyped
  <2>2. WriteCoord(m, k, Zero).image.coord[k] = Zero
    BY <2>1 DEF Typed, RecordsOK
  <2> QED
    BY <1>2, <2>2, ZeroPoint DEF ReadCoord, Reset1
<1> QED
  BY <1>1, <1>2

\* A write of another record.
LEMMA OtherTyped ==
  ASSUME NEW m, Typed(m), NEW n, DOMAIN n = {"set", "image", "disk", "log"}, n.log = m.log,
         n.image.coord = m.image.coord, n.image.startup \in [StartupLines -> Texts \cup {Bad}],
         MemoryOK(Commit(n))
  PROVE  Repaired(m, Commit(n))
<1>1. RecordsOK(n.image)
  BY DEF Typed, RecordsOK
<1>2. Typed(Commit(n)) /\ Tidy(Commit(n)) /\ Commit(n).image = n.image
  BY <1>1, CommitTyped DEF Typed
<1> QED
  BY <1>2 DEF Repaired

\* The build info, stored.
LEMMA StoreInfoTyped ==
  ASSUME NEW m, Typed(m), NEW text
  PROVE  Repaired(m, StoreInfo(m, text))
<1> DEFINE n == [m EXCEPT !.image.info = text, !.image.startup[1] = Bad]
<1>1. StoreInfo(m, text) = Commit(n)
  BY DEF StoreInfo
<1>2. MemoryOK(StoreInfo(m, text))
  BY StoreInfoKept DEF Kept, Typed
<1>3. /\ DOMAIN n = {"set", "image", "disk", "log"} /\ n.log = m.log
      /\ n.image.coord = m.image.coord /\ n.image.startup = [m.image.startup EXCEPT ![1] = Bad]
  BY DEF Typed, MemoryOK, ImageOK
<1> HIDE DEF n
<1>4. n.image.startup \in [StartupLines -> Texts \cup {Bad}]
  BY <1>3 DEF Typed, RecordsOK
<1> QED
  BY <1>1, <1>2, <1>3, <1>4, OtherTyped

\* A startup line, stored, with what it spoils.
LEMMA StoreStartupTyped ==
  ASSUME NEW m, Typed(m), NEW i \in Nat, NEW text \in Texts
  PROVE  Repaired(m, StoreStartup(m, i, text))
<1> DEFINE info == IF i = 2 \/ m.image.info = Bad THEN Bad
                   ELSE IF i = 1 THEN EmptyText ELSE m.image.info
           p == [m EXCEPT !.image.startup[i] = text, !.image.info = info]
           q == [m EXCEPT !.image.info = info]
<1>0. MemoryOK(StoreStartup(m, i, text))
  BY StoreStartupKept DEF Kept, Typed
<1> HIDE DEF info
<1>1. CASE i \in StartupLines
  <2>1. StoreStartup(m, i, text) = Commit(p)
    BY <1>1 DEF StoreStartup, info, StartupLines
  <2>2. /\ DOMAIN p = {"set", "image", "disk", "log"} /\ p.log = m.log
        /\ p.image.coord = m.image.coord /\ p.image.startup = [m.image.startup EXCEPT ![i] = text]
    BY DEF Typed, MemoryOK, ImageOK
  <2> HIDE DEF p
  <2>3. m.image.startup \in [StartupLines -> Texts \cup {Bad}]
    BY DEF Typed, RecordsOK
  <2>4. p.image.startup \in [StartupLines -> Texts \cup {Bad}]
    BY <1>1, <2>2, <2>3
  <2> QED
    BY <1>0, <2>1, <2>2, <2>4, OtherTyped
<1>2. CASE i = 2
  <2>1. StoreStartup(m, i, text) = Commit(q)
    BY <1>2 DEF StoreStartup, info, StartupLines
  <2>2. /\ DOMAIN q = {"set", "image", "disk", "log"} /\ q.log = m.log
        /\ q.image.coord = m.image.coord /\ q.image.startup = m.image.startup
    BY DEF Typed, MemoryOK, ImageOK
  <2> HIDE DEF q
  <2> QED
    BY <1>0, <2>1, <2>2, OtherTyped DEF Typed, RecordsOK
<1>3. CASE i > 2
  <2>1. StoreStartup(m, i, text) = Commit(m)
    BY <1>3 DEF StoreStartup, StartupLines
  <2> QED
    BY <1>0, <2>1, OtherTyped DEF Typed, RecordsOK, MemoryOK
<1> QED
  BY <1>1, <1>2, <1>3 DEF StartupLines

\* The empty line is a line.
LEMMA EmptyIsText == EmptyText \in Texts
  BY DEF EmptyText, Texts

\* A text read is a line, and reading it repairs at most the text.
LEMMA TextsRead ==
  ASSUME NEW m, Typed(m)
  PROVE  /\ \A n \in StartupLines : Repaired(m, ReadStartup(m, n).m) /\ ReadStartup(m, n).value \in Texts
         /\ Repaired(m, ReadInfo(m)) /\ Repaired(m, m)
<1>1. Repaired(m, m)
  BY DEF Repaired
<1>2. ASSUME NEW n \in StartupLines PROVE Repaired(m, ReadStartup(m, n).m) /\ ReadStartup(m, n).value \in Texts
  <2>1. n \in Nat /\ m.image.startup[n] \in Texts \cup {Bad}
    BY DEF StartupLines, Typed, RecordsOK
  <2> QED
    BY <1>1, <2>1, StoreStartupTyped, EmptyIsText DEF ReadStartup
<1>3. Repaired(m, ReadInfo(m))
  BY <1>1, StoreInfoTyped DEF ReadInfo
<1> QED
  BY <1>1, <1>2, <1>3

\* Repairs in a chain are a repair.
LEMMA RepairedChain ==
  ASSUME NEW m, NEW n, NEW p, Repaired(m, n), Repaired(n, p)
  PROVE  Repaired(m, p)
  BY DEF Repaired

\* The listings: $# resets the first record it finds bad.
LEMMA ShowTyped ==
  ASSUME NEW m, Typed(m)
  PROVE  Reset1(m, ShowParameters(m)) /\ Repaired(m, ShowStartup(m))
<1>1. Reset1(m, ShowParameters(m))
  <2> DEFINE bad == {k \in Systems : m.image.coord[k] = Bad}
             k == CHOOSE k \in bad : \A j \in bad : k <= j
  <2>1. CASE bad = {}
    BY <2>1 DEF ShowParameters, Reset1
  <2>2. CASE bad # {}
    <3>1. bad \subseteq Nat
      BY DEF Systems
    <3>2. \E x \in bad : \A j \in bad : x <= j
      BY <2>2, <3>1, LeastOf
    <3>3. k \in bad
      BY <3>2
    <3>4. ShowParameters(m) = ReadCoord(m, k).m
      BY <2>2 DEF ShowParameters
    <3> HIDE DEF k
    <3>5. k \in Systems
      BY <3>3
    <3> QED
      BY <3>4, <3>5, ReadCoordReset
  <2> QED
    BY <2>1, <2>2
<1>2. Repaired(m, ShowStartup(m))
  <2>1. Repaired(m, ReadStartup(m, 0).m)
    BY TextsRead DEF StartupLines
  <2>2. Repaired(ReadStartup(m, 0).m, ReadStartup(ReadStartup(m, 0).m, 1).m)
    BY <2>1, TextsRead DEF StartupLines, Repaired
  <2> QED
    BY <2>1, <2>2, RepairedChain DEF ShowStartup
<1> QED
  BY <1>1, <1>2

\* The settings, written: the other records stay.
LEMMA WriteGlobalTyped ==
  ASSUME NEW m, Typed(m), NEW set, MemoryOK(WriteGlobal([m EXCEPT !.set = set]))
  PROVE  Repaired(m, WriteGlobal([m EXCEPT !.set = set]))
<1> DEFINE r == [m EXCEPT !.set = set]
           n == [r EXCEPT !.image.version = TRUE, !.image.global = r.set]
<1>1. WriteGlobal(r) = Commit(n)
  BY DEF WriteGlobal
<1>2. /\ DOMAIN r = {"set", "image", "disk", "log"} /\ r.log = m.log /\ r.image = m.image
  BY DEF Typed, MemoryOK
<1>3. MemoryOK(WriteGlobal(r))
  OBVIOUS
<1> HIDE DEF r
<1>4. /\ DOMAIN n = {"set", "image", "disk", "log"} /\ n.log = m.log
      /\ n.image.coord = m.image.coord /\ n.image.startup = m.image.startup
  BY <1>2 DEF Typed, MemoryOK, ImageOK
<1> HIDE DEF n
<1>5. Repaired(m, Commit(n))
  BY <1>1, <1>3, <1>4, OtherTyped DEF Typed, RecordsOK
<1> QED
  BY <1>1, <1>5 DEF r

\* A setting stored, or refused; and the default settings.
LEMMA SettingsTyped ==
  ASSUME NEW m, Typed(m)
  PROVE  /\ \A n \in Nat, v \in Int : LET r == StoreSetting(m, n, v)
                                     IN  Repaired(m, r.m) /\ (r.ok \/ r.m = m)
         /\ Repaired(m, RestoreDefaults(m))
<1>1. ASSUME NEW n \in Nat, NEW v \in Int
      PROVE  Repaired(m, StoreSetting(m, n, v).m) /\ (StoreSetting(m, n, v).ok \/ StoreSetting(m, n, v).m = m)
  <2>1. CASE SettingRefused(m, n, v)
    BY <2>1, TextsRead DEF StoreSetting
  <2>2. CASE ~SettingRefused(m, n, v)
    <3>1. /\ StoreSetting(m, n, v).ok
          /\ StoreSetting(m, n, v).m = WriteGlobal([m EXCEPT !.set = ApplySetting(m.set, n, v)])
      BY <2>2 DEF StoreSetting
    <3>2. MemoryOK(StoreSetting(m, n, v).m)
      BY StoreSettingKept DEF Kept, Typed
    <3> QED
      BY <3>1, <3>2, WriteGlobalTyped
  <2> QED
    BY <2>1, <2>2
<1>2. Repaired(m, RestoreDefaults(m))
  <2>1. MemoryOK(RestoreDefaults(m))
    BY RestoreAllOK DEF Kept, Typed
  <2> QED
    BY <2>1, WriteGlobalTyped DEF RestoreDefaults
<1> QED
  BY <1>1, <1>2

\* No coordinate record is bad.
AllGood(m) == \A k \in Systems : m.image.coord[k] # Bad

\* All the coordinate records reset.
LEMMA RestoreParametersTyped ==
  ASSUME NEW m, Typed(m)
  PROVE  Typed(RestoreParameters(m)) /\ AllGood(RestoreParameters(m))
<1> DEFINE c(k) == [i \in Systems |-> IF i <= k THEN Zero ELSE m.image.coord[i]]
           upto(k) == [m.image EXCEPT !.coord = [i \in Systems |-> IF i <= k THEN Zero ELSE m.image.coord[i]]]
           r == [m EXCEPT !.image = upto(7), !.disk = upto(7), !.log = m.log \cup {upto(k) : k \in Systems}]
<1>1. RestoreParameters(m) = r
  BY DEF RestoreParameters
<1>2. MemoryOK(RestoreParameters(m))
  BY RestoreParametersKept DEF Kept, Typed
<1>3. ASSUME NEW k PROVE RecordsOK(upto(k)) /\ upto(k).coord = c(k)
  <2> DEFINE u == [m.image EXCEPT !.coord = c(k)]
  <2>1. c(k) \in [Systems -> Point \cup {Bad}]
    BY ZeroPoint DEF Typed, RecordsOK
  <2> HIDE DEF c
  <2>2. u.coord = c(k) /\ u.startup = m.image.startup
    BY DEF Typed, MemoryOK, ImageOK
  <2> HIDE DEF u
  <2>3. RecordsOK(u)
    BY <2>1, <2>2 DEF Typed, RecordsOK
  <2> QED
    BY <2>2, <2>3 DEF u, c
<1>4. \A i \in Systems : c(7)[i] = Zero
  BY DEF Systems
<1> HIDE DEF upto, c
<1>5. r.image = upto(7) /\ r.disk = upto(7) /\ r.log = m.log \cup {upto(k) : k \in Systems}
  BY DEF Typed, MemoryOK
<1> HIDE DEF r
<1>6. Typed(r)
  BY <1>1, <1>2, <1>3, <1>5 DEF Typed
<1>7. AllGood(r)
  BY <1>3, <1>4, <1>5, ZeroPoint DEF AllGood
<1> QED
  BY <1>1, <1>6, <1>7

\* The texts emptied, when no coordinate record is bad.
LEMMA RestoreTextsTyped ==
  ASSUME NEW m, Typed(m), AllGood(m)
  PROVE  Typed(RestoreTexts(m)) /\ AllGood(RestoreTexts(m))
<1> DEFINE t == [n \in StartupLines |-> Wiped(m.image.startup[n])]
           r == [m EXCEPT !.image.startup = t, !.image.info = Wiped(m.image.info)]
<1>1. RestoreTexts(m) = r
  BY DEF RestoreTexts
<1>2. MemoryOK(r)
  BY <1>1, RestoreTextsKept DEF Typed
<1>3. t \in [StartupLines -> Texts \cup {Bad}]
  BY EmptyIsText DEF Wiped
<1> HIDE DEF t
<1>4. /\ r.disk = m.disk /\ r.log = m.log /\ r.image.coord = m.image.coord /\ r.image.startup = t
  BY DEF Typed, MemoryOK, ImageOK
<1> HIDE DEF r
<1>5. RecordsOK(r.image)
  BY <1>3, <1>4 DEF Typed, RecordsOK
<1> QED
  BY <1>1, <1>2, <1>4, <1>5 DEF Typed, AllGood

\* Everything restored: no coordinate record is bad.
LEMMA RestoreAllTyped ==
  ASSUME NEW m, Typed(m)
  PROVE  Typed(RestoreAll(m)) /\ AllGood(RestoreAll(m))
<1>1. Typed(RestoreDefaults(m))
  BY SettingsTyped DEF Repaired
<1> QED
  BY <1>1, RestoreParametersTyped, RestoreTextsTyped DEF RestoreAll

\* At power-up all that is in the image is in flash, or all coordinate records are reset.
LEMMA SettingsInitTyped ==
  ASSUME NEW m, Typed(m), m.image = m.disk
  PROVE  Typed(SettingsInit(m)) /\ Tidy(SettingsInit(m))
<1>0. MemoryOK(SettingsInit(m))
  BY SettingsInitOK DEF Typed
<1>1. CASE m.image.version /\ m.image.global # Bad
  <2> DEFINE r == [m EXCEPT !.set = m.image.global]
  <2>1. SettingsInit(m) = r
    BY <1>1 DEF SettingsInit
  <2>2. r.image = m.image /\ r.disk = m.disk /\ r.log = m.log
    BY DEF Typed, MemoryOK
  <2> HIDE DEF r
  <2> QED
    BY <1>0, <2>1, <2>2 DEF Typed, Tidy
<1>2. CASE ~(m.image.version /\ m.image.global # Bad)
  BY <1>2, RestoreAllTyped DEF SettingsInit, AllGood, Tidy
<1> QED
  BY <1>1, <1>2

----------------------------------------------------------------------------
(* The checks *)

\* A length is a number in either unit.
LEMMA LengthsOK ==
  ASSUME NEW g \in Parsers, NEW b, Block(g, b)
  PROVE  /\ \A x \in Int : Scaled(b, x) \in Int
         /\ \A a \in Axes : b.v[a] \in Int /\ g.pos[a] \in Int /\ g.off[a] \in Int /\ Tlo(g, a) \in Int
<1>1. \A x \in Int : x * InchMM \in Int
  BY InchAssumption
<1>2. \A x \in Int : Scaled(b, x) \in Int
  BY <1>1 DEF Scaled
<1>3. ASSUME NEW a \in Axes PROVE b.v[a] \in Int
  <2>1. a \in ToSet(Letters)
    BY LettersAre DEF Axes
  <2> QED
    BY <2>1 DEF Block
<1>4. ASSUME NEW a \in Axes PROVE g.pos[a] \in Int /\ g.off[a] \in Int
  BY DEF Parsers, Point
<1>5. ASSUME NEW a \in Axes PROVE Tlo(g, a) \in Int
  BY DEF Parsers, Tlo
<1> QED
  BY <1>2, <1>3, <1>4, <1>5

\* The points that are computed are points.
LEMMA PointsOK ==
  ASSUME NEW g \in Parsers, NEW b, Block(g, b), NEW coord \in Point
  PROVE  /\ Target(g, b, coord) \in Point /\ G10Data(g, b, coord) \in Point
         /\ Predefined(g, b, coord) \in Point /\ G92Offset(g, b, coord) \in Point
<1>0. \A a \in Axes : coord[a] \in Int
  BY DEF Point
<1> DEFINE x(a) == Scaled(b, b.v[a])
<1>1. \A a \in Axes : x(a) \in Int
  BY LengthsOK
<1> HIDE DEF x
<1>2. Target(g, b, coord) \in Point
  <2>1. Target(g, b, coord) = [a \in Axes |->
           IF Given(b) = {} THEN 0
           ELSE IF a \notin Given(b) THEN g.pos[a]
           ELSE IF b.action = "G53" THEN x(a)
           ELSE IF b.modal.distance = "G91" THEN x(a) + g.pos[a]
           ELSE x(a) + coord[a] + g.off[a] + Tlo(g, a)]
    BY DEF Target, x
  <2> QED
    BY <1>0, <1>1, <2>1, LengthsOK DEF Point
<1>3. G10Data(g, b, coord) \in Point
  <2>1. G10Data(g, b, coord) = [a \in Axes |-> IF a \notin Given(b) THEN coord[a]
                  ELSE IF b.v.L = 20 THEN g.pos[a] - g.off[a] - x(a) - Tlo(g, a)
                  ELSE x(a)]
    BY DEF G10Data, x
  <2> QED
    BY <1>0, <1>1, <2>1, LengthsOK DEF Point
<1>4. Predefined(g, b, coord) \in Point
  BY <1>0, LengthsOK DEF Predefined, Point
<1>5. G92Offset(g, b, coord) \in Point
  <2>1. G92Offset(g, b, coord) =
          [a \in Axes |-> IF a \in Given(b) THEN g.pos[a] - coord[a] - x(a) - Tlo(g, a) ELSE g.off[a]]
    BY DEF G92Offset, x
  <2> QED
    BY <1>0, <1>1, <2>1, LengthsOK DEF Point
<1> QED
  BY <1>2, <1>3, <1>4, <1>5

\* The feed rate of a block is not negative.
LEMMA RateOK ==
  ASSUME NEW g \in Parsers, NEW b, Block(g, b)
  PROVE  Rate(g, b) \in Nat
<1>1. b.v["F"] \in Int /\ b.v["F"] >= 0
  BY LettersAre DEF Block
<1>2. Rate(g, b) \in {b.v["F"], g.rate}
  BY DEF Rate
<1>3. g.rate \in Nat
  BY DEF Parsers
<1> QED
  BY <1>1, <1>2, <1>3

\* A block that the checks have accepted, in the parser's state g with the memory m.
Accepted(g, m, b) ==
  /\ b.modal \in Modals /\ b.v \in [ToSet(Letters) -> Int]
  /\ b.coord \in Point /\ b.record \in Systems /\ b.data \in Point /\ b.target \in Point /\ b.rate \in Nat
  /\ b.modal.sel # g.modal.sel => b.coord = m.image.coord[b.modal.sel]

\* The block with what the checks add to it.
LEMMA Extended ==
  ASSUME NEW g, NEW b, Block(g, b), NEW coord, NEW k, NEW data, NEW target, NEW rate
  PROVE  LET e == [b EXCEPT !.coord = coord, !.record = k, !.data = data, !.target = target, !.rate = rate]
         IN  /\ e.modal = b.modal /\ e.v = b.v /\ e.coord = coord /\ e.record = k /\ e.data = data
             /\ e.target = target /\ e.rate = rate
  BY DEF Block, BlockFields

\* The checks: at most one record is reset, none if the block is accepted, which then can be executed.
LEMMA CheckedOK ==
  ASSUME NEW g \in Parsers, NEW m, Typed(m), NEW b, Block(g, b)
  PROVE  LET c == Checked(g, m, b)
         IN  /\ Reset1(m, c.m)
             /\ c.ok => c.m = m /\ Accepted(g, m, c.b)
<1> DEFINE selects == G12Group \in b.groups /\ b.modal.sel # g.modal.sel
           sel == IF selects THEN ReadCoord(m, b.modal.sel) ELSE [ok |-> TRUE, value |-> g.coord, m |-> m]
           k == CASE b.action = "G10" -> G10Record(b) [] b.action = "G28" -> G28Record
                  [] b.action = "G30" -> G30Record [] OTHER -> 0
           reads == b.action \in {"G10", "G28", "G30"}
           rec == IF reads THEN ReadCoord(sel.m, k) ELSE [ok |-> TRUE, value |-> Zero, m |-> sel.m]
           data == CASE b.action = "G10" -> G10Data(g, b, rec.value)
                     [] b.action \in {"G28", "G30"} -> Predefined(g, b, rec.value)
                     [] b.action = "G92" -> G92Offset(g, b, sel.value)
                     [] OTHER -> Zero
           target == Target(g, b, sel.value)
           rate == Rate(g, b)
           e == [b EXCEPT !.coord = sel.value, !.record = k, !.data = data, !.target = target, !.rate = rate]
           g10 == b.action = "G10" /\ G10ChecksFail(b)
<1>1. b.modal.sel \in 0..5 /\ b.modal.sel \in Systems
  BY DEF Block, Modals, Systems
<1>2. g.coord \in Point
  BY DEF Parsers
<1>3. /\ Reset1(m, sel.m) /\ sel.value \in Point
      /\ sel.ok => sel.m = m /\ (b.modal.sel # g.modal.sel => sel.value = m.image.coord[b.modal.sel])
  <2>1. CASE selects
    BY <1>1, <2>1, ReadCoordReset
  <2>2. CASE ~selects
    <3>1. b.modal.sel = g.modal.sel
      BY <2>2 DEF Block
    <3> QED
      BY <1>2, <2>2, <3>1 DEF Reset1
  <2> QED
    BY <2>1, <2>2
<1>4. ~g10 => k \in Systems
  <2>1. b.v["P"] \in Int /\ b.v["P"] >= 0
    BY LettersAre DEF Block
  <2>2. CASE b.action = "G10"
    BY <1>1, <2>1, <2>2 DEF G10ChecksFail, G10Record, Systems
  <2>3. CASE b.action # "G10"
    BY <2>3 DEF G28Record, G30Record, Systems
  <2> QED
    BY <2>2, <2>3
<1> HIDE DEF sel, k
<1>5. sel.ok /\ ~g10 => /\ Reset1(m, rec.m) /\ rec.value \in Point
                        /\ rec.ok => rec.m = m
  BY <1>3, <1>4, ReadCoordReset, ZeroPoint DEF Reset1
<1> HIDE DEF rec
<1>6. sel.ok /\ ~g10 => data \in Point
  BY <1>3, <1>5, PointsOK, ZeroPoint
<1>7. target \in Point /\ rate \in Nat
  BY <1>3, PointsOK, RateOK
<1> HIDE DEF data, target, rate
<1>8. /\ e.modal = b.modal /\ e.v = b.v /\ e.coord = sel.value /\ e.record = k /\ e.data = data
      /\ e.target = target /\ e.rate = rate
  BY Extended
<1>9. sel.ok /\ ~g10 => Accepted(g, m, e)
  <2>1. b.modal \in Modals /\ b.v \in [ToSet(Letters) -> Int]
    BY DEF Block
  <2> HIDE DEF e
  <2> QED
    BY <1>3, <1>4, <1>6, <1>7, <1>8, <2>1 DEF Accepted
<1> HIDE DEF e
<1> DEFINE c == Checked(g, m, b)
<1>10. \/ ~c.ok /\ c.m = m
       \/ ~c.ok /\ c.m = sel.m
       \/ sel.ok /\ ~g10 /\ ~c.ok /\ c.m = rec.m
       \/ sel.ok /\ ~g10 /\ rec.ok /\ c.ok /\ c.m = rec.m /\ c.b = e
  BY DEF Checked, sel, k, rec, data, target, rate, e
<1>11. Reset1(m, m)
  BY DEF Reset1
<1> HIDE DEF c, g10, selects, reads
<1> QED
  BY <1>3, <1>5, <1>9, <1>10, <1>11 DEF c

----------------------------------------------------------------------------
(* The machine: its types, its work offsets and where its moves lead *)

MachineFields == {"gc", "m", "st", "abort", "pos", "plan", "path", "cool", "stuck"}

Shape(s) ==
  /\ DOMAIN s = MachineFields
  /\ s.gc \in Parsers /\ s.st \in {"IDLE", "CYCLE", "JOG", "CHECK", "ALARM"}
  /\ s.abort \in BOOLEAN /\ s.cool \in BOOLEAN
  /\ s.pos \in Point /\ s.plan \in Point /\ s.path \in Seq(Point)

Mem(m) == Typed(m) /\ Tidy(m) /\ m.image.coord[0] # Bad

\* The work offset is that of the system selected; the planner is where the moves lead; and the
\* parser's position is the planner's.
Offs(s) == ~s.abort /\ s.st # "CHECK" => s.gc.coord = s.m.image.coord[s.gc.modal.sel]
End(s) == IF s.path = <<>> THEN s.pos ELSE Last(s.path)
PlanEnd(s) == ~s.abort => s.plan = End(s)
PosPlan(s) == ~s.abort /\ s.st # "CHECK" => s.gc.pos = s.plan

Fit(s) == Shape(s) /\ Mem(s.m) /\ Offs(s) /\ PlanEnd(s) /\ PosPlan(s)

\* t is s with some motion ended or planned; or ended only.
Moved(s, t) ==
  /\ Shape(t) /\ t.gc = s.gc /\ t.m = s.m
  /\ s.abort => t.abort
  /\ ~t.abort => (t.st = "CHECK" <=> s.st = "CHECK")
  /\ PlanEnd(s) => PlanEnd(t)
Stays(s, t) == Moved(s, t) /\ t.plan = s.plan /\ t.abort = s.abort

\* Motion that ends leaves the machine as it should be.
LEMMA StaysFit ==
  ASSUME NEW s, Fit(s), NEW t, Stays(s, t)
  PROVE  Fit(t)
  BY DEF Fit, Stays, Moved, Offs, PosPlan

\* What motion does, in a chain.
LEMMA MovedChain ==
  ASSUME NEW s, NEW t, NEW u
  PROVE  /\ Moved(s, t) /\ Moved(t, u) => Moved(s, u)
         /\ Stays(s, t) /\ Stays(t, u) => Stays(s, u)
         /\ Shape(s) => Stays(s, s)
  BY DEF Stays, Moved

\* Waiting for the motion planned: it has ended, but in check mode.
LEMMA SyncStays ==
  ASSUME NEW s, Shape(s)
  PROVE  /\ Stays(s, Sync(s)) /\ Sync(s).cool = s.cool
         /\ ~s.abort /\ s.st # "CHECK" => Sync(s).path = <<>> /\ Sync(s).pos = End(s)
<1> DEFINE t == Sync(s)
           u == [s EXCEPT !.pos = IF s.path = <<>> THEN s.pos ELSE Last(s.path), !.path = <<>>,
                          !.st = IF s.st = "CYCLE" THEN "IDLE" ELSE s.st]
           w == [s EXCEPT !.stuck = s.stuck \/ s.path # <<>>]
<1>1. CASE s.abort
  <2>1. t = s
    BY <1>1 DEF Sync
  <2> QED
    BY <1>1, <2>1, MovedChain
<1>2. CASE ~s.abort /\ s.st = "CHECK"
  <2>1. t = w
    BY <1>2 DEF Sync
  <2>2. /\ DOMAIN w = MachineFields /\ w.gc = s.gc /\ w.m = s.m /\ w.st = s.st /\ w.abort = s.abort
        /\ w.pos = s.pos /\ w.plan = s.plan /\ w.path = s.path /\ w.cool = s.cool
    BY DEF Shape, MachineFields
  <2> HIDE DEF w, t
  <2> QED
    BY <1>2, <2>1, <2>2 DEF Stays, Moved, Shape, PlanEnd, End, t
<1>3. CASE ~s.abort /\ s.st # "CHECK"
  <2>1. t = u
    BY <1>3 DEF Sync
  <2>2. /\ DOMAIN u = MachineFields /\ u.gc = s.gc /\ u.m = s.m /\ u.abort = s.abort
        /\ u.plan = s.plan /\ u.cool = s.cool /\ u.path = <<>> /\ u.pos = End(s)
        /\ u.st = IF s.st = "CYCLE" THEN "IDLE" ELSE s.st
    BY DEF Shape, MachineFields, End
  <2>3. End(s) \in Point /\ <<>> \in Seq(Point)
    <3>1. s.path # <<>> => s.path[Len(s.path)] \in Point
      BY DEF Shape
    <3> QED
      BY <3>1 DEF Shape, End, Last
  <2> HIDE DEF u, t
  <2>4. Shape(u)
    BY <2>2, <2>3 DEF Shape
  <2>5. PlanEnd(s) => PlanEnd(u)
    BY <2>2 DEF PlanEnd, End
  <2> QED
    BY <1>3, <2>1, <2>2, <2>4, <2>5 DEF Stays, Moved, t
<1> QED
  BY <1>1, <1>2, <1>3 DEF Shape

\* A move: the planner is at its target, unless the machine has stopped or only checks.
LEMMA MoveToMoved ==
  ASSUME NEW s, Shape(s), NEW target \in Point
  PROVE  LET t == MoveTo(s, target)
         IN  /\ Moved(s, t)
             /\ ~t.abort /\ t.st # "CHECK" => t.plan = target
<1> DEFINE t == MoveTo(s, target)
           w == [s EXCEPT !.abort = TRUE, !.st = "ALARM", !.cool = FALSE]
           u == [s EXCEPT !.plan = target, !.path = Append(s.path, target)]
<1>1. /\ DOMAIN w = MachineFields /\ w.gc = s.gc /\ w.m = s.m /\ w.st = "ALARM" /\ w.abort = TRUE
      /\ w.pos = s.pos /\ w.plan = s.plan /\ w.path = s.path /\ w.cool = FALSE
  BY DEF Shape, MachineFields
<1>2. /\ DOMAIN u = MachineFields /\ u.gc = s.gc /\ u.m = s.m /\ u.st = s.st /\ u.abort = s.abort
      /\ u.pos = s.pos /\ u.plan = target /\ u.path = Append(s.path, target) /\ u.cool = s.cool
  BY DEF Shape, MachineFields
<1>3. \/ t = w
      \/ t = s /\ (s.st = "CHECK" \/ s.abort \/ target = s.plan)
      \/ t = u
  BY DEF MoveTo
<1>4. /\ Append(s.path, target) \in Seq(Point) /\ Append(s.path, target) # <<>>
      /\ Last(Append(s.path, target)) = target
  BY DEF Shape, Last
<1> HIDE DEF t, w, u
<1>5. Moved(s, w)
  BY <1>1 DEF Moved, Shape, PlanEnd
<1>6. Moved(s, u)
  <2>1. PlanEnd(u)
    BY <1>2, <1>4 DEF PlanEnd, End
  <2>2. Shape(u)
    BY <1>2, <1>4 DEF Shape
  <2> QED
    BY <1>2, <2>1, <2>2 DEF Moved
<1>7. Moved(s, s)
  BY DEF Moved
<1> QED
  BY <1>1, <1>2, <1>3, <1>5, <1>6, <1>7 DEF t

\* The coolant, once the motion has ended.
LEMMA CoolantStays ==
  ASSUME NEW s, Shape(s), NEW flood \in BOOLEAN
  PROVE  Stays(s, CoolantSync(s, flood))
<1> DEFINE t == Sync(s)
           u == [t EXCEPT !.cool = flood]
<1>1. CoolantSync(s, flood) \in {s, t, u}
  BY DEF CoolantSync
<1>2. Stays(s, t)
  BY SyncStays
<1> HIDE DEF t
<1>3. Shape(t)
  BY <1>2 DEF Stays, Moved
<1>4. /\ DOMAIN u = MachineFields /\ u.gc = t.gc /\ u.m = t.m /\ u.st = t.st /\ u.abort = t.abort
      /\ u.pos = t.pos /\ u.plan = t.plan /\ u.path = t.path /\ u.cool = flood
  BY <1>3 DEF Shape, MachineFields
<1> HIDE DEF u
<1>5. Stays(t, u)
  BY <1>3, <1>4 DEF Stays, Moved, Shape, PlanEnd, End
<1> QED
  BY <1>1, <1>2, <1>5, MovedChain

\* A change of the parser's state that leaves its system, offset and position.
LEMMA ParserFit ==
  ASSUME NEW s, Fit(s), NEW t, DOMAIN t = MachineFields, t.m = s.m, t.st = s.st, t.abort = s.abort,
         t.pos = s.pos, t.plan = s.plan, t.path = s.path, t.cool = s.cool,
         t.gc \in Parsers, t.gc.coord = s.gc.coord, t.gc.pos = s.gc.pos, t.gc.modal.sel = s.gc.modal.sel
  PROVE  Fit(t)
  BY DEF Fit, Shape, Offs, PlanEnd, End, PosPlan

\* A system selected with its offset, or an offset set to that of the system selected.
LEMMA OffsetFit ==
  ASSUME NEW s, Fit(s), NEW t, DOMAIN t = MachineFields, t.m = s.m, t.st = s.st, t.abort = s.abort,
         t.pos = s.pos, t.plan = s.plan, t.path = s.path, t.cool = s.cool,
         t.gc \in Parsers, t.gc.coord = s.m.image.coord[t.gc.modal.sel], t.gc.pos = s.gc.pos
  PROVE  Fit(t)
  BY DEF Fit, Shape, Offs, PlanEnd, End, PosPlan

\* A position set to the planner's.
LEMMA PositionFit ==
  ASSUME NEW s, Shape(s), Mem(s.m), Offs(s), PlanEnd(s), NEW p \in Point,
         ~s.abort /\ s.st # "CHECK" => s.plan = p
  PROVE  Fit([s EXCEPT !.gc.pos = p])
<1> DEFINE t == [s EXCEPT !.gc.pos = p]
<1>1. /\ DOMAIN t = MachineFields /\ t.m = s.m /\ t.st = s.st /\ t.abort = s.abort
      /\ t.pos = s.pos /\ t.plan = s.plan /\ t.path = s.path /\ t.cool = s.cool
  BY DEF Shape, MachineFields
<1>2. /\ t.gc \in Parsers /\ t.gc.coord = s.gc.coord /\ t.gc.pos = p /\ t.gc.modal = s.gc.modal
  BY DEF Shape, MachineFields, Parsers
<1> HIDE DEF t
<1>3. Shape(t)
  BY <1>1, <1>2 DEF Shape
<1>4. Offs(t) /\ PlanEnd(t) /\ PosPlan(t)
  BY <1>1, <1>2 DEF Offs, PlanEnd, End, PosPlan
<1> QED
  BY <1>1, <1>3, <1>4 DEF Fit, t

----------------------------------------------------------------------------
(* The parts of the execution of a line *)

\* t is a machine that is as it should be, with the memory and the system of s.
Prepares(s, t) == Fit(t) /\ t.m = s.m /\ t.gc.modal.sel = s.gc.modal.sel

\* Waiting for the motion leaves the machine as it should be.
LEMMA SyncFit ==
  ASSUME NEW s, Fit(s)
  PROVE  Fit(Sync(s)) /\ Prepares(s, Sync(s)) /\ Sync(s).gc = s.gc /\ Sync(s).m = s.m
<1>1. Stays(s, Sync(s))
  BY SyncStays DEF Fit
<1> QED
  BY <1>1, StaysFit DEF Prepares, Stays, Moved

\* The feed mode, the feed rate and the coolant of a line.
LEMMA FeedFit ==
  ASSUME NEW s, Fit(s), NEW b, b.modal \in Modals, b.rate \in Nat
  PROVE  Prepares(s, SetFeedAndCoolant(s, b))
<1> DEFINE t == [s EXCEPT !.gc.modal.feed = b.modal.feed, !.gc.rate = b.rate]
           c == CoolantSync(t, b.modal.coolant)
           u == [c EXCEPT !.gc.modal.coolant = b.modal.coolant]
<1>0. b.modal.feed \in Groups[6] /\ b.modal.coolant \in BOOLEAN
  BY DEF Modals
<1>1. Prepares(s, t)
  <2>1. /\ DOMAIN t = MachineFields /\ t.m = s.m /\ t.st = s.st /\ t.abort = s.abort
        /\ t.pos = s.pos /\ t.plan = s.plan /\ t.path = s.path /\ t.cool = s.cool
    BY DEF Fit, Shape, MachineFields
  <2>2. s.gc \in Parsers /\ s.gc.modal \in Modals
    BY DEF Fit, Shape, Parsers
  <2> DEFINE modal == [s.gc.modal EXCEPT !.feed = b.modal.feed]
  <2>3. modal \in Modals /\ modal.sel = s.gc.modal.sel
    BY <1>0, <2>2 DEF Modals
  <2> HIDE DEF modal
  <2>4. t.gc = [s.gc EXCEPT !.modal = modal, !.rate = b.rate]
    BY <2>2 DEF modal, Fit, Shape, MachineFields, Parsers
  <2> HIDE DEF t
  <2>5. /\ t.gc \in Parsers /\ t.gc.coord = s.gc.coord /\ t.gc.pos = s.gc.pos /\ t.gc.modal = modal
    BY <2>2, <2>3, <2>4 DEF Parsers
  <2> QED
    BY <2>1, <2>3, <2>5, ParserFit DEF Prepares
<1> HIDE DEF t
<1>2. Stays(t, c)
  BY <1>0, <1>1, CoolantStays DEF Prepares, Fit
<1>3. Fit(c) /\ c.gc = t.gc /\ c.m = t.m
  BY <1>1, <1>2, StaysFit DEF Prepares, Stays, Moved
<1> HIDE DEF c
<1>4. Prepares(c, u)
  <2>1. /\ DOMAIN u = MachineFields /\ u.m = c.m /\ u.st = c.st /\ u.abort = c.abort
        /\ u.pos = c.pos /\ u.plan = c.plan /\ u.path = c.path /\ u.cool = c.cool
    BY <1>3 DEF Fit, Shape, MachineFields
  <2>2. c.gc \in Parsers /\ c.gc.modal \in Modals
    BY <1>3 DEF Fit, Shape, Parsers
  <2> DEFINE modal == [c.gc.modal EXCEPT !.coolant = b.modal.coolant]
  <2>3. modal \in Modals /\ modal.sel = c.gc.modal.sel
    BY <1>0, <2>2 DEF Modals
  <2> HIDE DEF modal
  <2>4. u.gc = [c.gc EXCEPT !.modal = modal]
    BY <1>3, <2>2 DEF modal, Fit, Shape, MachineFields, Parsers
  <2> HIDE DEF u
  <2>5. /\ u.gc \in Parsers /\ u.gc.coord = c.gc.coord /\ u.gc.pos = c.gc.pos /\ u.gc.modal = modal
    BY <2>2, <2>3, <2>4 DEF Parsers
  <2> QED
    BY <1>3, <2>1, <2>3, <2>5, ParserFit DEF Prepares
<1>5. SetFeedAndCoolant(s, b) \in {t, u}
  BY DEF SetFeedAndCoolant, c, t
<1> HIDE DEF u
<1> QED
  BY <1>1, <1>3, <1>4, <1>5 DEF Prepares

\* The dwell and the tool length offset of a line.
LEMMA ToolFit ==
  ASSUME NEW s, Fit(s), NEW b, b.v \in [ToSet(Letters) -> Int]
  PROVE  Prepares(s, Dwell(s, b)) /\ Prepares(s, SetToolOffset(s, b))
<1>0. Prepares(s, s)
  BY DEF Prepares
<1>1. Prepares(s, Dwell(s, b))
  BY <1>0, SyncFit DEF Dwell
<1>2. Prepares(s, SetToolOffset(s, b))
  <2> DEFINE new == IF b.tool = "G49" THEN 0 ELSE Scaled(b, b.v.Z)
             t == [s EXCEPT !.gc.tlo = new]
  <2>1. new \in Int
    <3>1. b.v["Z"] \in Int
      BY LettersAre
    <3>2. b.v["Z"] * InchMM \in Int
      BY <3>1, InchAssumption
    <3> QED
      BY <3>1, <3>2 DEF Scaled
  <2>2. SetToolOffset(s, b) \in {s, Sync(t)}
    BY DEF SetToolOffset
  <2> HIDE DEF new
  <2>3. /\ DOMAIN t = MachineFields /\ t.m = s.m /\ t.st = s.st /\ t.abort = s.abort
        /\ t.pos = s.pos /\ t.plan = s.plan /\ t.path = s.path /\ t.cool = s.cool
        /\ t.gc = [s.gc EXCEPT !.tlo = new]
    BY DEF Fit, Shape, MachineFields
  <2>4. s.gc \in Parsers
    BY DEF Fit, Shape
  <2> HIDE DEF t
  <2>5. /\ t.gc \in Parsers /\ t.gc.coord = s.gc.coord /\ t.gc.pos = s.gc.pos /\ t.gc.modal = s.gc.modal
    BY <2>1, <2>3, <2>4 DEF Parsers
  <2>6. Fit(t)
    BY <2>3, <2>5, ParserFit
  <2> QED
    BY <1>0, <2>2, <2>3, <2>5, <2>6, SyncFit DEF Prepares
<1> QED
  BY <1>1, <1>2

\* The system that the line selects, with the offset it read.
LEMMA SelectFit ==
  ASSUME NEW s, Fit(s), NEW b, Accepted(s.gc, s.m, b)
  PROVE  LET t == SelectSystem(s, b)
         IN  Fit(t) /\ t.m = s.m /\ t.gc.modal.sel = b.modal.sel
<1> DEFINE t == [s EXCEPT !.gc.modal.sel = b.modal.sel, !.gc.coord = b.coord]
<1>1. CASE b.modal.sel = s.gc.modal.sel
  BY <1>1 DEF SelectSystem
<1>2. CASE b.modal.sel # s.gc.modal.sel
  <2>1. SelectSystem(s, b) = Sync(t)
    BY <1>2 DEF SelectSystem
  <2>2. b.coord = s.m.image.coord[b.modal.sel] /\ b.coord \in Point /\ b.modal.sel \in 0..5
    BY <1>2 DEF Accepted, Modals
  <2>3. s.gc \in Parsers /\ s.gc.modal \in Modals
    BY DEF Fit, Shape, Parsers
  <2> DEFINE modal == [s.gc.modal EXCEPT !.sel = b.modal.sel]
  <2>4. modal \in Modals /\ modal.sel = b.modal.sel
    BY <2>2, <2>3 DEF Modals
  <2> HIDE DEF modal
  <2>5. /\ DOMAIN t = MachineFields /\ t.m = s.m /\ t.st = s.st /\ t.abort = s.abort
        /\ t.pos = s.pos /\ t.plan = s.plan /\ t.path = s.path /\ t.cool = s.cool
        /\ t.gc = [s.gc EXCEPT !.modal = modal, !.coord = b.coord]
    BY <2>3 DEF modal, Fit, Shape, MachineFields, Parsers
  <2> HIDE DEF t
  <2>6. /\ t.gc \in Parsers /\ t.gc.coord = b.coord /\ t.gc.pos = s.gc.pos /\ t.gc.modal = modal
    BY <2>2, <2>3, <2>4, <2>5 DEF Parsers
  <2>7. Fit(t)
    BY <2>2, <2>4, <2>5, <2>6, OffsetFit
  <2> QED
    BY <2>1, <2>4, <2>5, <2>6, <2>7, SyncFit
<1> QED
  BY <1>1, <1>2

\* A coordinate record stored: another one than the system selected, or that with the offset.
LEMMA StoreFit ==
  ASSUME NEW s, Fit(s), NEW k \in Systems, NEW v \in Point
  PROVE  LET t == [s EXCEPT !.m = WriteCoord(s.m, k, v)]
             u == [t EXCEPT !.gc.coord = v]
         IN  /\ t.gc = s.gc
             /\ s.gc.modal.sel # k => Fit(t)
             /\ s.gc.modal.sel = k => Fit(u) /\ u.gc.modal = s.gc.modal
<1> DEFINE n == WriteCoord(s.m, k, v)
           t == [s EXCEPT !.m = n]
           u == [t EXCEPT !.gc.coord = v]
<1>0. Typed(s.m) /\ s.m.image.coord \in [Systems -> Point \cup {Bad}] /\ s.gc \in Parsers
      /\ s.gc.modal.sel \in 0..5 /\ v # Bad
  BY ZeroPoint DEF Fit, Mem, Typed, RecordsOK, Shape, Parsers, Modals
<1>1. /\ Typed(n) /\ Tidy(n) /\ n.image.coord = [s.m.image.coord EXCEPT ![k] = v]
  BY <1>0, WriteCoordTyped
<1> HIDE DEF n
<1>2. n.image.coord[k] = v /\ \A j \in Systems : j # k => n.image.coord[j] = s.m.image.coord[j]
  BY <1>0, <1>1
<1>3. Mem(n)
  BY <1>0, <1>1, <1>2 DEF Mem, Fit, Systems
<1>4. /\ DOMAIN t = MachineFields /\ t.gc = s.gc /\ t.m = n /\ t.st = s.st /\ t.abort = s.abort
      /\ t.pos = s.pos /\ t.plan = s.plan /\ t.path = s.path /\ t.cool = s.cool
  BY DEF Fit, Shape, MachineFields
<1> HIDE DEF t
<1>5. /\ DOMAIN u = MachineFields /\ u.gc = [s.gc EXCEPT !.coord = v] /\ u.m = n /\ u.st = s.st
      /\ u.abort = s.abort /\ u.pos = s.pos /\ u.plan = s.plan /\ u.path = s.path /\ u.cool = s.cool
  BY <1>4 DEF MachineFields
<1> HIDE DEF u
<1>6. /\ u.gc \in Parsers /\ u.gc.coord = v /\ u.gc.pos = s.gc.pos /\ u.gc.modal = s.gc.modal
  BY <1>0, <1>5 DEF Parsers
<1>7. s.gc.modal.sel # k => Fit(t)
  <2>1. s.gc.modal.sel # k => Offs(t)
    BY <1>0, <1>2, <1>4 DEF Fit, Offs, Systems
  <2>2. Shape(t) /\ PlanEnd(t) /\ PosPlan(t)
    BY <1>4 DEF Fit, Shape, PlanEnd, End, PosPlan
  <2> QED
    BY <1>3, <1>4, <2>1, <2>2 DEF Fit
<1>8. s.gc.modal.sel = k => Fit(u)
  <2>1. s.gc.modal.sel = k => Offs(u)
    BY <1>2, <1>5, <1>6 DEF Offs
  <2>2. Shape(u) /\ PlanEnd(u) /\ PosPlan(u)
    BY <1>5, <1>6 DEF Fit, Shape, PlanEnd, End, PosPlan
  <2> QED
    BY <1>3, <1>5, <2>1, <2>2 DEF Fit
<1> QED
  BY <1>4, <1>6, <1>7, <1>8 DEF n, t, u

\* A move, and then the position set to where it leads.
LEMMA MoveFit ==
  ASSUME NEW s, Shape(s), Mem(s.m), Offs(s), PlanEnd(s), NEW target \in Point
  PROVE  LET t == MoveTo(s, target)
         IN  /\ Shape(t) /\ Mem(t.m) /\ Offs(t) /\ PlanEnd(t)
             /\ t.gc = s.gc /\ t.m = s.m
             /\ Fit([t EXCEPT !.gc.pos = target]) /\ [t EXCEPT !.gc.pos = target].gc.modal = s.gc.modal
<1> DEFINE t == MoveTo(s, target)
<1>1. Moved(s, t) /\ (~t.abort /\ t.st # "CHECK" => t.plan = target)
  BY MoveToMoved
<1> HIDE DEF t
<1>2. Shape(t) /\ Mem(t.m) /\ Offs(t) /\ PlanEnd(t) /\ t.gc = s.gc /\ t.m = s.m
  BY <1>1 DEF Moved, Offs
<1>3. Fit([t EXCEPT !.gc.pos = target])
  BY <1>1, <1>2, PositionFit
<1>4. [t EXCEPT !.gc.pos = target].gc.modal = t.gc.modal
  BY <1>2 DEF Shape, MachineFields, Parsers
<1> QED
  BY <1>2, <1>3, <1>4 DEF t

\* The non-modal command of a line.
LEMMA NonModalFit ==
  ASSUME NEW s, Fit(s), NEW b, b.record \in Systems, b.data \in Point, b.target \in Point
  PROVE  Fit(NonModal(s, b)) /\ NonModal(s, b).gc.modal = s.gc.modal
<1>0. s.gc \in Parsers /\ s.gc.modal.sel \in 0..5 /\ s.gc.pos \in Point
  BY DEF Fit, Shape, Parsers, Modals
<1>1. CASE b.action = "G10"
  <2> DEFINE y == Sync(s)
             t == [y EXCEPT !.m = WriteCoord(y.m, b.record, b.data)]
             u == [t EXCEPT !.gc.coord = b.data]
  <2>1. Fit(y) /\ y.gc = s.gc
    BY SyncFit
  <2>2. NonModal(s, b) = IF t.gc.modal.sel # b.record THEN t ELSE Sync(u)
    BY <1>1 DEF NonModal, SetCoordinateData
  <2> HIDE DEF y
  <2>3. /\ t.gc = y.gc
        /\ y.gc.modal.sel # b.record => Fit(t)
        /\ y.gc.modal.sel = b.record => Fit(u) /\ u.gc.modal = y.gc.modal
    BY <2>1, StoreFit
  <2> HIDE DEF t, u
  <2> QED
    BY <2>1, <2>2, <2>3, SyncFit
<1>2. CASE b.action \in {"G28", "G30"}
  <2> DEFINE via == IF Given(b) = {} THEN s ELSE MoveTo(s, b.target)
             t == MoveTo(via, b.data)
  <2>1. Shape(via) /\ Mem(via.m) /\ Offs(via) /\ PlanEnd(via) /\ via.gc = s.gc
    BY MoveFit DEF Fit
  <2>2. NonModal(s, b) = [t EXCEPT !.gc.pos = b.data]
    BY <1>2 DEF NonModal, GoPredefined
  <2> HIDE DEF via
  <2> QED
    BY <2>1, <2>2, MoveFit
<1>3. CASE b.action \in {"G281", "G301"}
  <2> DEFINE y == Sync(s)
  <2>1. Fit(y) /\ y.gc = s.gc
    BY SyncFit
  <2>2. \E k \in {6, 7} : NonModal(s, b) = [y EXCEPT !.m = WriteCoord(y.m, k, s.gc.pos)]
    BY <1>3 DEF NonModal, StorePredefined, G28Record, G30Record
  <2> HIDE DEF y
  <2>3. PICK k \in {6, 7} : NonModal(s, b) = [y EXCEPT !.m = WriteCoord(y.m, k, s.gc.pos)]
    BY <2>2
  <2>4. k \in Systems /\ y.gc.modal.sel # k
    BY <1>0, <2>1 DEF Systems
  <2> DEFINE t == [y EXCEPT !.m = WriteCoord(y.m, k, s.gc.pos)]
  <2>5. Fit(t) /\ t.gc = y.gc
    BY <1>0, <2>1, <2>4, StoreFit
  <2> HIDE DEF t
  <2>6. NonModal(s, b) = t
    BY <2>3 DEF t
  <2> QED
    BY <2>1, <2>5, <2>6
<1>4. CASE b.action \in {"G92", "G921"}
  <2>1. \E off \in Point : NonModal(s, b) = Sync([s EXCEPT !.gc.off = off])
    BY <1>4, ZeroPoint DEF NonModal
  <2>2. PICK off \in Point : NonModal(s, b) = Sync([s EXCEPT !.gc.off = off])
    BY <2>1
  <2> DEFINE t == [s EXCEPT !.gc.off = off]
  <2>3. /\ DOMAIN t = MachineFields /\ t.m = s.m /\ t.st = s.st /\ t.abort = s.abort
        /\ t.pos = s.pos /\ t.plan = s.plan /\ t.path = s.path /\ t.cool = s.cool
        /\ t.gc = [s.gc EXCEPT !.off = off]
    BY DEF Fit, Shape, MachineFields
  <2>4. NonModal(s, b) = Sync(t)
    BY <2>2
  <2> HIDE DEF t
  <2>5. /\ t.gc \in Parsers /\ t.gc.coord = s.gc.coord /\ t.gc.pos = s.gc.pos /\ t.gc.modal = s.gc.modal
    BY <1>0, <2>3 DEF Parsers
  <2>6. Fit(t)
    BY <2>3, <2>5, ParserFit
  <2> QED
    BY <2>4, <2>5, <2>6, SyncFit
<1>5. CASE b.action \notin {"G10", "G28", "G30", "G281", "G301", "G92", "G921"}
  BY <1>5 DEF NonModal
<1> QED
  BY <1>1, <1>2, <1>3, <1>4, <1>5

\* A probe cycle: the planner is set to where the machine is, and that is the target.
LEMMA ProbeFit ==
  ASSUME NEW s, Fit(s), NEW b, b.target \in Point
  PROVE  Fit(Probe(s, b)) /\ Probe(s, b).gc.modal = s.gc.modal
<1> DEFINE ready == Sync(s)
           far == MoveTo(ready, b.target)
           done == Sync(far)
           stop == [ready EXCEPT !.st = "ALARM"]
           next == [done EXCEPT !.st = IF b.modal.motion = "G384" THEN "ALARM" ELSE done.st,
                                !.plan = done.pos, !.gc.pos = b.target]
<1>1. CASE s.st = "CHECK"
  <2>1. Probe(s, b) = [s EXCEPT !.gc.pos = b.target]
    BY <1>1 DEF Probe
  <2>2. Fit([s EXCEPT !.gc.pos = b.target])
    BY <1>1, PositionFit DEF Fit
  <2>3. [s EXCEPT !.gc.pos = b.target].gc.modal = s.gc.modal
    BY DEF Fit, Shape, MachineFields, Parsers
  <2> QED
    BY <2>1, <2>2, <2>3
<1>2. CASE s.st # "CHECK"
  <2>1. Fit(ready) /\ ready.gc = s.gc /\ (~ready.abort => ready.st # "CHECK")
    BY <1>2, SyncFit, SyncStays DEF Fit, Stays, Moved
  <2>2. \/ Probe(s, b) = ready
        \/ ~ready.abort /\ Probe(s, b) = stop
        \/ Probe(s, b) = done /\ done.abort
        \/ ~ready.abort /\ ~done.abort /\ Probe(s, b) = next
    BY <1>2 DEF Probe
  <2> HIDE DEF ready
  <2>3. Moved(ready, far) /\ (~far.abort /\ far.st # "CHECK" => far.plan = b.target)
    BY <2>1, MoveToMoved DEF Fit
  <2>4. Shape(far) /\ Mem(far.m) /\ Offs(far) /\ PlanEnd(far) /\ far.gc = s.gc
    BY <2>1, <2>3 DEF Moved, Fit, Offs
  <2> HIDE DEF far
  <2>5. Stays(far, done) /\ (~far.abort /\ far.st # "CHECK" => done.path = <<>> /\ done.pos = End(far))
    BY <2>4, SyncStays
  <2>6. Shape(done) /\ Mem(done.m) /\ Offs(done) /\ PlanEnd(done) /\ done.gc = s.gc /\ done.abort = far.abort
    BY <2>4, <2>5 DEF Stays, Moved, Offs
  <2> HIDE DEF done
  <2>7. done.abort => Fit(done)
    BY <2>6 DEF Fit, PosPlan
  <2>8. ~ready.abort => Fit(stop) /\ stop.gc = s.gc
    <3>1. /\ DOMAIN stop = MachineFields /\ stop.m = ready.m /\ stop.abort = ready.abort /\ stop.pos = ready.pos
          /\ stop.plan = ready.plan /\ stop.path = ready.path /\ stop.cool = ready.cool
          /\ stop.gc = ready.gc /\ stop.st = "ALARM"
      BY <2>1 DEF Fit, Shape, MachineFields
    <3> HIDE DEF stop
    <3> QED
      BY <2>1, <3>1 DEF Fit, Shape, Offs, PlanEnd, End, PosPlan
  <2>9. ~ready.abort /\ ~done.abort => Fit(next) /\ next.gc.modal = s.gc.modal
    <3> SUFFICES ASSUME ~ready.abort, ~done.abort PROVE Fit(next) /\ next.gc.modal = s.gc.modal
      OBVIOUS
    <3>1. ~far.abort /\ far.st # "CHECK"
      BY <2>1, <2>3, <2>6 DEF Moved
    <3>2. done.path = <<>> /\ done.pos = b.target
      BY <2>3, <2>4, <2>5, <3>1 DEF PlanEnd
    <3>3. done.st # "CHECK"
      BY <2>5, <3>1 DEF Stays, Moved
    <3>4. /\ DOMAIN next = MachineFields /\ next.m = done.m /\ next.abort = done.abort /\ next.pos = done.pos
          /\ next.plan = done.pos /\ next.path = done.path /\ next.cool = done.cool
          /\ next.gc = [done.gc EXCEPT !.pos = b.target]
          /\ next.st = IF b.modal.motion = "G384" THEN "ALARM" ELSE done.st
      BY <2>6 DEF Shape, MachineFields
    <3> HIDE DEF next
    <3>5. done.gc \in Parsers
      BY <2>6 DEF Shape
    <3>6. /\ next.gc \in Parsers /\ next.gc.coord = done.gc.coord /\ next.gc.pos = b.target
          /\ next.gc.modal = done.gc.modal
      BY <3>4, <3>5 DEF Parsers
    <3>7. Shape(next)
      BY <2>6, <3>4, <3>6 DEF Shape
    <3>8. Offs(next) /\ PlanEnd(next) /\ PosPlan(next)
      BY <2>6, <3>2, <3>3, <3>4, <3>6 DEF Offs, PlanEnd, End, PosPlan
    <3> QED
      BY <2>6, <3>4, <3>6, <3>7, <3>8 DEF Fit
  <2> HIDE DEF stop, next
  <2> QED
    BY <2>1, <2>2, <2>6, <2>7, <2>8, <2>9
<1> QED
  BY <1>1, <1>2

\* The motion of a line.
LEMMA MotionFit ==
  ASSUME NEW s, Fit(s), NEW b, b.target \in Point
  PROVE  Fit(Motion(s, b)) /\ Motion(s, b).gc.modal = s.gc.modal
<1> DEFINE t == [MoveTo(s, b.target) EXCEPT !.gc.pos = b.target]
<1>1. Motion(s, b) \in {s, Probe(s, b), t}
  BY DEF Motion
<1>2. Fit(t) /\ t.gc.modal = s.gc.modal
  BY MoveFit DEF Fit
<1> HIDE DEF t
<1> QED
  BY <1>1, <1>2, ProbeFit

\* The end of a program: the offset of G54 is loaded, which it never fails to be.
LEMMA ProgramEndFit ==
  ASSUME NEW s, Fit(s)
  PROVE  LET r == ProgramEnd(s) IN r.ok /\ Fit(r.s) /\ r.s.gc.modal.flow = "running"
<1> DEFINE modal == [s.gc.modal EXCEPT !.motion = "G1", !.plane = "G17", !.distance = "G90",
                                       !.feed = "G94", !.sel = 0, !.coolant = FALSE]
           t == [s EXCEPT !.gc.modal = modal]
           r == ReadCoord(t.m, 0)
           loaded == [t EXCEPT !.m = r.m, !.gc.coord = r.value]
           u == [t EXCEPT !.gc.modal.flow = "running"]
           v == [loaded EXCEPT !.gc.modal.flow = "running", !.cool = IF t.abort THEN loaded.cool ELSE FALSE]
<1>0. s.gc \in Parsers /\ s.gc.modal \in Modals /\ 0 \in Systems
  BY DEF Fit, Shape, Parsers, Systems
<1>1. modal \in Modals /\ modal.sel = 0
  <2> DEFINE half == [s.gc.modal EXCEPT !.motion = "G1", !.plane = "G17", !.distance = "G90"]
  <2>1. half \in Modals
    BY <1>0, GroupModes DEF Modals
  <2>2. modal = [half EXCEPT !.feed = "G94", !.sel = 0, !.coolant = FALSE]
    OBVIOUS
  <2> HIDE DEF half, modal
  <2>3. "G94" \in Groups[6] /\ 0 \in 0..5
    BY GroupModes
  <2> QED
    BY <2>1, <2>2, <2>3 DEF Modals
<1>2. ProgramEnd(s) = IF t.st = "CHECK" THEN [ok |-> TRUE, s |-> u]
                      ELSE IF ~r.ok THEN [ok |-> FALSE, s |-> loaded]
                      ELSE [ok |-> TRUE, s |-> Sync(v)]
  BY DEF ProgramEnd
<1> HIDE DEF modal
<1>3. /\ DOMAIN t = MachineFields /\ t.m = s.m /\ t.st = s.st /\ t.abort = s.abort
      /\ t.pos = s.pos /\ t.plan = s.plan /\ t.path = s.path /\ t.cool = s.cool
      /\ t.gc = [s.gc EXCEPT !.modal = modal]
  BY DEF Fit, Shape, MachineFields
<1> HIDE DEF t
<1>4. /\ t.gc \in Parsers /\ t.gc.coord = s.gc.coord /\ t.gc.pos = s.gc.pos /\ t.gc.modal = modal
  BY <1>0, <1>1, <1>3 DEF Parsers
<1> DEFINE done == [modal EXCEPT !.flow = "running"]
<1>5. done \in Modals /\ done.sel = 0 /\ done.flow = "running"
  BY <1>1 DEF Modals
<1> HIDE DEF done
<1>6. CASE t.st = "CHECK"
  <2>1. /\ DOMAIN u = MachineFields /\ u.m = s.m /\ u.st = s.st /\ u.abort = s.abort
        /\ u.pos = s.pos /\ u.plan = s.plan /\ u.path = s.path /\ u.cool = s.cool
        /\ u.gc = [t.gc EXCEPT !.modal = done]
    BY <1>3, <1>4 DEF MachineFields, Parsers, done
  <2> HIDE DEF u
  <2>2. /\ u.gc \in Parsers /\ u.gc.coord = s.gc.coord /\ u.gc.pos = s.gc.pos /\ u.gc.modal = done
    BY <1>4, <1>5, <2>1 DEF Parsers
  <2>3. Fit(u)
    BY <1>3, <1>6, <2>1, <2>2 DEF Fit, Shape, Offs, PlanEnd, End, PosPlan
  <2> QED
    BY <1>2, <1>5, <1>6, <2>2, <2>3
<1>7. CASE t.st # "CHECK"
  <2>1. s.m.image.coord[0] # Bad /\ s.m.image.coord[0] \in Point \cup {Bad}
    BY <1>0 DEF Fit, Mem, Typed, RecordsOK
  <2>2. r.ok /\ r.m = s.m /\ r.value = s.m.image.coord[0]
    BY <1>3, <2>1 DEF ReadCoord
  <2> HIDE DEF r
  <2>3. /\ DOMAIN loaded = MachineFields /\ loaded.m = s.m /\ loaded.st = s.st /\ loaded.abort = s.abort
        /\ loaded.pos = s.pos /\ loaded.plan = s.plan /\ loaded.path = s.path /\ loaded.cool = s.cool
        /\ loaded.gc = [t.gc EXCEPT !.coord = r.value]
    BY <1>3, <2>2 DEF MachineFields
  <2> HIDE DEF loaded
  <2>4. /\ loaded.gc \in Parsers /\ loaded.gc.coord = r.value /\ loaded.gc.pos = s.gc.pos /\ loaded.gc.modal = modal
    BY <1>4, <2>1, <2>2, <2>3 DEF Parsers
  <2>5. /\ DOMAIN v = MachineFields /\ v.m = s.m /\ v.st = s.st /\ v.abort = s.abort
        /\ v.pos = s.pos /\ v.plan = s.plan /\ v.path = s.path /\ v.cool \in BOOLEAN
        /\ v.gc = [loaded.gc EXCEPT !.modal = done]
    BY <2>3, <2>4 DEF Fit, Shape, MachineFields, Parsers, done
  <2> HIDE DEF v
  <2>6. /\ v.gc \in Parsers /\ v.gc.coord = r.value /\ v.gc.pos = s.gc.pos /\ v.gc.modal = done
    BY <1>5, <2>4, <2>5 DEF Parsers
  <2>7. Fit(v)
    BY <1>5, <2>2, <2>5, <2>6 DEF Fit, Shape, Offs, PlanEnd, End, PosPlan
  <2>8. ProgramEnd(s) = [ok |-> TRUE, s |-> Sync(v)]
    BY <1>2, <1>7, <2>2
  <2> QED
    BY <1>5, <2>6, <2>7, <2>8, SyncFit
<1> QED
  BY <1>6, <1>7

\* The flow of the program ends the line: it runs again, unless the program was stopped.
LEMMA FlowFit ==
  ASSUME NEW s, Fit(s)
  PROVE  LET r == ProgramFlow(s, s.gc.modal.flow) IN r.ok /\ Fit(r.s) /\ r.s.gc.modal.flow = "running"
<1> DEFINE flow == s.gc.modal.flow
           y == Sync(s)
           u == [y EXCEPT !.gc.modal.flow = "running"]
<1>0. s.gc \in Parsers /\ s.gc.modal \in Modals /\ flow \in {"running", "M0", "M2", "M30"}
  BY DEF Fit, Shape, Parsers, Modals
<1>1. Fit(y) /\ y.gc = s.gc
  BY SyncFit
<1> HIDE DEF y
<1> DEFINE modal == [y.gc.modal EXCEPT !.flow = "running"]
<1>2. modal \in Modals /\ modal.sel = y.gc.modal.sel /\ modal.flow = "running"
  BY <1>0, <1>1 DEF Modals
<1> HIDE DEF modal
<1>3. /\ DOMAIN u = MachineFields /\ u.m = y.m /\ u.st = y.st /\ u.abort = y.abort
      /\ u.pos = y.pos /\ u.plan = y.plan /\ u.path = y.path /\ u.cool = y.cool
      /\ u.gc = [y.gc EXCEPT !.modal = modal]
  BY <1>0, <1>1 DEF Fit, Shape, MachineFields, Parsers, modal
<1> HIDE DEF u
<1>4. /\ u.gc \in Parsers /\ u.gc.coord = y.gc.coord /\ u.gc.pos = y.gc.pos /\ u.gc.modal = modal
  BY <1>0, <1>1, <1>2, <1>3 DEF Parsers
<1>5. Fit(u)
  BY <1>1, <1>2, <1>3, <1>4, ParserFit
<1>6. CASE flow = "running"
  BY <1>6 DEF ProgramFlow
<1>7. CASE flow = "M0"
  <2>1. ProgramFlow(s, flow) = [ok |-> TRUE, s |-> u]
    BY <1>7 DEF ProgramFlow, u, y
  <2> QED
    BY <1>2, <1>4, <1>5, <2>1
<1>8. CASE flow \in {"M2", "M30"}
  <2>1. ProgramFlow(s, flow) = ProgramEnd(y)
    BY <1>8 DEF ProgramFlow, y
  <2> QED
    BY <1>1, <2>1, ProgramEndFit
<1> QED
  BY <1>0, <1>6, <1>7, <1>8

\* An accepted line, executed: its parts in a chain.
LEMMA ExecuteFit ==
  ASSUME NEW s, Fit(s), NEW b, Accepted(s.gc, s.m, b)
  PROVE  LET r == Execute(s, b) IN r.ok /\ Fit(r.s) /\ r.s.gc.modal.flow = "running"
<1> DEFINE feed == SetFeedAndCoolant(s, b)
           dwelt == Dwell(feed, b)
           fed == SetToolOffset(dwelt, b)
           sel == SelectSystem(fed, b)
           placed == NonModal(sel, b)
           modal == [placed EXCEPT !.gc.modal = b.modal]
           moved == Motion(modal, b)
<1>0. /\ b.modal \in Modals /\ b.rate \in Nat /\ b.v \in [ToSet(Letters) -> Int] /\ b.record \in Systems
      /\ b.data \in Point /\ b.target \in Point
  BY DEF Accepted
<1>1. Prepares(s, feed)
  BY <1>0, FeedFit
<1>2. Prepares(feed, dwelt)
  BY <1>0, <1>1, ToolFit DEF Prepares
<1>3. Prepares(dwelt, fed)
  BY <1>0, <1>2, ToolFit DEF Prepares
<1>4. Execute(s, b) = ProgramFlow(moved, b.modal.flow)
  BY DEF Execute
<1> HIDE DEF feed, dwelt, fed
<1>5. Fit(fed) /\ Accepted(fed.gc, fed.m, b)
  BY <1>1, <1>2, <1>3 DEF Prepares, Accepted
<1>6. Fit(sel) /\ sel.gc.modal.sel = b.modal.sel
  BY <1>5, SelectFit
<1> HIDE DEF sel
<1>7. Fit(placed) /\ placed.gc.modal.sel = b.modal.sel
  BY <1>0, <1>6, NonModalFit
<1> HIDE DEF placed
<1>8. Fit(modal) /\ modal.gc.modal = b.modal
  <2>1. /\ DOMAIN modal = MachineFields /\ modal.m = placed.m /\ modal.st = placed.st
        /\ modal.abort = placed.abort /\ modal.pos = placed.pos /\ modal.plan = placed.plan
        /\ modal.path = placed.path /\ modal.cool = placed.cool
        /\ modal.gc = [placed.gc EXCEPT !.modal = b.modal]
    BY <1>7 DEF Fit, Shape, MachineFields
  <2>2. placed.gc \in Parsers
    BY <1>7 DEF Fit, Shape
  <2> HIDE DEF modal
  <2>3. /\ modal.gc \in Parsers /\ modal.gc.coord = placed.gc.coord /\ modal.gc.pos = placed.gc.pos
        /\ modal.gc.modal = b.modal
    BY <1>0, <2>1, <2>2 DEF Parsers
  <2> QED
    BY <1>7, <2>1, <2>3, ParserFit
<1> HIDE DEF modal
<1>9. Fit(moved) /\ moved.gc.modal.flow = b.modal.flow
  BY <1>0, <1>8, MotionFit
<1> HIDE DEF moved
<1> QED
  BY <1>4, <1>9, FlowFit

\* A jog.
LEMMA JogFit ==
  ASSUME NEW s, Fit(s), NEW b, b.target \in Point
  PROVE  Fit(Jog(s, b)) /\ Jog(s, b).gc.modal = s.gc.modal
<1> DEFINE t == MoveTo(s, b.target)
           u == [t EXCEPT !.gc.pos = b.target]
           j == [t EXCEPT !.gc.pos = b.target, !.st = IF t.st = "IDLE" /\ t.path # <<>> THEN "JOG" ELSE t.st]
<1>1. Jog(s, b) = j
  BY DEF Jog
<1>2. Shape(t) /\ Fit(u) /\ u.gc.modal = s.gc.modal
  BY MoveFit DEF Fit
<1> HIDE DEF t
<1>3. /\ DOMAIN j = MachineFields /\ j.gc = u.gc /\ j.m = u.m /\ j.abort = u.abort /\ j.pos = u.pos
      /\ j.plan = u.plan /\ j.path = u.path /\ j.cool = u.cool
      /\ u.st = t.st /\ j.st = IF t.st = "IDLE" /\ t.path # <<>> THEN "JOG" ELSE t.st
  BY <1>2 DEF Shape, MachineFields
<1> HIDE DEF u, j
<1>4. Fit(j)
  BY <1>2, <1>3 DEF Fit, Shape, Offs, PlanEnd, End, PosPlan
<1> QED
  BY <1>1, <1>2, <1>3, <1>4

\* A memory whose good records are as they were.
LEMMA MemFit ==
  ASSUME NEW s, Fit(s), NEW n, Repaired(s.m, n)
  PROVE  LET t == [s EXCEPT !.m = n]
         IN  Fit(t) /\ t.gc = s.gc /\ t.plan = s.plan /\ t.cool = s.cool /\ t.m = n
<1> DEFINE t == [s EXCEPT !.m = n]
<1>1. /\ DOMAIN t = MachineFields /\ t.gc = s.gc /\ t.m = n /\ t.st = s.st /\ t.abort = s.abort
      /\ t.pos = s.pos /\ t.plan = s.plan /\ t.path = s.path /\ t.cool = s.cool
  BY DEF Fit, Shape, MachineFields
<1> HIDE DEF t
<1>2. s.gc.modal.sel \in Systems /\ s.gc.coord # Bad /\ 0 \in Systems
  BY ZeroPoint DEF Fit, Shape, Parsers, Modals, Systems
<1>3. Offs(t)
  BY <1>1, <1>2 DEF Fit, Offs, Repaired
<1>4. Mem(n)
  BY <1>2 DEF Fit, Mem, Repaired
<1>5. Shape(t) /\ PlanEnd(t) /\ PosPlan(t)
  BY <1>1 DEF Fit, Shape, PlanEnd, End, PosPlan
<1> QED
  BY <1>1, <1>3, <1>4, <1>5 DEF Fit, t

\* What a line that is refused leaves as it was.
Refused(s, t) == t.gc = s.gc /\ t.plan = s.plan /\ t.cool = s.cool /\ Reset1(s.m, t.m)

\* A record that was reset is stored once the motion has ended.
LEMMA RereadFit ==
  ASSUME NEW s, Fit(s), NEW n, Repaired(s.m, n)
  PROVE  LET t == Reread(s, n)
         IN  /\ Fit(t) /\ t.gc = s.gc /\ t.m = n
             /\ Reset1(s.m, n) => Refused(s, t)
<1> DEFINE y == Sync(s)
           t == [y EXCEPT !.m = n]
<1>1. Reread(s, n) = IF n = s.m THEN s ELSE t
  BY DEF Reread
<1>2. Fit(y) /\ y.gc = s.gc /\ y.m = s.m /\ y.plan = s.plan /\ y.cool = s.cool
  BY SyncFit, SyncStays DEF Fit, Stays
<1> HIDE DEF y
<1>3. Fit(t) /\ t.gc = y.gc /\ t.plan = y.plan /\ t.cool = y.cool /\ t.m = n
  BY <1>2, MemFit
<1> HIDE DEF t
<1> QED
  BY <1>1, <1>2, <1>3 DEF Refused

\* The answer to a line: a machine as it should be, and changed little if the line is refused.
Answered(s, r) ==
  /\ Fit(r.s) /\ r.s.gc.modal.flow = "running"
  /\ ~r.ok => Refused(s, r.s)

\* A line of G-code: accepted, it leaves the machine as it should be, and refused it changes little.
LEMMA GcodeFit ==
  ASSUME NEW s, Fit(s), s.gc.modal.flow = "running", NEW words \in Texts, NEW jog, NEW junk
  PROVE  Answered(s, GcExecuteLine(s, words, jog, junk))
<1> DEFINE p == Parse(s.gc, words, jog, junk)
           c == Checked(s.gc, s.m, p)
           y == Reread(s, c.m)
<1>1. s.gc \in Parsers /\ Typed(s.m)
  BY DEF Fit, Shape, Mem
<1>2. Block(s.gc, p)
  BY <1>1, ParseOK
<1> HIDE DEF p
<1>3. Reset1(s.m, c.m) /\ (c.ok => c.m = s.m /\ Accepted(s.gc, s.m, c.b))
  BY <1>1, <1>2, CheckedOK
<1>4. GcExecuteLine(s, words, jog, junk) = Finish(y, c, jog)
  BY DEF GcExecuteLine, Rest, c, p
<1> HIDE DEF c
<1>5. Repaired(s.m, c.m)
  BY <1>1, <1>3, Reset1OK
<1>6. Fit(y) /\ y.gc = s.gc /\ y.m = c.m /\ Refused(s, y)
  BY <1>3, <1>5, RereadFit
<1> HIDE DEF y
<1>7. c.ok => Accepted(y.gc, y.m, c.b) /\ c.b.target \in Point
  BY <1>3, <1>6 DEF Accepted
<1>8. CASE c.ok /\ ~jog
  <2>1. Finish(y, c, jog) = Execute(y, c.b)
    BY <1>8 DEF Finish
  <2> QED
    BY <1>4, <1>6, <1>7, <1>8, <2>1, ExecuteFit DEF Answered
<1>9. CASE c.ok /\ jog /\ ~JogFails(y, c.b)
  <2>1. Finish(y, c, jog) = [ok |-> TRUE, s |-> Jog(y, c.b)]
    BY <1>9 DEF Finish
  <2> DEFINE j == Jog(y, c.b)
  <2>2. c.b.target \in Point
    BY <1>7, <1>9
  <2>3. Fit(j) /\ j.gc.modal = y.gc.modal
    BY <1>6, <2>2, JogFit
  <2> HIDE DEF j
  <2>4. Finish(y, c, jog) = [ok |-> TRUE, s |-> j]
    BY <2>1 DEF j
  <2> QED
    BY <1>4, <1>6, <2>3, <2>4 DEF Answered
<1>10. CASE ~c.ok \/ (jog /\ JogFails(y, c.b))
  <2>1. Finish(y, c, jog) = [ok |-> FALSE, s |-> y]
    BY <1>10 DEF Finish
  <2> QED
    BY <1>4, <1>6, <2>1 DEF Answered
<1> QED
  BY <1>8, <1>9, <1>10

----------------------------------------------------------------------------
(* The `$` commands, and the starts *)

\* A machine between lines.
Ready(s) == Fit(s) /\ s.gc.modal.flow = "running"

\* A machine that stops is as it should be, whatever its offsets and positions.
LEMMA ResetFit ==
  ASSUME NEW s, Shape(s), Mem(s.m)
  PROVE  Fit(McReset(s)) /\ McReset(s).gc = s.gc /\ McReset(s).m = s.m /\ McReset(s).abort
<1> DEFINE t == McReset(s)
<1>1. /\ DOMAIN t = MachineFields /\ t.gc = s.gc /\ t.m = s.m /\ t.abort = TRUE /\ t.cool = FALSE
      /\ t.pos = s.pos /\ t.plan = s.plan /\ t.path = s.path
      /\ t.st = IF s.st \in {"CYCLE", "JOG"} THEN "ALARM" ELSE s.st
  BY DEF McReset, Shape, MachineFields
<1> HIDE DEF t
<1> QED
  BY <1>1 DEF Fit, Shape, Offs, PlanEnd, PosPlan, t

\* A command that is refused or accepted and leaves the machine as it should be.
LEMMA AnsweredFit ==
  ASSUME NEW s, Ready(s)
  PROVE  Answered(s, Answer(FALSE, s)) /\ \A t : Ready(t) => Answered(s, Answer(TRUE, t))
  BY DEF Ready, Answered, Answer, Refused, Reset1

\* A change of state that the offsets and the moves do not depend on.
LEMMA StateFit ==
  ASSUME NEW s, Ready(s), NEW x \in {"IDLE", "CYCLE", "JOG", "CHECK", "ALARM"},
         s.st = "CHECK" => x = "CHECK"
  PROVE  Ready([s EXCEPT !.st = x])
<1> DEFINE t == [s EXCEPT !.st = x]
<1>1. /\ DOMAIN t = MachineFields /\ t.gc = s.gc /\ t.m = s.m /\ t.abort = s.abort /\ t.cool = s.cool
      /\ t.pos = s.pos /\ t.plan = s.plan /\ t.path = s.path /\ t.st = x
  BY DEF Ready, Fit, Shape, MachineFields
<1> HIDE DEF t
<1> QED
  BY <1>1 DEF Ready, Fit, Shape, Offs, PlanEnd, End, PosPlan, t

\* $C and $X.
LEMMA ToggleFit ==
  ASSUME NEW s, Ready(s)
  PROVE  Answered(s, ToggleCheck(s)) /\ Ready(Unlock(s))
<1>1. Ready(McReset(s))
  BY ResetFit DEF Ready, Fit
<1>2. s.st = "IDLE" => Ready([s EXCEPT !.st = "CHECK"])
  BY StateFit
<1>3. \/ ToggleCheck(s) = Answer(TRUE, McReset(s))
      \/ s.st = "IDLE" /\ ToggleCheck(s) = Answer(TRUE, [s EXCEPT !.st = "CHECK"])
      \/ ToggleCheck(s) = Answer(FALSE, s)
  BY DEF ToggleCheck
<1>4. Ready(Unlock(s))
  <2> DEFINE x == IF s.st = "ALARM" THEN "IDLE" ELSE s.st
  <2>1. x \in {"IDLE", "CYCLE", "JOG", "CHECK", "ALARM"} /\ (s.st = "CHECK" => x = "CHECK")
    BY DEF Ready, Fit, Shape
  <2>2. Unlock(s) = [s EXCEPT !.st = x]
    BY DEF Unlock
  <2> HIDE DEF x
  <2> QED
    BY <2>1, <2>2, StateFit
<1> QED
  BY <1>1, <1>2, <1>3, <1>4, AnsweredFit

\* A machine between lines with its memory repaired.
LEMMA SetMem ==
  ASSUME NEW s, Ready(s), NEW n, Repaired(s.m, n)
  PROVE  Ready([s EXCEPT !.m = n]) /\ Ready(Reread(s, n))
  BY MemFit, RereadFit DEF Ready

\* $N: the line is executed, then stored.
LEMMA SetStartupFit ==
  ASSUME NEW s, Ready(s), NEW l, l.n \in Nat, l.words \in Texts, NEW junk
  PROVE  Answered(s, SetStartup(s, l, junk))
<1> DEFINE r == GcExecuteLine(s, l.words, FALSE, junk)
           t == Sync(r.s)
           n == StoreStartup(t.m, l.n, l.words)
           u == [t EXCEPT !.m = n]
<1>1. Answered(s, r)
  BY GcodeFit DEF Ready
<1>2. \/ SetStartup(s, l, junk) = Answer(FALSE, s)
      \/ ~r.ok /\ SetStartup(s, l, junk) = Answer(FALSE, r.s)
      \/ SetStartup(s, l, junk) = Answer(TRUE, u)
  BY DEF SetStartup
<1> HIDE DEF r
<1>3. Ready(t)
  BY <1>1, SyncFit DEF Answered, Ready
<1> HIDE DEF t
<1>4. Repaired(t.m, n)
  BY <1>3, StoreStartupTyped DEF Ready, Fit, Mem
<1> HIDE DEF n
<1>5. Ready(u)
  BY <1>3, <1>4, SetMem
<1>6. ~r.ok => Answered(s, Answer(FALSE, r.s))
  BY <1>1 DEF Answered, Answer
<1> HIDE DEF u
<1> QED
  BY <1>2, <1>5, <1>6, AnsweredFit

\* A memory with no bad coordinate record.
LEMMA GoodMem ==
  ASSUME NEW m, Typed(m), AllGood(m)
  PROVE  Mem(m)
  BY DEF Mem, AllGood, Tidy, Systems

\* $RST is a reset.
LEMMA RestoreFit ==
  ASSUME NEW s, Ready(s), NEW what
  PROVE  Ready(RestoreStored(s, what))
<1> DEFINE y == Sync(s)
           n == IF what = "all" THEN RestoreAll(y.m) ELSE RestoreParameters(y.m)
           t == [y EXCEPT !.m = n]
           d == [s EXCEPT !.m = RestoreDefaults(s.m)]
<1>1. RestoreStored(s, what) \in {McReset(d), McReset(t)}
  BY DEF RestoreStored
<1>2. Typed(s.m)
  BY DEF Ready, Fit, Mem
<1>3. Ready(d)
  BY <1>2, SettingsTyped, SetMem
<1> HIDE DEF d
<1>4. Ready(y) /\ y.m = s.m
  BY SyncFit DEF Ready
<1> HIDE DEF y
<1>5. Mem(n)
  BY <1>2, <1>4, RestoreAllTyped, RestoreParametersTyped, GoodMem
<1> HIDE DEF n
<1>6. /\ DOMAIN t = MachineFields /\ t.gc = y.gc /\ t.m = n /\ t.st = y.st /\ t.abort = y.abort
      /\ t.pos = y.pos /\ t.plan = y.plan /\ t.path = y.path /\ t.cool = y.cool
  BY <1>4 DEF Ready, Fit, Shape, MachineFields
<1> HIDE DEF t
<1>7. Shape(t) /\ Mem(t.m) /\ t.gc.modal.flow = "running"
  BY <1>4, <1>5, <1>6 DEF Ready, Fit, Shape
<1>8. Ready(McReset(t))
  BY <1>7, ResetFit DEF Ready
<1>9. Ready(McReset(d))
  BY <1>3, ResetFit DEF Ready, Fit
<1> QED
  BY <1>1, <1>8, <1>9

\* The `$` commands, one by one.
LEMMA SystemLineFit ==
  ASSUME NEW s, Ready(s), NEW l, l.cmd \in LineCommands \ {"gcode"}, l.n \in Nat, l.v \in Int,
         l.words \in Texts, NEW junk
  PROVE  Answered(s, SystemLine(s, l, junk))
<1> DEFINE r == SystemLine(s, l, junk)
<1>0. Typed(s.m) /\ Answered(s, Answer(FALSE, s))
  BY AnsweredFit DEF Ready, Fit, Mem
<1>1. CASE l.cmd = "jog"
  <2>1. r \in {Answer(FALSE, s), GcExecuteLine(s, l.words, TRUE, junk)}
    BY <1>1 DEF SystemLine
  <2> QED
    BY <1>0, <2>1, GcodeFit DEF Ready
<1>2. CASE l.cmd = "check"
  BY <1>2, ToggleFit DEF SystemLine
<1>3. CASE l.cmd = "unlock"
  <2>1. r = Answer(TRUE, Unlock(s))
    BY <1>3 DEF SystemLine
  <2> QED
    BY <2>1, ToggleFit, AnsweredFit
<1>4. CASE l.cmd = "startup"
  <2>1. r \in {Answer(FALSE, s), SetStartup(s, l, junk)}
    BY <1>4 DEF SystemLine
  <2> QED
    BY <1>0, <2>1, SetStartupFit
<1>5. CASE l.cmd = "setting"
  <2> DEFINE q == StoreSetting(s.m, l.n, l.v)
             t == [s EXCEPT !.m = q.m]
  <2>1. r \in {Answer(FALSE, s), Answer(q.ok, t)}
    BY <1>5 DEF SystemLine
  <2>2. Repaired(s.m, q.m) /\ (q.ok \/ q.m = s.m)
    BY <1>0, SettingsTyped
  <2> HIDE DEF q
  <2>3. Ready(t) /\ t.gc = s.gc /\ t.plan = s.plan /\ t.cool = s.cool /\ t.m = q.m
    BY <2>2, SetMem, MemFit DEF Ready
  <2> HIDE DEF t
  <2>4. Answered(s, Answer(q.ok, t))
    BY <2>2, <2>3 DEF Ready, Answered, Answer, Refused, Reset1
  <2> QED
    BY <1>0, <2>1, <2>4
<1>6. CASE l.cmd = "restore"
  <2>1. r \in {Answer(FALSE, s), Answer(TRUE, RestoreStored(s, l.arg))}
    BY <1>6 DEF SystemLine
  <2> QED
    BY <1>0, <2>1, RestoreFit, AnsweredFit
<1>7. CASE l.cmd = "info"
  <2> DEFINE n == StoreInfo(s.m, <<l.arg>>)
  <2>1. r \in {Answer(FALSE, s), Answer(TRUE, [s EXCEPT !.m = n])}
    BY <1>7 DEF SystemLine
  <2>2. Repaired(s.m, n)
    BY <1>0, StoreInfoTyped
  <2> HIDE DEF n
  <2>3. Ready([s EXCEPT !.m = n])
    BY <2>2, SetMem
  <2> QED
    BY <1>0, <2>1, <2>3, AnsweredFit
<1>8. CASE l.cmd = "parameters"
  <2>1. r \in {Answer(FALSE, s), Answer(TRUE, Reread(s, ShowParameters(s.m)))}
    BY <1>8 DEF SystemLine
  <2>2. Ready(Reread(s, ShowParameters(s.m)))
    BY <1>0, ShowTyped, Reset1OK, SetMem
  <2> QED
    BY <1>0, <2>1, <2>2, AnsweredFit
<1>9. CASE l.cmd = "lines"
  <2>1. r \in {Answer(FALSE, s), Answer(TRUE, Reread(s, ShowStartup(s.m)))}
    BY <1>9 DEF SystemLine
  <2>2. Ready(Reread(s, ShowStartup(s.m)))
    BY <1>0, ShowTyped, SetMem
  <2> QED
    BY <1>0, <2>1, <2>2, AnsweredFit
<1>10. CASE l.cmd = "version"
  <2> DEFINE n == ReadInfo(s.m)
  <2>1. r \in {Answer(FALSE, s), Answer(TRUE, [s EXCEPT !.m = n])}
    BY <1>10 DEF SystemLine
  <2>2. Repaired(s.m, n)
    BY <1>0, TextsRead
  <2> HIDE DEF n
  <2>3. Ready([s EXCEPT !.m = n])
    BY <2>2, SetMem
  <2> QED
    BY <1>0, <2>1, <2>3, AnsweredFit
<1> QED
  BY <1>1, <1>2, <1>3, <1>4, <1>5, <1>6, <1>7, <1>8, <1>9, <1>10 DEF LineCommands

\* Any line of a client.
LEMMA ExecuteLineFit ==
  ASSUME NEW s, Ready(s), NEW l \in Lines, NEW junk
  PROVE  Answered(s, ExecuteLine(s, l, junk))
<1>0. l.cmd \in LineCommands /\ l.n \in Nat /\ l.v \in Int /\ l.words \in Texts
  BY LinesAssumption
<1>1. \/ l.cmd # "gcode" /\ ExecuteLine(s, l, junk) = SystemLine(s, l, junk)
      \/ ExecuteLine(s, l, junk) \in {Answer(FALSE, s), GcExecuteLine(s, l.words, FALSE, junk)}
  BY DEF ExecuteLine
<1> QED
  BY <1>0, <1>1, AnsweredFit, SystemLineFit, GcodeFit DEF Ready

\* A startup line that is read and executed.
LEMMA StartupLineFit ==
  ASSUME NEW s, Ready(s), NEW n \in StartupLines
  PROVE  Ready(StartupLine(s, n))
<1> DEFINE r == ReadStartup(s.m, n)
           t == [s EXCEPT !.m = r.m]
<1>1. StartupLine(s, n) \in {t, GcExecuteLine(t, r.value, FALSE, LetterBit("F")).s}
  BY DEF StartupLine
<1>2. Repaired(s.m, r.m) /\ r.value \in Texts
  BY TextsRead DEF Ready, Fit, Mem
<1> HIDE DEF r
<1>3. Ready(t)
  BY <1>2, SetMem
<1> HIDE DEF t
<1>4. Answered(t, GcExecuteLine(t, r.value, FALSE, LetterBit("F")))
  BY <1>2, <1>3, GcodeFit DEF Ready
<1> QED
  BY <1>1, <1>3, <1>4 DEF Answered, Ready

\* The modes at a start.
LEMMA DefaultModes == DefaultModal \in Modals /\ DefaultModal.sel = 0 /\ DefaultModal.flow = "running"
  BY GroupModes DEF DefaultModal, Modals

\* The start of the main loop: the parser reads the offset of G54, and is where the machine is.
LEMMA RestartedFit ==
  ASSUME NEW s, Shape(s), Typed(s.m), Tidy(s.m)
  PROVE  Ready(Restarted(s))
<1> DEFINE r == ReadCoord(s.m, 0)
           g == GcInit(s.m)
           p == [modal |-> DefaultModal, rate |-> 0, pos |-> s.pos, coord |-> r.value, off |-> Zero, tlo |-> 0]
           t == [s EXCEPT !.m = g.m, !.gc = [g.gc EXCEPT !.pos = s.pos], !.plan = s.pos, !.path = <<>>,
                     !.cool = FALSE, !.abort = FALSE, !.st = IF s.st = "ALARM" THEN s.st ELSE "IDLE"]
           u == StartupLine(t, 0)
           v == StartupLine(u, 1)
<1>1. Restarted(s) \in {t, v}
  BY DEF Restarted
<1>2. Reset1(s.m, r.m) /\ r.value \in Point /\ r.m.image.coord[0] = r.value
  BY ReadCoordReset DEF Systems
<1>3. Repaired(s.m, r.m)
  BY <1>2, Reset1OK
<1>4. Mem(r.m)
  BY <1>2, <1>3, ZeroPoint DEF Mem, Repaired
<1>5. g.m = r.m /\ [g.gc EXCEPT !.pos = s.pos] = p
  BY DEF GcInit
<1> HIDE DEF r, g
<1>6. /\ p \in Parsers /\ p.modal.sel = 0 /\ p.modal.flow = "running" /\ p.coord = r.value /\ p.pos = s.pos
  BY <1>2, DefaultModes, ZeroPoint DEF Parsers, Shape
<1> HIDE DEF p
<1>7. /\ DOMAIN t = MachineFields /\ t.gc = p /\ t.m = r.m /\ t.plan = s.pos /\ t.path = <<>>
      /\ t.pos = s.pos /\ t.cool = FALSE /\ t.abort = FALSE
      /\ t.st = IF s.st = "ALARM" THEN s.st ELSE "IDLE"
  BY <1>5 DEF Shape, MachineFields
<1> HIDE DEF t
<1>8. Shape(t)
  <2>1. <<>> \in Seq(Point) /\ t.st \in {"IDLE", "CYCLE", "JOG", "CHECK", "ALARM"}
    BY <1>7 DEF Shape
  <2> QED
    BY <1>6, <1>7, <2>1 DEF Shape
<1>9. Offs(t) /\ PlanEnd(t) /\ PosPlan(t)
  BY <1>2, <1>6, <1>7 DEF Offs, PlanEnd, End, PosPlan
<1>10. Ready(t)
  BY <1>4, <1>6, <1>7, <1>8, <1>9 DEF Ready, Fit
<1>11. Ready(u)
  BY <1>10, StartupLineFit DEF StartupLines
<1> HIDE DEF u
<1>12. Ready(v)
  BY <1>11, StartupLineFit DEF StartupLines
<1> QED
  BY <1>1, <1>10, <1>12

\* A boot reads the settings, or restores all, before that.
LEMMA BootedFit ==
  ASSUME NEW s, Shape(s), Typed(s.m), s.m.image = s.m.disk
  PROVE  Ready(Booted(s))
<1> DEFINE n == SettingsInit(s.m)
           t == [s EXCEPT !.m = n, !.st = IF n.set.homing THEN "ALARM" ELSE "IDLE"]
<1>1. Booted(s) = Restarted(t)
  BY DEF Booted
<1>2. Typed(n) /\ Tidy(n)
  BY SettingsInitTyped
<1> HIDE DEF n
<1>3. /\ DOMAIN t = MachineFields /\ t.gc = s.gc /\ t.m = n /\ t.plan = s.plan /\ t.path = s.path
      /\ t.pos = s.pos /\ t.cool = s.cool /\ t.abort = s.abort
      /\ t.st = IF n.set.homing THEN "ALARM" ELSE "IDLE"
  BY DEF Shape, MachineFields
<1> HIDE DEF t
<1>4. Shape(t)
  BY <1>3 DEF Shape
<1> QED
  BY <1>1, <1>2, <1>3, <1>4, RestartedFit

----------------------------------------------------------------------------
(* The steps of the machine, and the theorems about its lines *)

\* The machine of each state; a powered one is as it should be between lines.
Whole ==
  /\ StoreInv /\ sent \in 0..MaxLines
  /\ Shape(Now) /\ gc.modal.flow = "running" /\ Typed(mem) /\ mem.log = {}
  /\ on => Ready(Now)

\* What a step makes of the machine.
LEMMA BecomeWhole ==
  ASSUME NEW s, Shape(s), Typed(s.m), s.gc.modal.flow = "running", Become(s)
  PROVE  /\ Shape(Now)' /\ (gc.modal.flow = "running")' /\ Typed(mem)' /\ (mem.log = {})'
         /\ mem'.set = s.m.set /\ mem'.image = s.m.image /\ mem'.disk = s.m.disk
         /\ Ready(s) => Ready(Now)'
<1> DEFINE n == [s.m EXCEPT !.log = {}]
<1>1. /\ gc' = s.gc /\ mem' = n /\ st' = s.st /\ abort' = s.abort
      /\ pos' = s.pos /\ plan' = s.plan /\ path' = s.path /\ cool' = s.cool
  BY DEF Become
<1>2. /\ DOMAIN n = {"set", "image", "disk", "log"} /\ n.set = s.m.set /\ n.image = s.m.image
      /\ n.disk = s.m.disk /\ n.log = {}
  BY DEF Typed, MemoryOK
<1> HIDE DEF n
<1>3. Typed(n)
  BY <1>2 DEF Typed, MemoryOK
<1>4. Mem(s.m) => Mem(n)
  BY <1>2, <1>3 DEF Mem, Tidy
<1> DEFINE t == [gc |-> s.gc, m |-> n, st |-> s.st, abort |-> s.abort, pos |-> s.pos, plan |-> s.plan,
                 path |-> s.path, cool |-> s.cool, stuck |-> FALSE]
<1>5. Now' = t
  BY <1>1 DEF Now
<1>6. /\ DOMAIN t = MachineFields /\ t.gc = s.gc /\ t.m = n /\ t.st = s.st /\ t.abort = s.abort /\ t.pos = s.pos
      /\ t.plan = s.plan /\ t.path = s.path /\ t.cool = s.cool
  BY DEF MachineFields
<1> HIDE DEF t
<1>7. Shape(t)
  BY <1>6 DEF Shape
<1>8. Ready(s) => Ready(t)
  BY <1>2, <1>4, <1>6, <1>7 DEF Ready, Fit, Offs, PlanEnd, End, PosPlan
<1> QED
  BY <1>1, <1>2, <1>3, <1>5, <1>7, <1>8

\* A step of the powered machine.
LEMMA StepWhole ==
  ASSUME Whole, StoreInv', on' \in BOOLEAN, sent' \in 0..MaxLines, NEW s, Ready(s), Become(s)
  PROVE  Whole'
<1>1. Shape(s) /\ Typed(s.m) /\ s.gc.modal.flow = "running"
  BY DEF Ready, Fit, Mem
<1>2. /\ Shape(Now)' /\ (gc.modal.flow = "running")' /\ Typed(mem)' /\ (mem.log = {})' /\ Ready(Now)'
  BY <1>1, BecomeWhole
<1> QED
  BY <1>2 DEF Whole

\* The power goes.
LEMMA OffWhole ==
  ASSUME StoreInv', sent' \in 0..MaxLines, NEW disk, ImageOK(disk), RecordsOK(disk), PowerOff(disk)
  PROVE  Whole'
<1> DEFINE s == OffMachine(disk)
           g == [modal |-> DefaultModal, rate |-> 0, pos |-> Zero, coord |-> Zero, off |-> Zero, tlo |-> 0]
<1>1. /\ DOMAIN s = MachineFields /\ s.gc = g /\ s.m = MemoryAtPowerUp(disk) /\ s.st = "IDLE" /\ s.abort = FALSE
      /\ s.pos = Zero /\ s.plan = Zero /\ s.path = <<>> /\ s.cool = FALSE
  BY DEF OffMachine, MachineFields
<1> HIDE DEF s
<1>2. g \in Parsers /\ g.modal.flow = "running"
  BY DefaultModes, ZeroPoint DEF Parsers
<1> HIDE DEF g
<1>3. <<>> \in Seq(Point)
  OBVIOUS
<1>4. Shape(s)
  BY <1>1, <1>2, <1>3, ZeroPoint DEF Shape
<1>5. Typed(s.m)
  BY <1>1, DefaultsSafe DEF MemoryAtPowerUp, Typed, MemoryOK
<1>6. Become(s) /\ ~on'
  BY DEF PowerOff, s
<1> QED
  BY <1>1, <1>2, <1>4, <1>5, <1>6, BecomeWhole DEF Whole

\* The records of an erased sector are all bad.
LEMMA ErasedTyped == RecordsOK(ErasedImage)
  BY DEF ErasedImage, RecordsOK

\* The power goes during a call.
LEMMA CutWhole ==
  ASSUME StoreInv', sent' \in 0..MaxLines, NEW m, Typed(m), CutDuring(m)
  PROVE  Whole'
<1>1. PICK disk \in m.log \cup {ErasedImage} : PowerOff(disk)
  BY DEF CutDuring
<1>2. ImageOK(disk) /\ RecordsOK(disk)
  BY <1>1, ErasedOK, ErasedTyped DEF Typed, MemoryOK
<1> QED
  BY <1>1, <1>2, OffWhole

\* Where a reset finds the machine is a point.
LEMMA StopsPoint ==
  ASSUME NEW s, Shape(s), NEW p \in StopsAt(s)
  PROVE  p \in Point
<1>1. s.path # <<>> => Head(s.path) \in Point
  BY DEF Shape
<1> QED
  BY <1>1 DEF StopsAt, Shape

\* Stopped, wherever it was.
LEMMA StoppedReady ==
  ASSUME NEW s, Shape(s), Mem(s.m), s.gc.modal.flow = "running", NEW p \in StopsAt(s)
  PROVE  Ready([McReset(s) EXCEPT !.pos = p])
<1> DEFINE r == McReset(s)
           t == [r EXCEPT !.pos = p]
<1>1. Fit(r) /\ r.gc = s.gc /\ r.abort
  BY ResetFit
<1> HIDE DEF r
<1>2. p \in Point
  BY StopsPoint
<1>3. /\ DOMAIN t = MachineFields /\ t.gc = r.gc /\ t.m = r.m /\ t.st = r.st /\ t.abort = r.abort
      /\ t.pos = p /\ t.plan = r.plan /\ t.path = r.path /\ t.cool = r.cool
  BY <1>1 DEF Fit, Shape, MachineFields
<1> HIDE DEF t
<1>4. Ready(t)
  BY <1>1, <1>2, <1>3 DEF Ready, Fit, Shape, Offs, PlanEnd, PosPlan
<1> QED
  BY <1>4 DEF t, r

\* The step of a line that is refused.
Spared ==
  /\ gc' = gc /\ plan' = plan /\ cool' = cool
  /\ \E n : Reset1(mem, n) /\ mem'.set = n.set /\ mem'.image = n.image /\ mem'.disk = n.disk

\* A line, whether it is executed to its end, cut short by a reset or by the power.
LEMMA LineWhole ==
  ASSUME Whole, StoreInv', LineArrives
  PROVE  Whole' /\ (~last'.ok => Spared)
<1>1. PICK l \in Lines : \E junk \in Junk(l) : \E r \in {ExecuteLine(Now, l, junk)} :
                          Line(l, r) \/ ResetInLine(r) \/ PowerFailsInLine(r)
  BY DEF LineArrives
<1>2. PICK junk \in Junk(l) : \E r \in {ExecuteLine(Now, l, junk)} :
                          Line(l, r) \/ ResetInLine(r) \/ PowerFailsInLine(r)
  BY <1>1
<1> DEFINE r == ExecuteLine(Now, l, junk)
<1>3. Line(l, r) \/ ResetInLine(r) \/ PowerFailsInLine(r)
  BY <1>2
<1>4. on /\ Ready(Now) /\ sent' \in 0..MaxLines
  BY LinesAssumption DEF LineArrives, Whole
<1>5. Answered(Now, r)
  BY <1>4, ExecuteLineFit
<1> HIDE DEF r
<1>6. Ready(r.s) /\ Shape(r.s) /\ Mem(r.s.m) /\ Typed(r.s.m) /\ r.s.gc.modal.flow = "running"
  BY <1>5 DEF Answered, Ready, Fit, Mem
<1>7. CASE Line(l, r)
  <2>1. Become(r.s) /\ on' = on /\ last'.ok = r.ok
    BY <1>7 DEF Line
  <2>2. Whole'
    BY <1>4, <1>6, <2>1, StepWhole DEF Whole, StoreInv
  <2>3. mem'.set = r.s.m.set /\ mem'.image = r.s.m.image /\ mem'.disk = r.s.m.disk
    BY <1>6, <2>1, BecomeWhole
  <2>4. ~r.ok => r.s.gc = gc /\ r.s.plan = plan /\ r.s.cool = cool /\ Reset1(mem, r.s.m)
    BY <1>5 DEF Answered, Refused, Now
  <2>5. gc' = r.s.gc /\ plan' = r.s.plan /\ cool' = r.s.cool
    BY <2>1 DEF Become
  <2> QED
    BY <2>1, <2>2, <2>3, <2>4, <2>5 DEF Spared
<1>8. CASE ResetInLine(r)
  <2> DEFINE w == [Now EXCEPT !.st = IF Now.st = "IDLE" THEN "CYCLE" ELSE Now.st, !.m = r.s.m]
             z(p) == [McReset(w) EXCEPT !.pos = p]
  <2>1. (\E p \in StopsAt(w) : Become(z(p))) /\ last' = Quiet /\ on' = on
    BY <1>8 DEF ResetInLine
  <2>2. /\ DOMAIN w = MachineFields /\ w.gc = gc /\ w.m = r.s.m /\ w.abort = Now.abort /\ w.pos = Now.pos
        /\ w.plan = Now.plan /\ w.path = Now.path /\ w.cool = Now.cool
        /\ w.st = IF Now.st = "IDLE" THEN "CYCLE" ELSE Now.st
    BY DEF Now, MachineFields
  <2> HIDE DEF w
  <2>3. Shape(w) /\ Mem(w.m) /\ w.gc.modal.flow = "running"
    <3>1. gc = Now.gc
      BY DEF Now
    <3> QED
      BY <1>6, <2>2, <3>1 DEF Whole, Shape
  <2>4. \A p \in StopsAt(w) : Ready(z(p))
    BY <2>3, StoppedReady
  <2> HIDE DEF z
  <2>5. PICK p \in StopsAt(w) : Become(z(p))
    BY <2>1
  <2>6. Ready(z(p))
    BY <2>4
  <2>7. Whole'
    BY <1>4, <2>1, <2>5, <2>6, StepWhole DEF Whole, StoreInv
  <2> QED
    BY <2>1, <2>7 DEF Quiet
<1>9. CASE PowerFailsInLine(r)
  <2>1. CutDuring(r.s.m)
    BY <1>9 DEF PowerFailsInLine
  <2>2. last' = Quiet
    BY <2>1 DEF CutDuring, PowerOff
  <2> QED
    BY <1>4, <1>6, <2>1, <2>2, CutWhole DEF Quiet
<1> QED
  BY <1>3, <1>7, <1>8, <1>9

\* The moves, and what stops them.
LEMMA MovesWhole ==
  ASSUME Whole, StoreInv', Reset \/ CycleStart \/ Move \/ JogCancel
  PROVE  Whole'
<1>1. on /\ on' = on /\ sent' = sent /\ Ready(Now)
  BY DEF Reset, CycleStart, Move, JogCancel, Whole
<1>2. Shape(Now) /\ Mem(mem) /\ gc.modal.flow = "running"
  BY <1>1 DEF Whole, Ready, Fit, Now
<1>3. /\ Now.gc = gc /\ Now.m = mem /\ Now.st = st /\ Now.abort = abort /\ Now.pos = pos
      /\ Now.plan = plan /\ Now.path = path /\ Now.cool = cool
  BY DEF Now
<1>4. \E s : Ready(s) /\ Become(s)
  <2>1. CASE Reset
    <3>1. PICK p \in StopsAt(Now) : Become([McReset(Now) EXCEPT !.pos = p])
      BY <2>1 DEF Reset
    <3> DEFINE z == [McReset(Now) EXCEPT !.pos = p]
    <3>2. Ready(z)
      BY <1>2, <1>3, StoppedReady
    <3> QED
      BY <3>1, <3>2
  <2>2. CASE CycleStart
    <3> DEFINE z == [Now EXCEPT !.st = "CYCLE"]
    <3>1. Become(z) /\ Now.st = "IDLE"
      BY <1>3, <2>2 DEF CycleStart
    <3>2. Ready(z)
      BY <1>1, <3>1, StateFit
    <3> QED
      BY <3>1, <3>2
  <2>3. CASE Move
    <3> DEFINE x == IF Tail(path) = <<>> THEN "IDLE" ELSE Now.st
               s == [Now EXCEPT !.pos = Head(path), !.path = Tail(path), !.st = x]
    <3>1. Become(s) /\ path # <<>> /\ ~abort /\ st \in {"CYCLE", "JOG"}
      BY <1>3, <2>3 DEF Move
    <3>2. x \in {"IDLE", "CYCLE", "JOG"}
      BY <1>3, <3>1
    <3> HIDE DEF x
    <3>3. /\ DOMAIN s = MachineFields /\ s.gc = gc /\ s.m = mem /\ s.st = x /\ s.abort = abort
          /\ s.pos = Head(path) /\ s.plan = plan /\ s.path = Tail(path) /\ s.cool = cool
      BY <1>3 DEF Now, MachineFields
    <3> HIDE DEF s
    <3>4. path \in Seq(Point)
      BY <1>2, <1>3 DEF Shape
    <3>5. Head(path) \in Point /\ Tail(path) \in Seq(Point)
      BY <3>1, <3>4
    <3>6. (IF Tail(path) = <<>> THEN Head(path) ELSE Last(Tail(path))) = Last(path)
      <4>1. Len(path) \in Nat /\ Len(path) # 0 /\ Len(Tail(path)) = Len(path) - 1
        BY <3>1, <3>4
      <4>2. CASE Tail(path) = <<>>
        <5>1. Len(path) = 1
          BY <4>1, <4>2
        <5> QED
          BY <4>2, <5>1, <3>4 DEF Last
      <4>3. CASE Tail(path) # <<>>
        <5>1. Len(Tail(path)) \in 1..Len(Tail(path))
          BY <3>4, <4>1, <4>3
        <5>2. Tail(path)[Len(Tail(path))] = path[Len(Tail(path)) + 1]
          BY <3>1, <3>4, <5>1
        <5> QED
          BY <4>1, <4>3, <5>2 DEF Last
      <4> QED
        BY <4>2, <4>3
    <3>7. Shape(s)
      BY <1>2, <1>3, <3>2, <3>3, <3>5 DEF Shape
    <3>8. PlanEnd(s)
      BY <1>1, <1>3, <3>1, <3>3, <3>6 DEF Ready, Fit, PlanEnd, End
    <3>9. Offs(s) /\ PosPlan(s)
      BY <1>1, <1>3, <3>1, <3>2, <3>3 DEF Ready, Fit, Offs, PosPlan
    <3> QED
      BY <1>2, <3>1, <3>3, <3>7, <3>8, <3>9 DEF Ready, Fit
  <2>4. CASE JogCancel
    <3> DEFINE s(p) == [Now EXCEPT !.pos = p, !.plan = p, !.gc.pos = p, !.path = <<>>, !.st = "IDLE"]
    <3>1. \E p \in StopsAt(Now) : Become(s(p))
      BY <2>4 DEF JogCancel
    <3>2. PICK p \in StopsAt(Now) : Become(s(p))
      BY <3>1
    <3> DEFINE z == s(p)
    <3>3. /\ DOMAIN z = MachineFields /\ z.gc = [gc EXCEPT !.pos = p] /\ z.m = mem /\ z.st = "IDLE"
          /\ z.abort = abort /\ z.pos = p /\ z.plan = p /\ z.path = <<>> /\ z.cool = cool
      BY <1>3 DEF Now, MachineFields
    <3>4. Become(z)
      BY <3>2
    <3> HIDE DEF s, z
    <3>5. p \in Point /\ <<>> \in Seq(Point)
      BY <1>2, StopsPoint
    <3>6. gc \in Parsers
      BY <1>2, <1>3 DEF Shape
    <3>7. z.gc \in Parsers /\ z.gc.coord = gc.coord /\ z.gc.pos = p /\ z.gc.modal = gc.modal
      BY <3>3, <3>5, <3>6 DEF Parsers
    <3>8. Shape(z)
      BY <1>2, <1>3, <3>3, <3>5, <3>7 DEF Shape
    <3>9. st = "JOG"
      BY <2>4 DEF JogCancel
    <3>10. Offs(z) /\ PlanEnd(z) /\ PosPlan(z)
      BY <1>1, <1>3, <3>3, <3>7, <3>9 DEF Ready, Fit, Offs, PlanEnd, End, PosPlan
    <3> QED
      BY <1>2, <3>3, <3>4, <3>7, <3>8, <3>10 DEF Ready, Fit
  <2> QED
    BY <2>1, <2>2, <2>3, <2>4
<1>5. PICK s : Ready(s) /\ Become(s)
  BY <1>4
<1> QED
  BY <1>1, <1>5, StepWhole DEF Whole, StoreInv

\* The starts of the main loop, and the power.
LEMMA StartsWhole ==
  ASSUME Whole, StoreInv', Reinit \/ Boot \/ PowerFails \/ PowerFailsAtStart
  PROVE  Whole'
<1>1. sent' \in 0..MaxLines /\ Shape(Now) /\ Now.m = mem /\ Typed(mem) /\ on \in BOOLEAN
  BY DEF Reinit, Boot, PowerFails, PowerFailsAtStart, Whole, Now, StoreInv
<1>2. on => Ready(Restarted(Now))
  BY <1>1, RestartedFit DEF Whole, Ready, Fit, Mem
<1>3. ~on => Ready(Booted(Now))
  BY <1>1, BootedFit DEF StoreInv, Whole
<1>4. CASE Reinit
  BY <1>1, <1>2, <1>4, StepWhole DEF Reinit
<1>5. CASE Boot
  BY <1>1, <1>3, <1>5, StepWhole DEF Boot
<1>6. CASE PowerFails
  <2>1. ImageOK(mem.disk) /\ RecordsOK(mem.disk) /\ PowerOff(mem.disk)
    BY <1>1, <1>6 DEF PowerFails, Typed, MemoryOK
  <2> QED
    BY <1>1, <2>1, OffWhole
<1>7. CASE PowerFailsAtStart
  <2> DEFINE m == (IF on THEN Restarted(Now) ELSE Booted(Now)).m
  <2>1. CutDuring(m)
    BY <1>7 DEF PowerFailsAtStart
  <2>2. Typed(m)
    BY <1>1, <1>2, <1>3 DEF Ready, Fit, Mem
  <2> HIDE DEF m
  <2> QED
    BY <1>1, <2>1, <2>2, CutWhole
<1> QED
  BY <1>4, <1>5, <1>6, <1>7

\* In every state the machine is as it should be.
THEOREM WholeCorrect == Spec => []Whole
<1>1. Init => Whole
  <2> SUFFICES ASSUME Init PROVE Whole
    OBVIOUS
  <2>1. StoreInv
    BY InitStore
  <2> DEFINE s == OffMachine(ErasedImage)
             g == [modal |-> DefaultModal, rate |-> 0, pos |-> Zero, coord |-> Zero, off |-> Zero, tlo |-> 0]
  <2>2. /\ gc = g /\ mem = MemoryAtPowerUp(ErasedImage) /\ st = "IDLE" /\ abort = FALSE /\ pos = Zero
        /\ plan = Zero /\ path = <<>> /\ cool = FALSE /\ on = FALSE /\ sent = 0
    BY DEF Init, OffMachine
  <2>3. g \in Parsers /\ g.modal.flow = "running"
    BY DefaultModes, ZeroPoint DEF Parsers
  <2> HIDE DEF g
  <2>4. <<>> \in Seq(Point)
    OBVIOUS
  <2>5. Shape(Now)
    BY <2>2, <2>3, <2>4, ZeroPoint DEF Shape, Now, MachineFields
  <2>6. Typed(mem) /\ mem.log = {}
    BY <2>1, <2>2, ErasedTyped DEF MemoryAtPowerUp, Typed, StoreInv
  <2> QED
    BY <2>1, <2>2, <2>3, <2>5, <2>6, LinesAssumption DEF Whole
<1>2. Whole /\ StoreInv' /\ [Next]_vars => Whole'
  <2> SUFFICES ASSUME Whole, StoreInv', [Next]_vars PROVE Whole'
    OBVIOUS
  <2>1. CASE LineArrives
    BY <2>1, LineWhole
  <2>2. CASE Reset \/ CycleStart \/ Move \/ JogCancel
    BY <2>2, MovesWhole
  <2>3. CASE Reinit \/ Boot \/ PowerFails \/ PowerFailsAtStart
    BY <2>3, StartsWhole
  <2>4. CASE UNCHANGED vars
    BY <2>4 DEF Whole, vars, Now
  <2> QED
    BY <2>1, <2>2, <2>3, <2>4 DEF Next
<1> QED
  BY <1>1, <1>2, StoreInvCorrect, PTL DEF Spec

\* The types of the parser, of the records and of the machine hold in every state.
THEOREM MachineInvCorrect == Spec => []MachineInv
<1>1. Whole => MachineInv
  <2> SUFFICES ASSUME Whole PROVE MachineInv
    OBVIOUS
  <2>1. /\ Now.gc = gc /\ Now.m = mem /\ Now.st = st /\ Now.abort = abort /\ Now.pos = pos
        /\ Now.plan = plan /\ Now.path = path /\ Now.cool = cool
    BY DEF Now
  <2>2. /\ gc \in Parsers /\ st \in {"IDLE", "CYCLE", "JOG", "CHECK", "ALARM"} /\ abort \in BOOLEAN
        /\ cool \in BOOLEAN /\ pos \in Point /\ plan \in Point /\ path \in Seq(Point)
    BY <2>1 DEF Whole, Shape
  <2>3. LineInv
    BY <2>1, <2>2 DEF Whole, Ready, Fit, Mem, Typed, LineInv
  <2>4. ToSet(path) \subseteq Point
    BY <2>2 DEF ToSet
  <2>5. /\ gc.modal.sel \in Systems /\ gc.rate \in Nat /\ gc.tlo \in Int
        /\ gc.pos \in Point /\ gc.coord \in Point /\ gc.off \in Point
    BY <2>2 DEF Parsers, Modals, Systems
  <2>6. \A k \in Systems : mem.image.coord[k] = Bad \/ mem.image.coord[k] \in Point
    BY DEF Whole, Typed, RecordsOK
  <2>7. TypeOK
    BY <2>2, <2>4, <2>5, <2>6 DEF TypeOK, Whole, StoreInv
  <2> QED
    BY <2>3, <2>7 DEF MachineInv, Whole
<1> QED
  BY <1>1, WholeCorrect, PTL

\* The work offsets applied are those stored, durably, for the system selected (gcode.cpp:906-917).
THEOREM OffsetsStoredCorrect == Spec => []OffsetsStored
<1>1. Whole => OffsetsStored
  BY DEF Whole, Ready, Fit, Offs, Now, StoreInv, Agrees, OffsetsStored
<1> QED
  BY <1>1, WholeCorrect, PTL

\* The parser's position is the planner's, and that is where the moves lead.
THEOREM PositionTracksCorrect == Spec => []PositionTracks
<1>1. Whole => PositionTracks
  BY DEF Whole, Ready, Fit, PlanEnd, End, PosPlan, Now, PositionTracks
<1> QED
  BY <1>1, WholeCorrect, PTL

\* A refused line changes nothing but a record that was bad.
THEOREM RejectedCorrect == Spec => RejectedChangesNothing
<1> DEFINE A == ~last'.ok =>
       /\ UNCHANGED <<gc, plan, cool, mem.set>>
       /\ mem'.disk.startup = mem.disk.startup
       /\ \A k \in Systems : mem.image.coord[k] # Bad => mem'.disk.coord[k] = mem.disk.coord[k]
<1>1. Whole /\ StoreInv' /\ [Next]_vars => [A]_vars
  <2> SUFFICES ASSUME Whole, StoreInv', Next, ~last'.ok
               PROVE  /\ UNCHANGED <<gc, plan, cool, mem.set>>
                      /\ mem'.disk.startup = mem.disk.startup
                      /\ \A k \in Systems : mem.image.coord[k] # Bad => mem'.disk.coord[k] = mem.disk.coord[k]
    OBVIOUS
  <2>1. CASE LineArrives
    <3>1. Spared
      BY <2>1, LineWhole
    <3>2. PICK n : Reset1(mem, n) /\ mem'.set = n.set /\ mem'.image = n.image /\ mem'.disk = n.disk
      BY <3>1 DEF Spared
    <3>3. on /\ Typed(mem) /\ Tidy(mem) /\ Agrees(mem)
      BY <2>1 DEF LineArrives, Whole, Ready, Fit, Mem, Now, StoreInv
    <3>4. Repaired(mem, n) /\ n.set = mem.set /\ n.disk.startup = mem.disk.startup
      BY <3>2, <3>3, Reset1OK
    <3>5. n.image.coord = n.disk.coord
      <4>1. CASE n = mem
        BY <4>1, <3>3 DEF Agrees
      <4>2. CASE n # mem
        <5>1. PICK k \in Systems : n = WriteCoord(mem, k, Zero)
          BY <4>2, <3>2 DEF Reset1
        <5>2. Kept(mem, n)
          BY <5>1, <3>3, WriteCoordKept DEF Typed
        <5> QED
          BY <5>2, <3>3 DEF Kept, Agrees
      <4> QED
        BY <4>1, <4>2
    <3> QED
      BY <3>1, <3>2, <3>3, <3>4, <3>5 DEF Spared, Repaired, Agrees
  <2>2. CASE ~LineArrives
    <3>1. last' = Quiet
      BY <2>2 DEF Next, Reset, Reinit, CycleStart, Move, JogCancel, Boot, PowerFails, PowerOff,
                  PowerFailsAtStart, CutDuring
    <3> QED
      BY <3>1 DEF Quiet
  <2> QED
    BY <2>1, <2>2
<1> QED
  BY <1>1, WholeCorrect, StoreInvCorrect, PTL DEF Spec, RejectedChangesNothing
============================================================================
