------------------------------- MODULE Store -------------------------------
(***************************************************************************)
(* Settings, work coordinate systems, startup lines and build info, and    *)
(* the EEPROM emulation they are kept in: settings.cpp and eeprom.cpp.     *)
(*                                                                         *)
(* Reads and writes go to a 2048-byte image in memory; commit() writes the *)
(* whole image to flash.  A memory is a record of                          *)
(*   set    the settings in force (settings_t settings)                    *)
(*   image  the image                                                      *)
(*   disk   the last image committed                                       *)
(*   log    the images committed by the call in hand, any of which is what *)
(*          a power cut during the call may leave                          *)
(* A record of the image holds a value, or Bad when its checksum is wrong. *)
(***************************************************************************)
EXTENDS Integers, Sequences, FiniteSets

CONSTANT Bad     \* a record that fails its checksum

Axes == {"X", "Y", "Z"}
Point == [Axes -> Int]
Zero == [a \in Axes |-> 0]
Texts == Seq(STRING \X Int)   \* lines, a word being a name and its value
ASSUME BadAssumption == Bad \notin Point

Systems == 0..7            \* G54..G59, G28, G30
G28Record == 6
G30Record == 7
StartupLines == 0..1
EmptyText == <<>>

MinPulse == 3              \* microseconds
DefaultSettings == [pulse |-> 10, homing |-> FALSE, soft |-> FALSE]

\* An erased sector: every byte 0xFF, for which no checksum holds.
ErasedImage == [version |-> FALSE, global |-> Bad, coord |-> [k \in Systems |-> Bad],
                startup |-> [n \in StartupLines |-> Bad], info |-> Bad]

MemoryAtPowerUp(disk) == [set |-> DefaultSettings, image |-> disk, disk |-> disk, log |-> {}]

\* EEPROM.commit() at the end of memcpy_to_eeprom_with_checksum().
Commit(m) == [m EXCEPT !.disk = m.image, !.log = @ \cup {m.image}]

WriteGlobal(m) == Commit([m EXCEPT !.image.version = TRUE, !.image.global = m.set])

\* A coordinate record; and one that is not committed.
WriteCoordLater(m, k, v) == [m EXCEPT !.image.coord[k] = v]
WriteCoord(m, k, v) == Commit([m EXCEPT !.image.coord[k] = v])

(***************************************************************************)
(* Startup line 1 lies at 1737..1937 and the build info at 1792..1992.     *)
(* Storing the line puts the end of the line buffer over the build info's  *)
(* first bytes, storing the build info puts one of its bytes over the      *)
(* line's checksum.  Line 2, which `$N2=` does not refuse, covers the end  *)
(* and the checksum of the build info; from line 3 on the addresses are    *)
(* outside the EEPROM and nothing is written.  Texts are shorter than the  *)
(* 55 bytes from which on they would overlap themselves.                   *)
(***************************************************************************)
StoreStartup(m, n, line) ==
  LET info == IF n = 2 \/ m.image.info = Bad THEN Bad
              ELSE IF n = 1 THEN EmptyText ELSE m.image.info
  IN  Commit(CASE n \in StartupLines -> [m EXCEPT !.image.startup[n] = line, !.image.info = info]
               [] n = 2 -> [m EXCEPT !.image.info = info]
               [] n > 2 -> m)

StoreInfo(m, text) == Commit([m EXCEPT !.image.info = text, !.image.startup[1] = Bad])

\* A record that fails its checksum is reset, stored, and reported as failed.
ReadCoord(m, k) ==
  IF m.image.coord[k] # Bad
  THEN [ok |-> TRUE, value |-> m.image.coord[k], m |-> m]
  ELSE [ok |-> FALSE, value |-> Zero, m |-> WriteCoord(m, k, Zero)]

ReadStartup(m, n) ==
  IF m.image.startup[n] # Bad
  THEN [ok |-> TRUE, value |-> m.image.startup[n], m |-> m]
  ELSE [ok |-> FALSE, value |-> EmptyText, m |-> StoreStartup(m, n, EmptyText)]

ReadInfo(m) == IF m.image.info # Bad THEN m ELSE StoreInfo(m, EmptyText)

(***************************************************************************)
(* settings_restore(): the settings and each coordinate record are         *)
(* committed; the startup lines and the build info get two zero bytes in   *)
(* the image, with no new checksum and no commit.  What follows those      *)
(* bytes keeps the old sum, so a record that was good reads as empty and   *)
(* one that was bad stays bad.                                             *)
(***************************************************************************)
Wiped(r) == IF r = Bad THEN Bad ELSE EmptyText

RestoreDefaults(m) == WriteGlobal([m EXCEPT !.set = DefaultSettings])

\* The eight coordinate records, in order, each with its own commit.
RestoreParameters(m) ==
  LET upto(k) == [m.image EXCEPT !.coord = [i \in Systems |-> IF i <= k THEN Zero ELSE @[i]]]
  IN  [m EXCEPT !.image = upto(7), !.disk = upto(7), !.log = @ \cup {upto(k) : k \in Systems}]

RestoreTexts(m) ==
  [m EXCEPT !.image.startup = [n \in StartupLines |-> Wiped(@[n])], !.image.info = Wiped(@)]

RestoreAll(m) == RestoreTexts(RestoreParameters(RestoreDefaults(m)))

\* settings_init(): the version byte, then the settings' checksum.
SettingsInit(m) ==
  IF m.image.version /\ m.image.global # Bad
  THEN [m EXCEPT !.set = m.image.global]
  ELSE RestoreAll(m)

(***************************************************************************)
(* settings_store_global_setting(): `$0` stands for the settings with a    *)
(* bound on their value, `$20` and `$22` for the two flags that depend on  *)
(* each other; an unknown number is refused.                               *)
(***************************************************************************)
SettingRefused(m, n, v) ==
  \/ v < 0
  \/ n \notin {0, 20, 22}
  \/ n = 0 /\ v < MinPulse
  \/ n = 20 /\ v # 0 /\ ~m.set.homing      \* soft limits need homing

\* A setting that forgets the flag depending on it, and the code's.
ApplyAlone(set, n, v) ==
  CASE n = 0  -> [set EXCEPT !.pulse = v]
    [] n = 20 -> [set EXCEPT !.soft = (v # 0)]
    [] n = 22 -> [set EXCEPT !.homing = (v # 0)]
ApplySetting(set, n, v) ==
  CASE n = 0  -> [set EXCEPT !.pulse = v]
    [] n = 20 -> [set EXCEPT !.soft = (v # 0)]
    [] n = 22 -> [set EXCEPT !.homing = (v # 0), !.soft = @ /\ v # 0]

StoreSetting(m, n, v) ==
  IF SettingRefused(m, n, v) THEN [ok |-> FALSE, m |-> m]
  ELSE [ok |-> TRUE, m |-> WriteGlobal([m EXCEPT !.set = ApplySetting(@, n, v)])]
=============================================================================
