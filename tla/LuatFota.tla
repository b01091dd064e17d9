------------------------------- MODULE LuatFota -------------------------------
(****************************************************************************)
(* The firmware update of the LuatOS port (app/port/luat_fota_air101.c).    *)
(* The Lua task passes a package in pieces; they go through a RAM buffer    *)
(* into the OTA zone.  luat_fota_done verifies the package, luat_fota_end   *)
(* sets the OTA flag; at the next boot the boot loader installs the         *)
(* firmware and luat_fota_boot_check unpacks the scripts from the zone.     *)
(* Power may be lost between, and in, any two flash operations.             *)
(*                                                                          *)
(* A package is a name; what is transferred and stored is modelled by units *)
(* <<package, position>>: a header and a compressed body.  The body         *)
(* unpacks to a stream of segments, each with a header of its own: the      *)
(* firmware and the scripts.                                                *)
(****************************************************************************)
EXTENDS Integers, Sequences, FiniteSetsExt

CONSTANTS
    Packages,
    BadHead,        \* packages with a wrong header checksum
    BadBody,        \* packages whose body does not have org_checksum
    ScriptOnly,     \* packages of img_type 2; the others have img_type 1
    NoApp,          \* packages whose firmware segment is empty
    HeadLen, BodyLen,   \* sizes in the package, in units
    SegHeadLen, AppLen, ScriptLen,  \* sizes in the unpacked stream
    MaxPiece,       \* bound on the data of one call of ota_gzcb
    BufferSize,     \* FOTA_BUFFER_SIZE
    ZoneSize,       \* ota_zone_size
    Cells,          \* size of the flash from the start of the zone
    SectorSize,
    MaxWrite,       \* bound on the data of one luat_fota_write
    Extra,          \* bound on the units passed after the end of a package
    MaxCuts,        \* bound on power losses and restarts
    MaxInits,       \* bound on calls of luat_fota_init
    None, Erased

PackageLen == HeadLen + BodyLen

(* The unpacked stream of a package: its segments, where each starts, and   *)
(* its length                                                               *)
Segments(p) ==
    <<[img_type |-> 1, img_len |-> IF p \in NoApp THEN 0 ELSE AppLen],
      [img_type |-> 2, img_len |-> ScriptLen]>>
Start(p, i) == IF i = 1 THEN 0 ELSE SegHeadLen + Segments(p)[1].img_len
StreamLen(p) == Start(p, 2) + SegHeadLen + ScriptLen

ASSUME FotaAssumption ==
    /\ {HeadLen, BodyLen, SegHeadLen, AppLen, ScriptLen, BufferSize, SectorSize,
        MaxWrite, MaxPiece} \subseteq Nat \ {0}
    /\ {ZoneSize, Cells, Extra, MaxCuts, MaxInits} \subseteq Nat
    /\ PackageLen <= ZoneSize
    /\ ZoneSize % SectorSize = 0
    /\ ZoneSize <= Cells
    /\ None \notin Packages

VARIABLES
    zone,               \* flash from upgrade_img_addr on
    script,             \* the script partition
    app,                \* the package whose firmware is installed
    ota_flag,           \* the package whose checksum is at the flag address
    fota_state, fota_write_offset, fota_head_check,
    fota_buffer,        \* contents of the buffer
    allocated,          \* fota_buffer # NULL
    phase,              \* what the device does
    at,                 \* next sector to erase, or units of the stream used
    tmphead,            \* which units of the stream it holds
    head_fill_count, image_skip_remain,
    gzlen,              \* what is left of the data of ota_gzcb
    pkg, given,         \* what the caller passes, and how much it has
    ret,                \* what luat_fota_write has returned
    fresh,              \* history: since app was installed there was no
                        \* luat_fota_init and memory enough to unpack
    cuts, inits

vars == <<zone, script, app, ota_flag, fota_state, fota_write_offset,
          fota_head_check, fota_buffer, allocated, phase, at, tmphead,
          head_fill_count, image_skip_remain, gzlen, pkg, given, ret, fresh, cuts,
          inits>>
gz == <<tmphead, head_fill_count, image_skip_remain, gzlen>>
ram == <<fota_state, fota_write_offset, fota_head_check, fota_buffer, allocated>>
bounds == <<cuts, inits>>

Unit(p, k) == <<p, k>>
MaxUnit == Max({PackageLen + Extra, 2 * SegHeadLen + AppLen + ScriptLen})
Units == {Unit(p, k) : p \in Packages, k \in 1 .. MaxUnit} \union {Erased}
NoHead == [k \in 1 .. SegHeadLen |-> 0]

TypeOK ==
    /\ zone \in [1 .. Cells -> Units]
    /\ script \in [1 .. ScriptLen -> Units]
    /\ {app, ota_flag, pkg} \subseteq Packages \union {None}
    /\ fota_state \in {"IDLE", "ONGO", "DONE"}
    /\ fota_write_offset \in 0 .. Cells
    /\ fota_head_check \in 0 .. 1
    /\ fota_buffer \in Seq(Units) /\ Len(fota_buffer) <= BufferSize
    /\ allocated \in BOOLEAN
    /\ phase \in {"secboot", "check", "unpack", "clean", "run", "erase"}
    /\ at \in 0 .. Max({Cells, MaxUnit})
    /\ tmphead \in [1 .. SegHeadLen -> 0 .. MaxUnit]
    /\ head_fill_count \in 0 .. SegHeadLen
    /\ image_skip_remain \in 0 .. Max({AppLen, ScriptLen})
    /\ gzlen \in 0 .. MaxPiece
    /\ given \in 0 .. PackageLen + Extra
    /\ ret \in {0, -1, -2}
    /\ fresh \in BOOLEAN

Init ==
    /\ zone = [k \in 1 .. Cells |-> Erased]
    /\ script = [k \in 1 .. ScriptLen |-> Erased]
    /\ app = None /\ ota_flag = None
    /\ fota_state = "IDLE" /\ fota_write_offset = 0 /\ fota_head_check = 0
    /\ fota_buffer = <<>> /\ allocated = FALSE
    /\ phase = "run" /\ at = 0
    /\ tmphead = NoHead /\ head_fill_count = 0 /\ image_skip_remain = 0 /\ gzlen = 0
    /\ pkg = None /\ given = 0 /\ ret = 0
    /\ fresh = FALSE
    /\ cuts = 0 /\ inits = 0

-----------------------------------------------------------------------------
(* tls_fls_write of data at offset, and tls_fls_erase of a sector *)
Program(z, offset, data) ==
    [k \in DOMAIN z |-> IF k - offset \in DOMAIN data THEN data[k - offset] ELSE z[k]]
EraseSector(z, s) ==
    [k \in DOMAIN z |-> IF (k - 1) \div SectorSize = s THEN Erased ELSE z[k]]

(* The package whose header is at the start of the zone, if it is complete *)
ImgHead(z) ==
    IF \E p \in Packages : \A k \in 1 .. HeadLen : z[k] = Unit(p, k)
    THEN z[1][1] ELSE None

(* img_checksum of the body is org_checksum *)
BodyVerified(z, p) ==
    /\ p \notin BadBody
    /\ \A k \in HeadLen + 1 .. PackageLen : z[k] = Unit(p, k)

(* luat_fota_init: the buffer is allocated once and kept *)
luat_fota_init ==
    /\ phase = "run"
    /\ inits < MaxInits /\ inits' = inits + 1
    /\ fota_state' = "ONGO"
    /\ fota_write_offset' = 0 /\ fota_head_check' = 0 /\ fota_buffer' = <<>>
    /\ \/ allocated' = TRUE /\ phase' = "erase"
       \/ ~allocated /\ allocated' = FALSE /\ UNCHANGED phase
    /\ at' = 0
    /\ pkg' \in Packages
    /\ given' = 0 /\ ret' = 0
    /\ fresh' = FALSE
    /\ UNCHANGED <<zone, script, app, ota_flag, gz, cuts>>

InitErase ==
    /\ phase = "erase"
    /\ IF at < ZoneSize \div SectorSize
       THEN /\ zone' = EraseSector(zone, at)
            /\ at' = at + 1
            /\ UNCHANGED phase
       ELSE phase' = "run" /\ UNCHANGED <<zone, at>>
    /\ UNCHANGED <<script, app, ota_flag, ram, gz, pkg, given, ret, fresh, bounds>>

(* The copy loop of luat_fota_write as a whole: what is in the buffer and   *)
(* the data go to flash in full buffers, while the zone has room for one    *)
Piece(len) == [i \in 1 .. len |-> Unit(pkg, given + i)]
Pending(len) == fota_buffer \o Piece(len)


(* number of full buffers that the zone has room for *)
Room ==
    IF fota_write_offset > ZoneSize THEN 0
    ELSE (ZoneSize - fota_write_offset) \div BufferSize

FullBuffers(len) == Len(Pending(len)) \div BufferSize
Overflows(len) == FullBuffers(len) > Room
InFull(len) == BufferSize * (IF Overflows(len) THEN Room ELSE FullBuffers(len))

(* Mutant: nothing is held back from the buffer when the zone is full *)
KeptBack_All(len) == SubSeq(Pending(len), InFull(len) + 1, Len(Pending(len)))

(* what stays in the buffer *)
KeptBack(len) ==
    SubSeq(Pending(len), InFull(len) + 1,
           IF Overflows(len) THEN InFull(len) + BufferSize ELSE Len(Pending(len)))

(* the header is looked at as soon as it is there, after a flush *)
ChecksHead(len) ==
    /\ ~Overflows(len)
    /\ fota_head_check = 0
    /\ fota_write_offset + Len(Pending(len)) >= HeadLen

(* Mutant: the buffer is not flushed before the header is checked *)
Flushes_Short(len) == SubSeq(Pending(len), 1, InFull(len))

(* what a call writes to flash *)
Flushes(len) ==
    IF ChecksHead(len) THEN Pending(len) ELSE SubSeq(Pending(len), 1, InFull(len))

MayWrite(len) ==
    /\ phase = "run"
    /\ fota_state = "ONGO" /\ allocated
    /\ given + len <= PackageLen + Extra
    /\ fota_write_offset + Len(Pending(len)) <= Cells

luat_fota_write(len) ==
    /\ MayWrite(len)
    /\ zone' = Program(zone, fota_write_offset, Flushes(len))
    /\ fota_write_offset' = fota_write_offset + Len(Flushes(len))
    /\ fota_buffer' = IF ChecksHead(len) THEN <<>> ELSE KeptBack(len)
    /\ LET p == ImgHead(zone')
           good == p # None /\ p \notin BadHead
       IN  /\ fota_head_check' = IF ChecksHead(len) /\ good THEN 1 ELSE fota_head_check
           /\ ret' = CASE Overflows(len) -> -1
                       [] ChecksHead(len) /\ ~good -> -2
                       [] OTHER -> 0
    /\ given' = given + len
    /\ UNCHANGED <<script, app, ota_flag, fota_state, allocated, phase, at, gz,
                   pkg, fresh, bounds>>

(* Mutant: the length of the image is not compared with what was written,   *)
(* nor the checksum with the one in the header                              *)
Complete_HeadOnly(z, offset) == offset >= HeadLen

(* The tests of luat_fota_done after the last flush *)
Complete(z, offset) ==
    /\ offset >= PackageLen
    /\ ImgHead(z) # None
    /\ BodyVerified(z, ImgHead(z))

(* luat_fota_done may be called in any state *)
luat_fota_done ==
    /\ phase = "run"
    /\ \/ /\ fota_buffer # <<>> /\ fota_write_offset + Len(fota_buffer) > ZoneSize
          /\ UNCHANGED <<zone, fota_write_offset, fota_buffer, fota_state>>
       \/ /\ fota_buffer = <<>> \/ fota_write_offset + Len(fota_buffer) <= ZoneSize
          /\ zone' = Program(zone, fota_write_offset, fota_buffer)
          /\ fota_write_offset' = fota_write_offset + Len(fota_buffer)
          /\ fota_buffer' = <<>>
          /\ fota_state' = IF Complete(zone', fota_write_offset') THEN "DONE" ELSE fota_state
    /\ UNCHANGED <<script, app, ota_flag, fota_head_check, allocated, phase, at,
                   gz, pkg, given, ret, fresh, bounds>>

(* luat_fota_end(1); with any other argument and in any other state it does *)
(* nothing.  A package of img_type 2 gets no flag.                          *)
luat_fota_end ==
    /\ phase = "run"
    /\ fota_state = "DONE"
    /\ ota_flag' = IF ImgHead(zone) \in ScriptOnly THEN ota_flag ELSE ImgHead(zone)
    /\ UNCHANGED <<zone, script, app, ram, phase, at, gz, pkg, given, ret, fresh, bounds>>

-----------------------------------------------------------------------------
(* Power is lost or the device restarts.  In the middle of a call that      *)
(* writes to the zone a part of the data is there, and the sector that was  *)
(* being rewritten may be erased.                                           *)
Cut ==
    /\ cuts < MaxCuts /\ cuts' = cuts + 1
    /\ fota_state' = "IDLE" /\ fota_write_offset' = 0 /\ fota_head_check' = 0
    /\ fota_buffer' = <<>> /\ allocated' = FALSE
    /\ phase' = "secboot" /\ at' = 0
    /\ tmphead' = NoHead /\ head_fill_count' = 0 /\ image_skip_remain' = 0 /\ gzlen' = 0
    /\ pkg' = None /\ given' = 0 /\ ret' = 0
    /\ UNCHANGED <<script, app, ota_flag, fresh, inits>>

Interrupted(data) ==
    \E n \in 0 .. Len(data) - 1 :
       LET z == Program(zone, fota_write_offset, SubSeq(data, 1, n))
       IN  zone' \in {z, EraseSector(z, (fota_write_offset + n) \div SectorSize)}

PowerLoss == Cut /\ UNCHANGED zone

PowerLossInWrite ==
    /\ Cut
    /\ \/ \E len \in 1 .. MaxWrite : MayWrite(len) /\ Interrupted(Flushes(len))
       \/ phase = "run" /\ fota_write_offset + Len(fota_buffer) <= ZoneSize
                        /\ Interrupted(fota_buffer)

(* The boot loader (external) installs the firmware the flag is for, if the *)
(* zone still holds it, and clears the flag                                 *)
secboot ==
    /\ phase = "secboot" /\ phase' = "check"
    /\ LET p == ota_flag
           installs == p # None /\ p \notin BadHead /\ ImgHead(zone) = p /\ BodyVerified(zone, p)
       IN  /\ app' = IF installs THEN p ELSE app
           /\ fresh' = (installs \/ fresh)
    /\ ota_flag' = None
    /\ UNCHANGED <<zone, script, ram, at, gz, pkg, given, ret, bounds>>

(* luat_fota_boot_check, check_ota_zone *)
check_ota_zone ==
    /\ phase = "check"
    /\ LET p == ImgHead(zone)
       IN  phase' = CASE zone[1] = Erased -> "run"
                      [] zone[1] # Erased /\ p \notin BadHead \union ScriptOnly \union {None} -> "unpack"
                      [] OTHER -> "clean"
    /\ at' = 0
    /\ tmphead' = NoHead /\ head_fill_count' = 0 /\ image_skip_remain' = 0
    /\ UNCHANGED <<zone, script, app, ota_flag, ram, gzlen, pkg, given, ret, fresh,
                   bounds>>

(* How much of the stream can be unpacked: all of it from a complete body,  *)
(* a part from one that ends early                                          *)
Available ==
    LET p == ImgHead(zone)
        there == Max({n \in 0 .. BodyLen :
                        \A k \in HeadLen + 1 .. HeadLen + n : zone[k] = Unit(p, k)})
    IN  (there * StreamLen(p)) \div BodyLen

(* my_tinfl_decompress_mem_to_callback: the next piece of the stream goes   *)
(* to ota_gzcb, or there is none                                            *)
Inflate(n) ==
    /\ phase = "unpack" /\ gzlen = 0
    /\ at + n <= Available
    /\ gzlen' = n
    /\ UNCHANGED <<zone, script, app, ota_flag, ram, phase, at, tmphead,
                   head_fill_count, image_skip_remain, pkg, given, ret, fresh, bounds>>

InflateEnd ==
    /\ phase = "unpack" /\ gzlen = 0
    /\ at = Available
    /\ phase' = "clean"
    /\ UNCHANGED <<zone, script, app, ota_flag, ram, at, gz, pkg, given, ret,
                   fresh, bounds>>

(* There is no memory for the decompressor: nothing is unpacked, and the    *)
(* zone is cleaned all the same                                             *)
InflateNoMemory ==
    /\ phase = "unpack" /\ at = 0 /\ gzlen = 0
    /\ phase' = "clean"
    /\ fresh' = FALSE
    /\ UNCHANGED <<zone, script, app, ota_flag, ram, at, gz, pkg, given, ret, bounds>>

(* The segment whose header tmphead holds *)
Segment(t) ==
    LET p == ImgHead(zone)
        is(i) == t = [k \in 1 .. SegHeadLen |-> Start(p, i) + k]
    IN  IF \E i \in 1 .. 2 : is(i) THEN Segments(p)[CHOOSE i \in 1 .. 2 : is(i)]
        ELSE [img_type |-> 0, img_len |-> 0]

(* One round of the loop of ota_gzcb uses n units of the data *)
Uses(n) ==
    /\ at' = at + n
    /\ gzlen' = gzlen - n
    /\ UNCHANGED <<zone, app, ota_flag, ram, phase, pkg, given, ret, fresh, bounds>>

(* ota_gzcb, in the body of a segment: scripts are written, the rest is     *)
(* skipped, and after the last unit the next header is expected             *)
GzBody ==
    /\ phase = "unpack" /\ gzlen > 0
    /\ image_skip_remain > 0
    /\ LET n == Min({gzlen, image_skip_remain})
           segment == Segment(tmphead)
           data == [k \in 1 .. n |-> Unit(ImgHead(zone), at + k)]
       IN  /\ script' = IF segment.img_type = 2
                        THEN Program(script, segment.img_len - image_skip_remain, data)
                        ELSE script
           /\ image_skip_remain' = image_skip_remain - n
           /\ head_fill_count' = IF n = image_skip_remain THEN 0 ELSE head_fill_count
           /\ Uses(n)
    /\ UNCHANGED tmphead

(* Mutant: a header is always read from its first unit *)
GzHead_FromStart ==
    /\ phase = "unpack" /\ gzlen > 0
    /\ image_skip_remain = 0 /\ head_fill_count < SegHeadLen
    /\ LET n == Min({gzlen, SegHeadLen - head_fill_count})
       IN  /\ tmphead' = [k \in DOMAIN tmphead |-> IF k <= n THEN at + k ELSE tmphead[k]]
           /\ head_fill_count' = head_fill_count + n
           /\ image_skip_remain' = IF head_fill_count' = SegHeadLen
                                   THEN Segment(tmphead').img_len ELSE 0
           /\ Uses(n)
    /\ UNCHANGED script

(* ota_gzcb, in the header of a segment *)
GzHead ==
    /\ phase = "unpack" /\ gzlen > 0
    /\ image_skip_remain = 0 /\ head_fill_count < SegHeadLen
    /\ LET n == Min({gzlen, SegHeadLen - head_fill_count})
       IN  /\ tmphead' = [k \in DOMAIN tmphead |->
                            IF k - head_fill_count \in 1 .. n THEN at + k - head_fill_count
                            ELSE tmphead[k]]
           /\ head_fill_count' = head_fill_count + n
           /\ image_skip_remain' = IF head_fill_count' = SegHeadLen
                                   THEN Segment(tmphead').img_len ELSE 0
           /\ Uses(n)
    /\ UNCHANGED script

(* ota_gzcb, after the header of an empty segment: the data is ignored *)
GzIgnore ==
    /\ phase = "unpack" /\ gzlen > 0
    /\ image_skip_remain = 0 /\ head_fill_count = SegHeadLen
    /\ Uses(gzlen)
    /\ UNCHANGED <<script, tmphead, head_fill_count, image_skip_remain>>

(* the zone is cleaned by erasing its first sector *)
Clean ==
    /\ phase = "clean" /\ phase' = "run"
    /\ zone' = EraseSector(zone, 0)
    /\ at' = 0
    /\ UNCHANGED <<script, app, ota_flag, ram, gz, pkg, given, ret, fresh, bounds>>

Boot ==
    \/ secboot \/ check_ota_zone
    \/ \E n \in 1 .. MaxPiece : Inflate(n)
    \/ GzBody \/ GzHead \/ GzIgnore \/ InflateEnd \/ InflateNoMemory
    \/ Clean

Next ==
    \/ luat_fota_init \/ InitErase
    \/ \E len \in 1 .. MaxWrite : luat_fota_write(len)
    \/ luat_fota_done \/ luat_fota_end
    \/ PowerLoss \/ PowerLossInWrite
    \/ Boot

Spec == Init /\ [][Next]_vars

-----------------------------------------------------------------------------
(* Whatever sizes luat_fota_write gets, zone and buffer together hold       *)
(* exactly the data passed so far, in order, until a call reports that the  *)
(* zone is full.                                                            *)
StreamStored ==
    phase = "run" /\ allocated /\ ret # -1 =>
       /\ fota_write_offset + Len(fota_buffer) = given
       /\ \A k \in 1 .. fota_write_offset : zone[k] = Unit(pkg, k)
       /\ \A k \in DOMAIN fota_buffer : fota_buffer[k] = Unit(pkg, fota_write_offset + k)

(* While the state is FOTA_DONE the zone holds the complete image that      *)
(* luat_fota_done has verified: nothing the caller does in between touches  *)
(* it, short of starting over.                                              *)
DoneMeansVerified ==
    fota_state = "DONE" => ImgHead(zone) # None /\ BodyVerified(zone, ImgHead(zone))


(* After the boot loader has installed a package the device runs with that  *)
(* package's scripts, wherever the pieces of the unpacked stream end and    *)
(* even if power is lost again and again while check_ota_zone unpacks it,   *)
(* until another download is started.  Two cases are left out: a package    *)
(* with an empty firmware segment, since ota_gzcb ignores what follows it,  *)
(* and a boot without memory for the decompressor.                          *)
ScriptsFollowApp ==
    phase = "run" /\ app \notin NoApp \union {None} /\ fresh =>
       script = [k \in 1 .. ScriptLen |-> Unit(app, Start(app, 2) + SegHeadLen + k)]
=============================================================================
