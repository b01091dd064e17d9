------------------------------ MODULE FlashCache ------------------------------
(****************************************************************************)
(* The sector cache of the internal flash driver's fast write functions     *)
(* (platform/drivers/internalflash/wm_internal_fls.c), as functions of the  *)
(* chip, the cache and the sector the cache is for.  A unit stands for a    *)
(* piece of data, an address is the number of a unit.                       *)
(****************************************************************************)
EXTENDS Integers, Sequences

CONSTANTS
    SectorSize,     \* units in a sector
    Sectors,        \* sectors of the chip
    Junk            \* contents of memory that nobody has written

ASSUME FlashCacheAssumption == {SectorSize, Sectors} \subseteq Nat \ {0}

Addresses == 0 .. SectorSize * Sectors - 1
NoCache == <<>>
JunkCache == [i \in 1 .. SectorSize |-> Junk]

(* tls_fls_flush_sector on the chip f: sector s is erased and programmed    *)
(* with cache, unless s is beyond the end of the chip                       *)
tls_fls_flush_sector(f, s, cache) ==
    IF s < Sectors
    THEN [a \in Addresses |-> IF a \div SectorSize = s
                              THEN cache[(a % SectorSize) + 1] ELSE f[a]]
    ELSE f

(* data copied into cache at offset *)
Copied(cache, offset, data) ==
    [i \in 1 .. SectorSize |-> IF i - offset \in DOMAIN data
                               THEN data[i - offset] ELSE cache[i]]

State(f, s, cache) == [flash |-> f, sector |-> s, cache |-> cache]

(* One round of the loop of tls_fls_fast_write: data fits the sector *)
Chunk(st, offset, data) ==
    LET cache == Copied(st.cache, offset, data)
    IN  IF offset + Len(data) >= SectorSize
        THEN State(tls_fls_flush_sector(st.flash, st.sector, cache), st.sector + 1, cache)
        ELSE State(st.flash, st.sector, cache)

RECURSIVE Chunks(_, _, _)
Chunks(st, offset, data) ==
    LET room == SectorSize - offset
    IN  IF Len(data) <= room
        THEN IF data = <<>> THEN st ELSE Chunk(st, offset, data)
        ELSE Chunks(Chunk(st, offset, SubSeq(data, 1, room)), 0,
                    SubSeq(data, room + 1, Len(data)))

(* tls_fls_fast_write: flush the cache when it is for another sector (a     *)
(* gsSector of 0 means that it has not been used), then copy piece by piece *)
FastWritten(f, cache, s, addr, data) ==
    LET sector == addr \div SectorSize
        flushed == IF s # sector /\ s # 0 THEN tls_fls_flush_sector(f, s, cache) ELSE f
    IN  Chunks(State(flushed, sector, cache), addr % SectorSize, data)
=============================================================================
