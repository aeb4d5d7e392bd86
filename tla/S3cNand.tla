------------------------------- MODULE S3cNand -------------------------------
(***************************************************************************)
(* The ECC path of the NAND driver (9_nand_driver/s3c_nand.c): one page of *)
(* a chip the driver knows, written, read and erased by the MTD layer      *)
(* under its chip lock, so each operation is one step.                     *)
(*                                                                         *)
(* Contents are symbols: a sector holds a value, its ECC code is the       *)
(* sequence of what the engine was fed, and bits that went bad are counted *)
(* per cell.  Programming can only clear bits: a second program of another *)
(* value leaves "mixed".  The engine finishes within the 80 ms of          *)
(* s3c_nand_wait_enc and s3c_nand_wait_dec.  Flips spare the two bytes of  *)
(* the JFFS2 marker.                                                       *)
(***************************************************************************)
EXTENDS Integers, Sequences, FiniteSets, FiniteSetsExt

CONSTANTS
  NumSectors,   \* ECC steps of the modelled page
  MaxPrograms,  \* bound on program operations between two erases
  MaxHits,      \* bound on hits (bursts of flips) between two erases
  ff, mixed     \* erased bytes; bytes programmed twice over

ASSUME NandAssumption ==
  NumSectors \in Nat \ {0} /\ MaxPrograms \in Nat /\ MaxHits \in Nat

Sectors == 1..NumSectors

(* "sparse" has 0xff in the bytes 17, 26, 35, 44 and 54 the 4 bit path     *)
(* looks at, and so has a sector of 0xff only.                             *)
Values     == {ff, "text", "sparse"}
FreeValues == {ff, "user", "jffs2"}
Marked     == {ff, "sparse"}

VARIABLES
  chip,     \* what the chip answers to READID, and its geometry
  cpu,      \* TYPE_S3C6400 or a later one
  page,     \* cells of the page: data, code, free, secc
  wrote,    \* what the MTD layer has programmed since the erase
  programs, \* program operations since the erase
  hits,     \* hits since the erase
  last      \* what the last read gave back

nandVars == <<chip, cpu, page, wrote, programs, hits, last>>

-----------------------------------------------------------------------------
(* The chips the driver names, with the ID bytes it looks at; page and     *)
(* spare size are nand_scan's.                                             *)
Id(manuf, dev, cell, pagesize, writesize, oobsize) ==
  [manuf |-> manuf, dev |-> dev, cell |-> cell, pagesize |-> pagesize,
   writesize |-> writesize, oobsize |-> oobsize]

Chips ==
  {Id("samsung", "da", "10", 0, 2048, 64),      \* K9F2G08U0B
   Id("samsung", "d5", "94", 0, 4096, 218),     \* K9GAG08U0D
   Id("samsung", "d5", "14", 0, 4096, 128),     \* K9GAG08U0M
   Id("samsung", "d5", "84", 0, 8192, 436),     \* K9GAG08U0E
   Id("samsung", "d7", "d5", 0, 4096, 218),     \* K9LBG08U0D
   Id("samsung", "d3", "14", 0, 2048, 64),      \* K9G8G08U0A
   Id("micron", "48", "00", 4096, 4096, 128),   \* MT29F16G08ABACAWP
   Id("micron", "38", "00", 4096, 4096, 128)}   \* MT29F8G08ABABAWP

(* Positions of the codes in the spare area, and the bytes left free.      *)
Layout(name) ==
  CASE name = "oob_16"       -> [eccpos |-> 1..4,    free |-> 6..15]
    [] name = "oob_64"       -> [eccpos |-> 40..55,  free |-> 2..39]
    [] name = "mlc_64"       -> [eccpos |-> 32..63,  free |-> 2..29]
    [] name = "mlc_128_8bit" -> [eccpos |-> 24..127, free |-> 2..23]
    [] name = "mlc_232_8bit" -> [eccpos |-> 24..231, free |-> 2..23]

Setup(type, bytes, layout) ==
  [type |-> type, bytes |-> bytes, layout |-> Layout(layout)]

IsSlc(id) == id.cell \in {"00", "10"}   \* ((cellinfo >> 2) & 3) == 0

(* The mistake of giving the 8K page the layout of the 4K page.            *)
IdentifySameLayout(id) ==
  IF id.dev = "da" THEN Setup("SLC", 4, "oob_64")
  ELSE IF id.dev = "d3" THEN Setup("MLC4", 8, "mlc_64")
  ELSE Setup("MLC8", 13, "mlc_128_8bit")

(* What probe sets up from the ID.                                         *)
Identify(id) ==
  CASE id.pagesize = 0 /\ IsSlc(id) -> Setup("SLC", 4, "oob_64")
    [] id.pagesize = 0 /\ ~IsSlc(id) /\ id.dev = "d5" /\ id.cell = "84" ->
         Setup("MLC8", 13, "mlc_232_8bit")
    [] id.pagesize = 0 /\ ~IsSlc(id) /\ id.dev = "d5" /\ id.cell \in {"94", "14"} ->
         Setup("MLC8", 13, "mlc_128_8bit")
    [] id.dev = "d7" /\ (id.pagesize = 0 => ~IsSlc(id)) ->
         Setup("MLC8", 13, "mlc_128_8bit")
    [] id.pagesize = 0 /\ ~IsSlc(id) /\ id.dev = "d3" -> Setup("MLC4", 8, "mlc_64")
    [] id.pagesize # 0 /\ id.manuf = "micron" /\ id.dev \in {"48", "38"} ->
         Setup("MLC8", 13, "mlc_128_8bit")
    [] id.pagesize # 0 /\ id.dev # "d7" /\ ~(id.manuf = "micron" /\ id.dev \in {"48", "38"}) ->
         Setup("SLC", 4, "oob_16")

nand_type == Identify(chip).type

(* Bits per sector the engine can correct.                                 *)
Strength == [SLC |-> 1, MLC4 |-> 4, MLC8 |-> 8][nand_type]

-----------------------------------------------------------------------------
Cell(v) == [val |-> v, flips |-> 0, onMarks |-> FALSE]

(* Programming clears bits and never sets one.                             *)
Prog(c, v) ==
  IF v \in {ff, c.val} THEN c
  ELSE [c EXCEPT !.val = IF @ = ff THEN v ELSE mixed]

Blank == [data |-> [s \in Sectors |-> Cell(ff)], code |-> [s \in Sectors |-> Cell(ff)],
          free |-> Cell(ff), secc |-> Cell(ff)]

(* The engine between two calls: which code it computes, whether it        *)
(* encodes, is locked, and what it was fed since it was initialised.       *)
IdleEngine == [ecc |-> "SLC", enc |-> TRUE, locked |-> TRUE, fed |-> <<>>]

Feed(e, what) == IF e.locked THEN e ELSE [e EXCEPT !.fed = Append(@, what)]

(* The mistake of not setting INITMECC.                                    *)
EnableHweccNoInit(e, mode) ==
  [e EXCEPT !.ecc = nand_type, !.locked = FALSE, !.enc = mode = "write"]

EnableHwecc(e, mode) ==
  [ecc    |-> IF cpu = "S3C6400" /\ nand_type = "MLC8" THEN "MLC4" ELSE nand_type,
   enc    |-> IF nand_type = "SLC" THEN e.enc ELSE mode = "write",
   locked |-> FALSE,
   fed    |-> <<>>]

(* Lock the engine and take the code.  The SLC code of erased bytes is     *)
(* 0xff, which programs nothing.                                           *)
CalculateEcc(e) == [e EXCEPT !.locked = TRUE]
CodeOf(e) == IF e.ecc # nand_type THEN mixed
             ELSE IF e.ecc = "SLC" /\ e.fed = <<ff>> THEN ff
             ELSE <<e.ecc, e.fed>>

(* Does the stored code k belong to what was read?  The MLC engine is fed  *)
(* the stored code after the data; the SLC driver hands it over in a       *)
(* register.                                                               *)
Match(e, k) ==
  IF nand_type = "SLC" THEN k.val = CodeOf(e)
  ELSE ~e.enc /\ Len(e.fed) = 2 /\ e.fed[2] = <<nand_type, <<e.fed[1]>>>>

-----------------------------------------------------------------------------
Flips(s) == page.data[s].flips + page.code[s].flips

Result(flips, stat) == [flips |-> flips, stat |-> stat]

(* What the engine can say of data d and stored code k, as the flips left  *)
(* in the data and the result of correct_data.  A code that does not       *)
(* belong to the data may look like one correctable bit to the SLC engine, *)
(* and so may more flips than the code is made to detect to any.           *)
Decoded(d, k, match) ==
  LET n == d.flips + k.flips
  IN IF ~match THEN {Result(d.flips, -1)} \cup
                    (IF nand_type = "SLC" THEN {Result(d.flips + 1, 1)} ELSE {})
     ELSE IF n = 0 THEN {Result(0, 0)}
     ELSE IF n > Strength + 1 THEN {Result(d.flips, -1), Result(d.flips, 1), Result(d.flips + 1, 1)}
     ELSE IF n > Strength \/ (nand_type = "SLC" /\ d.flips = 0)
       THEN {Result(d.flips, -1)}            \* too many, or "ECC area error"
     ELSE {Result(0, n)}

(* The driver overrules the engine: a free page, and in 4 bit mode a       *)
(* sector with 0xff in the five bytes, has no error.                       *)
NoError(d, k) ==
  \/ nand_type # "SLC" /\ {d.val, k.val} = {ff} /\ d.flips + k.flips = 0
  \/ nand_type = "MLC4" /\ d.val \in Marked /\ ~d.onMarks

(* The mistake of taking every sector for a free page.                     *)
CorrectDataFree(d, k, match) == {Result(d.flips, 0)}

CorrectData(d, k, match) ==
  IF NoError(d, k) THEN {Result(d.flips, 0)} ELSE Decoded(d, k, match)

-----------------------------------------------------------------------------
(* Codes of the sectors, written one after the other.                      *)
Encoded(buf) ==
  LET upto[n \in 0..NumSectors] ==
        IF n = 0 THEN [e |-> IdleEngine, codes |-> <<>>]
        ELSE LET before == upto[n - 1]
                 e == CalculateEcc(Feed(EnableHwecc(before.e, "write"), buf[n]))
             IN [e |-> e, codes |-> Append(before.codes, CodeOf(e))]
  IN upto[NumSectors]

Spare(free, codes) ==
  IF free = ff /\ \A s \in Sectors : codes[s] = ff THEN ff ELSE <<free, codes>>

SpareCode(e, free, codes) ==
  CodeOf(CalculateEcc(Feed(EnableHwecc(e, "write"), Spare(free, codes))))

NoCodes == [s \in Sectors |-> ff]

(* s3c_nand_write_oob_1bit: the spare code covers what is written now, not *)
(* what is in the page.                                                    *)
WriteOob1bit(free) ==
  [page EXCEPT !.free = Prog(@, free),
               !.secc = Prog(@, SpareCode(IdleEngine, free, NoCodes))]

(* The MTD layer's own write_oob, without a code.                          *)
WriteOobStd(free) == [page EXCEPT !.free = Prog(@, free)]

WithPage(buf, codes, free) ==
  [page EXCEPT !.data = [s \in Sectors |-> Prog(@[s], buf[s])],
               !.code = [s \in Sectors |-> Prog(@[s], codes[s])],
               !.free = Prog(@, free)]

(* The mistake of computing the spare code before the codes of the sectors *)
(* are in place.                                                           *)
WritePage1bitEarly(buf, free) ==
  LET main == Encoded(buf)
  IN [WithPage(buf, main.codes, free) EXCEPT
        !.secc = Prog(@, SpareCode(main.e, free, NoCodes))]

WritePage1bit(buf, free) ==
  LET main == Encoded(buf)
  IN [WithPage(buf, main.codes, free) EXCEPT
        !.secc = Prog(@, SpareCode(main.e, free, main.codes))]

WritePage4bit(buf, free) == WithPage(buf, Encoded(buf).codes, free)
WritePage8bit(buf, free) == WithPage(buf, Encoded(buf).codes, free)

-----------------------------------------------------------------------------
(* The spare area as the SLC driver reads it: one correction over the free *)
(* bytes and all codes, left out for a JFFS2 clean marker, its result not  *)
(* looked at.                                                              *)
SpareFlips(p) == p.free.flips + MapThenSumSet(LAMBDA s : p.code[s].flips, Sectors)

Fix(p) == {[p EXCEPT !.free.flips = 0,
                     !.code = [s \in Sectors |-> [@[s] EXCEPT !.flips = 0]]]}

Hit(p) == {[p EXCEPT !.free.flips = @ + 1]} \cup
          {[p EXCEPT !.code[s].flips = @ + 1] : s \in Sectors}

ReadSpare(p) ==
  IF p.free.val = "jffs2" THEN {p}
  ELSE LET codes == [s \in Sectors |-> p.code[s].val]
           e == CalculateEcc(Feed(EnableHwecc(IdleEngine, "read"), Spare(p.free.val, codes)))
           d == [val |-> mixed, flips |-> SpareFlips(p), onMarks |-> FALSE]
       IN UNION {IF r.flips = d.flips THEN {p} ELSE IF r.flips = 0 THEN Fix(p) ELSE Hit(p) :
                   r \in CorrectData(d, p.secc, Match(e, p.secc))}

(* The results the sectors of p can give, one after the other.             *)
ReadSector(p, s) ==
  LET e == Feed(EnableHwecc(IdleEngine, "read"), p.data[s].val)
      f == IF nand_type = "SLC" THEN e ELSE Feed(e, p.code[s].val)
  IN CorrectData(p.data[s], p.code[s], Match(CalculateEcc(f), p.code[s]))

ReadMain(p) ==
  {r \in [Sectors -> UNION {ReadSector(p, s) : s \in Sectors}] :
     \A s \in Sectors : r[s] \in ReadSector(p, s)}

Reading(p, r, b) == [data |-> r, free |-> p.free, behind |-> b]

(* The MLC engine locates errors in the stored code at 512 and on, and the *)
(* driver XORs what lies there behind the sector: the next one, read only  *)
(* then, or for the last sector whatever is behind the buffer.             *)
Behind(r) ==
  IF r[NumSectors].stat <= 0 THEN {FALSE}
  ELSE IF Flips(NumSectors) > Strength + 1 THEN BOOLEAN
  ELSE {page.code[NumSectors].flips > 0}

ReadPage1bit == UNION {{Reading(p, r, FALSE) : r \in ReadMain(p)} : p \in ReadSpare(page)}
ReadPage4bit == UNION {{Reading(page, r, b) : b \in Behind(r)} : r \in ReadMain(page)}
ReadPage8bit == UNION {{Reading(page, r, b) : b \in Behind(r)} : r \in ReadMain(page)}

-----------------------------------------------------------------------------
Nothing == [data |-> <<>>, free |-> Cell(ff), behind |-> FALSE]

(* A bound: one chip of each type is used, the others take the same paths; *)
(* the cpu matters to 8 bit chips alone.                                   *)
Exercised ==
  /\ chip.dev \in {"da", "d3"} \/ chip.cell = "84"
  /\ cpu = "S3C6410" \/ nand_type = "MLC8"

NandInit ==
  /\ chip \in Chips /\ cpu \in {"S3C6400", "S3C6410"} /\ Exercised
  /\ page = Blank /\ wrote = [data |-> [s \in Sectors |-> ff], free |-> ff]
  /\ programs = <<>> /\ hits = 0 /\ last = Nothing

Erase ==
  /\ programs # <<>> \/ hits > 0
  /\ page' = Blank /\ wrote' = [data |-> [s \in Sectors |-> ff], free |-> ff]
  /\ programs' = <<>> /\ hits' = 0 /\ last' = Nothing
  /\ UNCHANGED <<chip, cpu>>

Programming(op) ==
  /\ Len(programs) < MaxPrograms
  /\ programs' = Append(programs, op)
  /\ last' = Nothing
  /\ UNCHANGED <<chip, cpu, hits>>

(* Nobody programs a page twice without erasing it.                        *)
WritePage(buf, free) ==
  /\ \A i \in DOMAIN programs : programs[i] # "page"
  /\ Programming("page")
  /\ page' = CASE nand_type = "SLC"  -> WritePage1bit(buf, free)
                [] nand_type = "MLC4" -> WritePage4bit(buf, free)
                [] nand_type = "MLC8" -> WritePage8bit(buf, free)
  /\ wrote' = [data |-> buf, free |-> IF free = ff THEN wrote.free ELSE free]

WriteOob(free) ==
  /\ Programming("oob")
  /\ page' = IF nand_type = "SLC" THEN WriteOob1bit(free) ELSE WriteOobStd(free)
  /\ wrote' = [wrote EXCEPT !.free = free]

ReadPage ==
  /\ last = Nothing
  /\ last' \in CASE nand_type = "SLC"  -> ReadPage1bit
                  [] nand_type = "MLC4" -> ReadPage4bit
                  [] nand_type = "MLC8" -> ReadPage8bit
  /\ UNCHANGED <<chip, cpu, page, wrote, programs, hits>>

(* s3c_nand_read_oob_1bit; the MTD layer reads the spare area of the       *)
(* others without a correction.                                            *)
ReadOob ==
  /\ last = Nothing
  /\ \E p \in IF nand_type = "SLC" THEN ReadSpare(page) ELSE {page} :
       last' = Reading(p, <<>>, FALSE)
  /\ UNCHANGED <<chip, cpu, page, wrote, programs, hits>>

(* Bits go bad: one, all the engine can take, or one more than that.       *)
BitsFlip ==
  /\ hits < MaxHits /\ last = Nothing
  /\ \E n \in {1, Strength, Strength + 1}, s \in Sectors :
       \/ \E m \in BOOLEAN :
            page' = [page EXCEPT !.data[s].flips = @ + n, !.data[s].onMarks = @ \/ m]
       \/ page' = [page EXCEPT !.code[s].flips = @ + n]
       \/ page' = [page EXCEPT !.free.flips = @ + n]
       \/ nand_type = "SLC" /\ page' = [page EXCEPT !.secc.flips = @ + n]
  /\ hits' = hits + 1
  /\ UNCHANGED <<chip, cpu, wrote, programs, last>>

NandNext ==
  \/ Erase
  \/ \E buf \in [Sectors -> Values], free \in FreeValues : WritePage(buf, free)
  \/ \E free \in FreeValues \ {ff} : WriteOob(free)
  \/ ReadPage \/ ReadOob
  \/ BitsFlip

NandSpec == NandInit /\ [][NandNext]_nandVars

-----------------------------------------------------------------------------
(* Known limits of the driver, exempted by name below.                     *)

(* An S3C6400 has no 8 bit engine; enable_hwecc selects the 4 bit one.     *)
Supported == ~(cpu = "S3C6400" /\ nand_type = "MLC8")

(* Writing the spare area and then the page (or the other way round) ands  *)
(* two spare codes.  The driver only knows this of JFFS2's clean marker.   *)
SpareIntact == nand_type = "SLC" => Len(programs) <= 1 \/ page.free.val = "jffs2"

(* In 4 bit mode 0xff in five bytes of the page data (not of the spare     *)
(* area, as the comment has it) turns the correction off.                  *)
Overruled(s) == nand_type = "MLC4" /\ page.data[s].val \in Marked

SpareAreaFlips == SpareFlips(page) + page.secc.flips
PageRead == last.data # <<>> /\ Supported /\ SpareIntact

(* A sector read without an error is the sector that was written, up to    *)
(* one flip more than the engine can correct: nothing goes wrong silently  *)
(* between enable_hwecc, the transfers, calculate_ecc and correct_data.    *)
CleanReadIsTrue ==
  PageRead =>
    \A s \in Sectors :
      /\ last.data[s].stat # -1
      /\ Flips(s) <= Strength + 1 /\ (nand_type = "SLC" => SpareAreaFlips <= 2)
      /\ ~Overruled(s)
      => page.data[s].val = wrote.data[s] /\ last.data[s].flips = 0

(* As many flips as the engine is made for are repaired and never reported *)
(* as a failed sector; flips in the code count, which for SLC the code of  *)
(* the spare area repairs first.  Nothing is changed behind the caller's   *)
(* buffer, unless the last sector's code had flips of its own.             *)
FewFlipsRepaired ==
  PageRead /\ (nand_type # "SLC" => \E i \in DOMAIN programs : programs[i] = "page") =>
    \A s \in Sectors :
      /\ IF nand_type = "SLC"
           THEN /\ page.data[s].flips <= 1 /\ SpareAreaFlips <= 1
                /\ page.free.val = "jffs2" => page.code[s].flips = 0
           ELSE Flips(s) <= Strength
      => /\ last.data[s].stat # -1
         /\ Overruled(s) \/ last.data[s].flips = 0
         /\ s = NumSectors /\ page.code[s].flips = 0 => ~last.behind

(* The free bytes of an SLC spare area come back as written despite a      *)
(* flip, with read_page and with read_oob, whichever wrote them.           *)
FreeBytesRepaired ==
  /\ nand_type = "SLC" /\ last # Nothing /\ SpareIntact
  /\ page.free.val # "jffs2" /\ SpareAreaFlips <= 1
  => last.free.val = wrote.free /\ last.free.flips = 0

(* For every chip the codes lie where read_page looks for them (from the   *)
(* first position on, one after the other), inside the spare area, clear   *)
(* of the bytes given to the file system and, for SLC, of the code of the  *)
(* spare area.  Probe decides it, before anything is programmed.           *)
CodesWhereReadLooks ==
  page = Blank =>
  \A id \in Chips :
    LET chosen == Identify(id)
        first  == Min(chosen.layout.eccpos)
        codes  == first .. first + (id.writesize \div 512) * chosen.bytes - 1
        end    == id.oobsize - (IF chosen.type = "SLC" THEN chosen.bytes ELSE 0)
    IN /\ chosen.layout.eccpos = codes
       /\ \A b \in codes \cup chosen.layout.free : b < end
       /\ codes \cap chosen.layout.free = {}
=============================================================================
