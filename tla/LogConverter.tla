---------------------------- MODULE LogConverter ---------------------------
(***************************************************************************)
(* btoa_converter: turns binary and compressed logs into ASCII             *)
(* (postprocessing/btoa_converter.cpp).  A log is named by its channel and  *)
(* the letter of its format, and every log that the profiler wrote is one   *)
(* of Originals.  A file is a sequence of items, each with the numbers of   *)
(* the tuples in it:                                                        *)
(*   record   one tuple of a binary log;                                    *)
(*   block    a compressed block (io_thread.cpp, writeCompressed);          *)
(*   bad      a block that does not decompress;                             *)
(*   part     what a process that was cut off wrote last.                   *)
(***************************************************************************)
EXTENDS Naturals, Sequences, FiniteSets, SequencesExt, TLC

CONSTANTS
  Channels,      \* channels with a log
  Originals,     \* what the profiler may have written: [fmt, items, readable]
  MaxItems       \* bound: items read from one file

ASSUME ConverterAssumption ==
  /\ MaxItems \in Nat
  /\ \A o \in Originals :
       /\ o.readable \in BOOLEAN /\ o.fmt \in {"a", "b", "z", "l", "y"}
       /\ o.items \in Seq([kind : {"record", "block", "bad", "part"}, data : Seq(Nat)])

VARIABLES
  original,      \* [Channels -> Originals]
  given,         \* TRUE: files are named on the command line; FALSE: the directory
  writable,      \* the directory takes new files
  disk,          \* the files, by channel and format
  bpc, decomp,   \* where the program is, and the argument of convert
  left,          \* files of this pass not seen yet
  file, pos      \* the file at hand: its name, and the next item

convVars == <<original, given, writable, disk, bpc, decomp, left, file, pos>>

NoFile == <<"none", "none">>
Junk == 0        \* a tuple number no log has
as_written ==
  [f \in {<<c, original[c].fmt>> : c \in Channels} |-> original[f[1]].items]

\* main: the directory, or the files of the command line.
ConvInit ==
  /\ original \in [Channels -> Originals] /\ given \in BOOLEAN /\ writable \in BOOLEAN
  /\ disk = as_written
  /\ bpc = (IF given THEN "pick" ELSE "opendir") /\ decomp = ~given
  /\ left = IF given THEN DOMAIN disk ELSE {}
  /\ file = NoFile /\ pos = 1

\* convert: what a pass writes is of no format the same pass looks for, so that it
\* does not matter whether readdir still returns it.
openDirectory ==
  /\ bpc = "opendir"
  /\ bpc' = "pick" /\ left' = DOMAIN disk
  /\ UNCHANGED <<original, given, writable, disk, decomp, file, pos>>

DirectoryFails ==
  /\ ~given
  /\ bpc = "opendir" \/ (bpc = "pick" /\ left = {})
  /\ bpc' = "failed"
  /\ UNCHANGED <<original, given, writable, disk, decomp, left, file, pos>>

\* An input that cannot be opened; what the converter itself wrote can be.
opens(f) == f \in DOMAIN disk /\ (f[2] = original[f[1]].fmt => original[f[1]].readable)

\* The head of decompress and of convertBinToASCII: open src, truncate dst, loop.
\* When src cannot be opened every read fails, and none ever sets eof.
open(loop, src, dst) ==
  /\ file' = src /\ pos' = 1
  /\ disk' = IF writable
             THEN [f \in DOMAIN disk \cup {dst} |-> IF f = dst THEN <<>> ELSE disk[f]]
             ELSE disk
  /\ bpc' = IF opens(src) THEN loop ELSE "spins"

compressed(f) == f[2] \in {"z", "l"}
binary(f) == f[2] = "b"

\* convertLogFile: a pass decompresses, the other one converts.  convertLogFileToAscii
\* does both to a compressed file, one after the other.
PickFile ==
  /\ bpc = "pick"
  /\ \E f \in left :
       /\ left' = left \ {f}
       /\ \/ (given \/ decomp) /\ compressed(f) /\ open("decompress", f, <<f[1], "b">>)
          \/ (given \/ ~decomp) /\ binary(f) /\ open("convert", f, <<f[1], "a">>)
          \/ /\ ~((given \/ decomp) /\ compressed(f)) /\ ~((given \/ ~decomp) /\ binary(f))
             /\ UNCHANGED <<disk, bpc, file, pos>>
  /\ UNCHANGED <<original, given, writable, decomp>>

\* closeDirectory: after convert(true) comes convert(false).
EndPass ==
  /\ bpc = "pick" /\ left = {}
  /\ bpc' = IF decomp THEN "opendir" ELSE "done"
  /\ decomp' = FALSE
  /\ UNCHANGED <<original, given, writable, disk, left, file, pos>>

\* Variant: eof is tested before the read.
eof_before(items) == items = <<>> \/ pos > Len(items) + 1

\* The read of the item at pos meets the end of the file.
eof(items) == pos <= Len(items) => items[pos].kind = "part"

\* What is read when the end has been missed: the variables keep their values.
item(items) == items[IF pos > Len(items) THEN Len(items) ELSE pos]

tuples_of(data) == [k \in DOMAIN data |-> [kind |-> "record", data |-> <<data[k]>>]]

\* A turn of decompress' loop.  What a block that fails leaves in out is written.
DecompressBlock ==
  LET src == disk[file]
      dst == <<file[1], "b">>
  IN /\ bpc = "decompress" /\ ~eof(src) /\ pos <= MaxItems
     /\ \E out \in IF item(src).kind = "bad" THEN {<<>>, <<Junk>>} ELSE {item(src).data} :
          disk' = IF writable THEN [disk EXCEPT ![dst] = @ \o tuples_of(out)] ELSE disk
     /\ pos' = pos + 1
     /\ UNCHANGED <<original, given, writable, bpc, decomp, left, file>>

\* Its end: files of the command line are converted at once.
DecompressEnd ==
  /\ bpc = "decompress" /\ eof(disk[file])
  /\ IF given THEN open("convert", <<file[1], "b">>, <<file[1], "a">>)
              ELSE bpc' = "pick" /\ UNCHANGED <<disk, file, pos>>
  /\ UNCHANGED <<original, given, writable, decomp, left>>

\* A turn of convertBinToASCII's loop: readInBinary, eof, writeInAscii.
ConvertRecord ==
  LET src == disk[file]
      dst == <<file[1], "a">>
  IN /\ bpc = "convert"
     /\ \/ /\ eof(src)
           /\ bpc' = "pick" /\ UNCHANGED <<disk, pos>>
        \/ /\ ~eof(src) /\ pos <= MaxItems
           /\ disk' = IF writable THEN [disk EXCEPT ![dst] = @ \o item(src).data] ELSE disk
           /\ pos' = pos + 1 /\ UNCHANGED bpc
     /\ UNCHANGED <<original, given, writable, decomp, left, file>>

ConvStep == openDirectory \/ PickFile \/ EndPass \/ DecompressBlock \/ DecompressEnd \/ ConvertRecord
ConvNext == ConvStep \/ DirectoryFails
ConvSpec == ConvInit /\ [][ConvNext]_convVars

-----------------------------------------------------------------------------
convertible(o) == o.fmt \in {"b", "z", "l"}
intact(o) == \A k \in DOMAIN o.items : o.items[k].kind # "bad"

\* The tuples of the items before the one that was cut off.
complete_tuples(o) ==
  FlattenSeq([k \in DOMAIN o.items |->
    IF \E j \in 1 .. k : o.items[j].kind = "part" THEN <<>> ELSE o.items[k].data])

\* When the converter is done, every log in a format it knows has an ASCII log with
\* each of its complete tuples once and in order, in one pass or in two, and with
\* nothing of a record or a block that was cut off (btoa_converter.cpp: "converts log
\* files into ASCII format", README.md:215).
ConvertedFaithfully ==
  bpc = "done" /\ writable =>
    \A c \in Channels : convertible(original[c]) /\ intact(original[c]) =>
       /\ <<c, "a">> \in DOMAIN disk
       /\ disk[<<c, "a">>] = complete_tuples(original[c])

\* The converter ends when its inputs can be opened and its outputs created, logs that
\* were cut off included (the loops leave at eof and for nothing else).
ConverterEnds ==
  (writable /\ \A c \in Channels : original[c].readable) ~> (bpc \in {"done", "failed"})
=============================================================================
