---------------------------- MODULE MCBootLoader ----------------------------
(* Files of up to three blocks, in a memory of five bytes below the buffer: a
   program that is copied into the buffer, over the block that it does not need;
   one of two segments that are parts of the same bytes, the first of which ends
   where the buffer begins; one without an entry point, with a segment that is
   not to be loaded (where it stands it would be one); and an empty file. *)
EXTENDS BootLoader

Magic == 15
Header(n, entry) == <<Magic, n, entry>>
Segment(addr, offset, filesize, bss) == <<addr, offset, 16 + filesize + 4 * bss>>
Note(addr, offset, filesize, bss)    == <<addr, offset, filesize + 4 * bss>>

InBuffer    == <<Header(1, 2), Segment(11, 2, 2, 1), <<20, 6, 11>>>>
TwoSegments == <<Header(2, 1), Segment(3, 0, 2, 0), Segment(0, 1, 2, 1)>>
NoEntry     == <<Header(2, 0), Segment(1, 0, 2, 1), Note(7, 6, 1, 0)>>

PlainFiles == {<<>>, InBuffer, TwoSegments, NoEntry}
OneGarbled == {7}

(* A file with a block that begins with the byte EOT. *)
EotFiles == {<<Header(0, 2), <<EOT, 9, 9>>>>}
=============================================================================
