----------------------------- MODULE MCByteCopy -----------------------------
(***************************************************************************)
(* ByteCopy for TLC: two processes with any two of these jobs, on files of *)
(* more bytes than the buffer has room for.                                *)
(***************************************************************************)
EXTENDS ByteCopy

\* Two streams, the second not a text, and four files.
MCContents ==
  [page |-> <<1, 2, 3>>, data |-> <<1, 0, 2>>, html |-> <<>>,
   a |-> <<1, 0, 2>>, b |-> <<3, 4, 0>>, copy |-> <<6, 7>>]

Started(tool, source, dest, from, to) ==
  [tool |-> tool, source |-> source, dest |-> dest, from |-> from, to |-> to]

MCJob ==
  {Started("FS-2", "a", "b", 0, 0), Started("FS-2", "b", "a", 0, 0),
   Started("FS-2", "b", "b", 0, 0), Started("FS-2", "b", "html", 0, 0),
   Started("FS-10", "a", "copy", 0, 0), Started("FS-10", "b", "copy", 0, 0),
   Started("FS-10", "copy", "copy", 0, 0),
   Started("FS-11", "b", "copy", 1, 2), Started("FS-11", "a", "copy", 0, -1),
   Started("HTTP", "page", "html", 0, 0), Started("HTTP", "data", "html", 0, 0)}
=============================================================================
