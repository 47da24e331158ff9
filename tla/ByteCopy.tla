------------------------------ MODULE ByteCopy ------------------------------
(***************************************************************************)
(* The programs that copy bytes into a file, several of them at a time:    *)
(* FS-2 copies a file, FS-10 copies one without its zero bytes to          *)
(* copy.txt, FS-11 does so from an offset to an offset, and HTTP_ex saves  *)
(* the answer of a server.  Each opens its source, then its destination    *)
(* with O_TRUNC, and repeats a read into its buffer and what it makes of   *)
(* it.  The stream that HTTP_ex reads counts as a file that nobody writes, *)
(* and what it has given to its std::ofstream as written.                  *)
(***************************************************************************)
EXTENDS Integers, Sequences

CONSTANTS
  Process,
  Job,         \* what a process may be started to do
  Contents,    \* the contents of each file before that
  BufferSize

Zero == 0
File == DOMAIN Contents

ASSUME ByteCopyAssumption ==
  /\ BufferSize \in Nat \ {0}
  /\ Contents \in [File -> Seq(Nat)]
  /\ Job \subseteq [tool : {"FS-2", "FS-10", "FS-11", "HTTP"}, source : File, dest : File,
                    from : Int, to : Int]
  /\ \A j \in Job : j.tool # "FS-11" => j.from = 0 /\ j.to = 0

VARIABLES
  job,      \* what each process does
  pc,       \* where it is
  file,     \* the contents of each file
  input,    \* the offset of its source
  output,   \* the offset of its destination
  pending,  \* what it has read and still has to write
  broken,   \* whether its std::ofstream has failed
  report    \* its last message

vars == <<job, pc, file, input, output, pending, broken, report>>

TypeOK ==
  /\ job \in [Process -> Job]
  /\ pc \in [Process -> {"open", "create", "seek", "read", "write", "ended"}]
  /\ file \in [File -> Seq(Nat)]
  /\ input \in [Process -> Nat]
  /\ output \in [Process -> Nat]
  /\ pending \in [Process -> Seq(Nat)]
  /\ broken \in [Process -> BOOLEAN]
  /\ report \in [Process -> {"none", "error", "success"}]

Init ==
  /\ job \in [Process -> Job]
  /\ pc = [p \in Process |-> "open"]
  /\ file = Contents
  /\ input = [p \in Process |-> 0]
  /\ output = [p \in Process |-> 0]
  /\ pending = [p \in Process |-> <<>>]
  /\ broken = [p \in Process |-> FALSE]
  /\ report = [p \in Process |-> "none"]

Tool(p)   == job[p].tool
Source(p) == job[p].source
Dest(p)   == job[p].dest

Move(p, from, to) == pc[p] = from /\ pc' = [pc EXCEPT ![p] = to]
Say(p, message) == report' = [report EXCEPT ![p] = message]
Fail(p) == pc' = [pc EXCEPT ![p] = "ended"] /\ Say(p, "error")
Offsets == <<input, output>>

----------------------------------------------------------------------------
\* Open the source, or connect to the server and send the request.
OpenSource(p) ==
  /\ Move(p, "open", "create")
  /\ UNCHANGED <<job, file, Offsets, pending, broken, report>>

\* Mutant of OpenDest: the old contents stay.
OpenDestKept(p) ==
  /\ Move(p, "create", "seek")
  /\ UNCHANGED <<job, file, Offsets, pending, broken, report>>

OpenDest(p) ==
  /\ Move(p, "create", "seek")
  /\ file' = [file EXCEPT ![Dest(p)] = <<>>]
  /\ UNCHANGED <<job, Offsets, pending, broken, report>>

OpenFails(p) ==
  /\ pc[p] \in {"open", "create"}
  /\ Fail(p)
  /\ UNCHANGED <<job, file, Offsets, pending, broken>>

\* FS-11 seeks in both files; the jobs of the others start at 0.
Seek(p) ==
  /\ pc[p] = "seek"
  /\ IF job[p].from >= 0 /\ job[p].to >= 0
     THEN /\ pc' = [pc EXCEPT ![p] = "read"]
          /\ input' = [input EXCEPT ![p] = job[p].from]
          /\ output' = [output EXCEPT ![p] = job[p].to]
          /\ UNCHANGED report
     ELSE Fail(p) /\ UNCHANGED Offsets
  /\ UNCHANGED <<job, file, pending, broken>>

----------------------------------------------------------------------------
Least(a, b) == IF a < b THEN a ELSE b
Greatest(a, b) == IF a > b THEN a ELSE b
NotZero(byte) == byte # Zero

\* FS-10 and FS-11 pass over the zeros of a chunk, byte after byte.
WithoutZeros(chunk) ==
  LET kept[n \in 0 .. Len(chunk)] ==
        IF n = 0 THEN <<>>
        ELSE IF NotZero(chunk[n]) THEN Append(kept[n - 1], chunk[n])
        ELSE kept[n - 1]
  IN kept[Len(chunk)]

\* n bytes of a chunk are all that a C string has of it.
TextEnds(chunk, n) ==
  /\ \A i \in 1 .. n : NotZero(chunk[i])
  /\ n = Len(chunk) \/ chunk[n + 1] = Zero

\* Mutant of Kept: bytes are taken up to the first zero by all programs.
KeptText(tool, chunk) == SubSeq(chunk, 1, CHOOSE n \in 0 .. Len(chunk) : TextEnds(chunk, n))

\* What of a chunk is to be written.  HTTP_ex takes it for a C string.
Kept(tool, chunk) ==
  CASE tool = "FS-2" -> chunk
    [] tool \in {"FS-10", "FS-11"} -> WithoutZeros(chunk)
    [] tool = "HTTP" -> KeptText(tool, chunk)

Left(p) == Greatest(Len(file[Source(p)]) - input[p], 0)

\* Only a stream gives less than there is room for before its end.
Read(p) ==
  \E n \in 1 .. Least(Left(p), BufferSize) :
    /\ Tool(p) # "HTTP" => n = Least(Left(p), BufferSize)
    /\ Move(p, "read", "write")
    /\ input' = [input EXCEPT ![p] = @ + n]
    /\ pending' = [pending EXCEPT
                     ![p] = Kept(Tool(p), SubSeq(file[Source(p)], input[p] + 1, input[p] + n))]
    /\ UNCHANGED <<job, file, output, broken, report>>

ReadEnd(p) ==
  /\ Move(p, "read", "ended")
  /\ Left(p) = 0
  /\ Say(p, "success")
  /\ UNCHANGED <<job, file, Offsets, pending, broken>>

\* Mutant of ReadFails: no program looks.
ReadFailsUnseen(p) ==
  /\ Move(p, "read", "ended")
  /\ Say(p, "success")
  /\ UNCHANGED <<job, file, Offsets, pending, broken>>

\* FS-2 tells an error from the end, the others do not.
ReadFails(p) ==
  /\ Move(p, "read", "ended")
  /\ Say(p, IF Tool(p) = "FS-2" THEN "error" ELSE "success")
  /\ UNCHANGED <<job, file, Offsets, pending, broken>>

\* The contents of a file after a write; a gap before it reads as zeros.
Written(contents, offset, bytes) ==
  IF bytes = <<>> THEN contents
  ELSE [i \in 1 .. Greatest(Len(contents), offset + Len(bytes)) |->
          IF i > offset /\ i <= offset + Len(bytes) THEN bytes[i - offset]
          ELSE IF i <= Len(contents) THEN contents[i] ELSE Zero]

\* FS-10 and FS-11 write byte by byte.
Block(p) ==
  IF Tool(p) \in {"FS-10", "FS-11"} THEN Least(1, Len(pending[p])) ELSE Len(pending[p])

\* Mutant of Put: a write goes to the end of the file, as with O_APPEND.
PutAtEnd(p, n) ==
  /\ file' = [file EXCEPT ![Dest(p)] = @ \o SubSeq(pending[p], 1, n)]
  /\ output' = [output EXCEPT ![p] = @ + n]

Put(p, n) ==
  /\ file' = [file EXCEPT ![Dest(p)] = Written(@, output[p], SubSeq(pending[p], 1, n))]
  /\ output' = [output EXCEPT ![p] = @ + n]

\* Mutant of Write: the loop over a chunk expects at least one byte to write.
WriteAtLeastOne(p) ==
  LET n == IF broken[p] THEN 0 ELSE Block(p) IN
  /\ pc[p] = "write"
  /\ Put(p, n)
  /\ pending' = [pending EXCEPT ![p] = SubSeq(@, n + 1, Len(@))]
  /\ pc' = IF n > 0 /\ pending'[p] = <<>> THEN [pc EXCEPT ![p] = "read"] ELSE pc
  /\ UNCHANGED <<job, input, broken, report>>

\* A stream that has failed writes no more.
Write(p) ==
  LET n == IF broken[p] THEN 0 ELSE Block(p) IN
  /\ pc[p] = "write"
  /\ Put(p, n)
  /\ pending' = [pending EXCEPT ![p] = IF broken[p] THEN <<>> ELSE SubSeq(@, n + 1, Len(@))]
  /\ pc' = IF pending'[p] = <<>> THEN [pc EXCEPT ![p] = "read"] ELSE pc
  /\ UNCHANGED <<job, input, broken, report>>

\* Less than the block is written.  HTTP_ex goes on all the same.
WriteFails(p) ==
  /\ pc[p] = "write" /\ ~broken[p]
  /\ \E n \in 0 .. Block(p) - 1 : Put(p, n)
  /\ pending' = [pending EXCEPT ![p] = <<>>]
  /\ IF Tool(p) = "HTTP"
     THEN /\ pc' = [pc EXCEPT ![p] = "read"]
          /\ broken' = [broken EXCEPT ![p] = TRUE]
          /\ UNCHANGED report
     ELSE Fail(p) /\ UNCHANGED broken
  /\ UNCHANGED <<job, input>>

----------------------------------------------------------------------------
Reads(p) == Read(p) \/ ReadEnd(p) \/ ReadFails(p)
Step(p) ==
  \/ OpenSource(p) \/ OpenDest(p) \/ OpenFails(p) \/ Seek(p)
  \/ Reads(p)
  \/ Write(p) \/ WriteFails(p)

Next == \E p \in Process : Step(p)

Spec == Init /\ [][Next]_vars

\* A process runs; a server may let HTTP_ex wait for ever.
FairSpec ==
  Spec /\ \A p \in Process : WF_vars(Step(p) /\ ~(Tool(p) = "HTTP" /\ Reads(p)))

----------------------------------------------------------------------------
\* Nobody else writes to the destination of p, and nobody to its source.
Undisturbed(p) ==
  /\ Dest(p) # Source(p)
  /\ \A q \in Process \ {p} : Dest(q) \notin {Source(p), Dest(p)}

Text(contents) == \A i \in DOMAIN contents : NotZero(contents[i])

\* What the bytes that p has read should make of its destination, whatever the
\* chunks they came in.
Image(p) ==
  Written(<<>>, job[p].to,
          Kept(Tool(p), SubSeq(Contents[Source(p)], job[p].from + 1, input[p])))

\* A copy that nobody disturbs agrees with what has been read, at every read:
\* nothing is left out, repeated or moved at the borders of the buffer or at the
\* offsets.  HTTP_ex keeps this to answers without a zero byte, and while its
\* stream works (FS-2/main.cpp:29-40, FS-11/main.cpp:60-81,
\* HTTP_ex/main.cpp:48-53).
CopyIsImage ==
  \A p \in Process :
    /\ pc[p] = "read" /\ Undisturbed(p) /\ ~broken[p]
    /\ Tool(p) = "HTTP" => Text(Contents[Source(p)])
    => file[Dest(p)] = Image(p)

\* FS-2 announces a copy only if all of the source is in it; a read or a write
\* that fails is not taken for the end (FS-2/main.cpp:33-46).
SuccessIsWhole ==
  \A p \in Process :
    Tool(p) = "FS-2" /\ Undisturbed(p) /\ report[p] = "success"
      => file[Dest(p)] = Contents[Source(p)]

\* What two programs write to one file at the same time, as two FS-10 do, is
\* mixed byte by byte but not shifted: each byte is zero or one that a program
\* puts there (FS-10/copy.cpp:19, 40).
Whole(p) == Written(<<>>, job[p].to,
                    Kept(Tool(p), SubSeq(Contents[Source(p)], job[p].from + 1,
                                         Len(Contents[Source(p)]))))
Writers(f) == {p \in Process : Dest(p) = f}
MixedByPosition ==
  \A f \in File :
    (\A p \in Writers(f) : Tool(p) # "HTTP" /\ job[p].from >= 0 /\ Writers(Source(p)) = {}) =>
      \A i \in DOMAIN file[f] :
        \/ file[f][i] = Zero
        \/ i \in DOMAIN Contents[f] /\ file[f][i] = Contents[f][i]
        \/ \E p \in Writers(f) : i \in DOMAIN Whole(p) /\ file[f][i] = Whole(p)[i]

\* p and q copy onto each other's source and nobody else writes there; with p = q
\* a file is copied onto itself.
OntoEachOther(p, q) ==
  /\ Source(p) = Dest(q) /\ Writers(Dest(p)) = {p}
  /\ Source(q) = Dest(p) /\ Writers(Dest(q)) = {q}

\* The file g has nothing but a beginning of the old contents of f.
Begins(g, f) == \E n \in 0 .. Len(Contents[f]) : file[g] = SubSeq(Contents[f], 1, n)

\* Two FS-2 that copy onto each other's source lose the contents of at least one
\* of the two files: what is left in both is the beginning of one and the same,
\* and both report success.  A file copied onto itself is lost whole
\* (FS-2/main.cpp:12-18, 52).
OneContentsLeft ==
  \A p, q \in Process :
    OntoEachOther(p, q) /\ report[p] = "success" /\ report[q] = "success" =>
      /\ p = q => file[Dest(p)] = <<>>
      /\ Tool(p) = "FS-2" /\ Tool(q) = "FS-2" =>
           \E f \in {Source(p), Dest(p)} : Begins(Source(p), f) /\ Begins(Dest(p), f)

\* Copies come to an end, also two that each copy to the other's source
\* (FS-2/main.cpp:30, FS-10/copy.cpp:31).  Two FS-11 that do this with an offset
\* into the destination could go on for ever: no job here does.
CopiesEnd == \A p \in Process : Tool(p) # "HTTP" => <>(pc[p] = "ended")
=============================================================================
