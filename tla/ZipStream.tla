----------------------------- MODULE ZipStream -----------------------------
(***************************************************************************)
(* The archive writer of zip-stream.js: files are stored one after the     *)
(* other, each as a header, the chunks of its body and a footer; when the  *)
(* writer is closed the central directory follows, which says where each   *)
(* header is.  The writer is a record, each of its functions an operator   *)
(* from writers to writers.                                                *)
(***************************************************************************)
EXTENDS Integers, FiniteSets, SequencesExt

CONSTANTS
  HeaderLen,   \* bytes of a local header; names are of one length
  FooterLen,   \* bytes of a data descriptor
  Uint32,      \* 2^32 in the code: offsets and sizes are stored modulo it
  Uint16       \* 2^16 in the code: the number of entries is stored modulo it

ASSUME ZipAssumption ==
  /\ HeaderLen \in Nat \ {0} /\ FooterLen \in Nat \ {0}
  /\ Uint32 \in Nat \ {0} /\ Uint16 \in Nat \ {0}

Header(name)     == [kind |-> "header", name |-> name]
Data(file, n)    == [kind |-> "data", file |-> file, n |-> n]
Footer(length)   == [kind |-> "footer", length |-> length % Uint32]
Central(entries) == [kind |-> "central", entries |-> entries,
                     count |-> Len(entries) % Uint16]

\* A body is read in chunks of one byte.
Bytes(chunk) ==
  CASE chunk.kind = "header"  -> HeaderLen
    [] chunk.kind = "data"    -> 1
    [] chunk.kind = "footer"  -> FooterLen
    [] chunk.kind = "central" -> 0

\* The writer when it is made; out is the queue of its ReadableStream, whose
\* state is "readable", "closed" or "errored".
NewZip == [filenames |-> <<>>, offsets |-> <<>>, lengths |-> <<>>, activeZipIndex |-> 1,
           active |-> FALSE, closed |-> FALSE, offset |-> 0, out |-> <<>>,
           state |-> "readable"]

\* Mutant: the offset is taken after the header.
WriteHeaderLate(z) ==
  [z EXCEPT !.active  = TRUE,
            !.offsets = Append(@, z.offset + HeaderLen),
            !.offset  = @ + HeaderLen,
            !.out     = Append(@, Header(z.filenames[z.activeZipIndex]))]

\* processNextChunk for a file that has not been begun: it takes the reader of
\* the body and writes the header.
WriteHeader(z) ==
  [z EXCEPT !.active  = TRUE,
            !.offsets = Append(@, z.offset),
            !.offset  = @ + HeaderLen,
            !.out     = Append(@, Header(z.filenames[z.activeZipIndex]))]

CloseZip(z) ==
  [z EXCEPT !.out   = Append(@, Central([i \in 1 .. Len(z.filenames) |->
                        [name   |-> z.filenames[i],
                         offset |-> z.offsets[i] % Uint32,
                         length |-> z.lengths[i] % Uint32]])),
            !.state = "closed"]

\* The file after the active one, if it has been enqueued already.
NextFile(z) ==
  LET y == [z EXCEPT !.activeZipIndex = @ + 1, !.active = FALSE] IN
  IF y.activeZipIndex <= Len(y.filenames) THEN WriteHeader(y)
  ELSE IF y.closed THEN CloseZip(y) ELSE y

\* A throw in pull: the stream is errored and what it had queued is dropped.
Fail(z) == [z EXCEPT !.state = "errored", !.out = <<>>]

\* enqueue: a name that the archive has, or a closed writer, is an error.
Enqueue(z, name) ==
  LET y == [z EXCEPT !.filenames = Append(@, name), !.lengths = Append(@, 0)] IN
  IF z.closed \/ name \in Range(z.filenames) THEN Fail(z)
  ELSE IF z.active THEN y ELSE WriteHeader(y)

\* pump, for a chunk of the body and for its end.
WriteData(z, file) ==
  LET n == z.lengths[z.activeZipIndex] + 1 IN
  [z EXCEPT !.lengths[z.activeZipIndex] = n, !.out = Append(@, Data(file, n))]

WriteFooter(z) ==
  LET length == z.lengths[z.activeZipIndex] IN
  NextFile([z EXCEPT !.out = Append(@, Footer(length)),
                     !.offset = @ + length + FooterLen])

\* close: at once if no file is active, else when the last one is done.
Close(z) ==
  IF z.closed THEN Fail(z)
  ELSE IF z.active THEN [z EXCEPT !.closed = TRUE]
       ELSE [CloseZip(z) EXCEPT !.closed = TRUE]
=============================================================================
