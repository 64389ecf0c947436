------------------------------ MODULE AuditLog ------------------------------
(***************************************************************************)
(* The chained audit log, src/src/smac.rs.  Other than the receipts        *)
(* (ReceiptBook) it is written through a buffer: what could not be written *)
(* stays there and is tried again with the next entry, and the memory has  *)
(* advanced before anything is written.                                    *)
(*                                                                         *)
(* The file and the buffer are sequences of pieces: an entry's text is two *)
(* of them, for a write may end in the middle, and a newline is one.  The  *)
(* locks of record make its calls one at a time.  Hashes do not collide:   *)
(* that of an entry is its number among all that were made.  What was      *)
(* written survives the process.  Names start with Smac, for use beside    *)
(* other modules; X_Y is X with the bug Y (see Vault).                     *)
(***************************************************************************)
EXTENDS Integers, Sequences, SequencesExt

CONSTANTS SmacEntries,    \* bound on the entries that are made
          SmacCapacity    \* of the buffer, in pieces (8 KiB in the code)

ASSUME SmacAssumption == SmacEntries \in Nat /\ SmacCapacity \in Nat \ {0, 1}

VARIABLES smac,          \* the pieces in the file and in the buffer
          smacUp,        \* the process runs
          smacCounter,   \* in memory: the index of the next entry, ...
          smacLast,      \* ... and the hash of the last one
          smacMade,      \* entries made so far: the source of hashes
          \* History variables.
          smacStart,     \* smacMade when this process started
          smacAcked,     \* hashes of entries record returned Ok for
          smacWhole      \* since the start, on a file with a last newline,
                         \* every entry found room in the buffer

smacMemory == <<smacCounter, smacLast>>
smacVars == <<smac, smacUp, smacMemory, smacMade, smacStart, smacAcked, smacWhole>>

SmacGenesis == 0

\* start: a history field, smacStart when the entry was made.
SmacEntry == [index : Nat, prev : 0 .. SmacEntries, hash : 1 .. SmacEntries, start : Nat]
SmacNothing == [index |-> 0, prev |-> 0, hash |-> 0, start |-> 0]

Text(e) == <<<<e, 1>>, <<e, 2>>>>
Newline == <<<<SmacNothing, 0>>>>
Pieces == (SmacEntry \X {1, 2}) \cup {<<SmacNothing, 0>>}

SmacTypeOK ==
    /\ smac.file \in Seq(Pieces)
    /\ smac.buffer \in Seq(Pieces)
    /\ Len(smac.buffer) <= SmacCapacity
    /\ smacUp \in BOOLEAN
    /\ smacCounter \in Nat
    /\ smacLast \in 0 .. SmacEntries
    /\ smacMade \in 0 .. SmacEntries
    /\ smacStart \in 0 .. smacMade
    /\ smacAcked \subseteq 1 .. smacMade
    /\ smacWhole \in BOOLEAN

SmacInit ==
    /\ smac = [file |-> <<>>, buffer |-> <<>>]
    /\ smacUp = TRUE
    /\ smacCounter = 0
    /\ smacLast = SmacGenesis
    /\ smacMade = 0
    /\ smacStart = 0
    /\ smacAcked = {}
    /\ smacWhole = TRUE

(***************************************************************************)
(* verify_smac_log_chain.                                                  *)
(***************************************************************************)

\* What is read of a log: the non-empty lines that ended, and the one that
\* has not.
SmacPut(read, piece) ==
    IF <<piece>> # Newline THEN [ended |-> read.ended, open |-> Append(read.open, piece)]
    ELSE IF read.open = <<>> THEN read
    ELSE [ended |-> Append(read.ended, read.open), open |-> <<>>]

SmacRead(pieces) ==
    LET at[n \in 0 .. Len(pieces)] ==
            IF n = 0 THEN [ended |-> <<>>, open |-> <<>>]
            ELSE SmacPut(at[n - 1], pieces[n])
    IN  at[Len(pieces)]

\* The last line need not have a newline.
Lines(pieces) ==
    LET read == SmacRead(pieces)
    IN  IF read.open = <<>> THEN read.ended ELSE Append(read.ended, read.open)

EntryOf(line) == line[1][1]
Parses(line) == line = Text(EntryOf(line))

SmacLastOf(lines) == IF lines = <<>> THEN SmacGenesis ELSE EntryOf(Last(lines)).hash

\* The index of an entry is not looked at.
SmacVerifies(pieces) ==
    LET lines == Lines(pieces)
    IN  \A i \in DOMAIN lines :
            /\ Parses(lines[i])
            /\ EntryOf(lines[i]).prev = SmacLastOf(SubSeq(lines, 1, i - 1))

(***************************************************************************)
(* The buffer.                                                             *)
(***************************************************************************)
Flushed(out, n) ==
    [file |-> out.file \o SubSeq(out.buffer, 1, n),
     buffer |-> SubSeq(out.buffer, n + 1, Len(out.buffer))]

\* A flush that fails, or is the last thing the process does.
HalfFlushed(out) == {Flushed(out, n) : n \in 0 .. Len(out.buffer) - 1}

HasRoom(out, pieces) == Len(out.buffer) + Len(pieces) <= SmacCapacity

\* What has no room waits for a flush, ...
Put(out, pieces) ==
    IF HasRoom(out, pieces) THEN [out EXCEPT !.buffer = @ \o pieces]
    ELSE [file |-> out.file \o out.buffer, buffer |-> pieces]

\* ... and is lost when that fails.
PutFails(out, pieces) == IF HasRoom(out, pieces) THEN {} ELSE HalfFlushed(out)

(***************************************************************************)
(* record.                                                                 *)
(***************************************************************************)
NextEntry ==
    [index |-> smacCounter, prev |-> smacLast, hash |-> smacMade + 1, start |-> smacStart]

\* Advances only with what was written.
Advanced_Late ==
    /\ smacUp
    /\ smacMade < SmacEntries
    /\ smacMade' = smacMade + 1
    /\ \/ smacCounter' = smacCounter + 1 /\ smacLast' = NextEntry.hash
       \/ UNCHANGED smacMemory

Advanced ==
    /\ smacUp
    /\ smacMade < SmacEntries
    /\ smacMade' = smacMade + 1
    /\ smacCounter' = smacCounter + 1
    /\ smacLast' = NextEntry.hash

WithText == Put(smac, Text(NextEntry))
WithLine == Put(WithText, Newline)

SmacRecord ==
    /\ Advanced
    /\ smac' = Flushed(WithLine, Len(WithLine.buffer))
    /\ smacAcked' = smacAcked \cup {NextEntry.hash}
    /\ UNCHANGED <<smacUp, smacStart, smacWhole>>

Dropped == PutFails(smac, Text(NextEntry)) \cup PutFails(WithText, Newline)

\* Takes the buffer for empty once it has tried to write it.
SmacRecordFails_BufferCleared ==
    /\ Advanced
    /\ \E out \in HalfFlushed(WithLine) : smac' = [out EXCEPT !.buffer = <<>>]
    /\ UNCHANGED <<smacUp, smacStart, smacAcked, smacWhole>>

\* The caller gets the error, and logs it.
SmacRecordFails ==
    /\ Advanced
    /\ \/ smac' \in Dropped /\ smacWhole' = FALSE
       \/ smac' \in HalfFlushed(WithLine) /\ UNCHANGED smacWhole
    /\ UNCHANGED <<smacUp, smacStart, smacAcked>>

(***************************************************************************)
(* The process ends, in record or elsewhere, and is started again.         *)
(***************************************************************************)
SmacDown(outs) ==
    /\ smacUp' = FALSE
    /\ \E out \in outs : smac' = [file |-> out.file, buffer |-> <<>>]

SmacDiesInRecord ==
    /\ Advanced
    /\ SmacDown(Dropped \cup HalfFlushed(WithLine) \cup {Flushed(WithLine, Len(WithLine.buffer))})
    /\ UNCHANGED <<smacStart, smacAcked, smacWhole>>

\* At an orderly end what is left in the buffer is tried once more.
SmacStops ==
    /\ smacUp
    /\ SmacDown(HalfFlushed(smac) \cup {Flushed(smac, Len(smac.buffer))})
    /\ UNCHANGED <<smacMemory, smacMade, smacStart, smacAcked, smacWhole>>

\* SmacLogger::new, without which the server does not start.
SmacLoggerNew ==
    /\ ~smacUp
    /\ SmacVerifies(smac.file)
    /\ smacUp' = TRUE
    /\ smacCounter' = Len(Lines(smac.file))
    /\ smacLast' = SmacLastOf(Lines(smac.file))
    /\ smacStart' = smacMade
    /\ smacWhole' = (smac.file = <<>> \/ <<Last(smac.file)>> = Newline)
    /\ UNCHANGED <<smac, smacMade, smacAcked>>

SmacNext ==
    \/ SmacRecord \/ SmacRecordFails \/ SmacDiesInRecord
    \/ SmacStops \/ SmacLoggerNew

SmacSpec == SmacInit /\ [][SmacNext]_smacVars

-----------------------------------------------------------------------------
(* Properties.                                                             *)

\* A disk that fails for a while does not break the chain: as long as there
\* was room in the buffer, file and buffer together verify, and the memory
\* continues them.
ChainSurvivesFailures ==
    smacUp /\ smacWhole =>
        LET all == smac.file \o smac.buffer
        IN  /\ SmacVerifies(all)
            /\ smacCounter = Len(Lines(all))
            /\ smacLast = SmacLastOf(Lines(all))

\* A log that verifies hides no loss: it holds every entry whose recording
\* was reported as done, and with an entry all those the same process made
\* before it.
NoSilentLoss ==
    SmacVerifies(smac.file) =>
        LET held == {EntryOf(l) : l \in ToSet(Lines(smac.file))}
            hashes == {e.hash : e \in held}
        IN  /\ smacAcked \subseteq hashes
            /\ \A e \in held : e.start + 1 .. e.hash \subseteq hashes
=============================================================================
