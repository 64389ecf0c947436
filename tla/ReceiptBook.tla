---------------------------- MODULE ReceiptBook ----------------------------
(***************************************************************************)
(* The chain of signed receipts, src/src/receipts.rs: a file of lines, and *)
(* in memory the next sequence number and the hash of the last receipt.    *)
(*                                                                         *)
(* record_execution appends the receipt and its newline with two writes,   *)
(* syncs, and only then advances what is in memory.  Any of these steps    *)
(* may fail, or be the last before the process dies.  On restart the file  *)
(* is verified from the first line to the last, or the server refuses to   *)
(* start.  The book's lock makes calls of record_execution one at a time.  *)
(*                                                                         *)
(* A hash is the number of the receipt it is the hash of: hashes do not    *)
(* collide, and no line is altered by anybody else.  The signing key is    *)
(* the same after a restart.  A write that returned survives the process.  *)
(* A definition named X_Y is X with the bug Y (see Vault).                 *)
(***************************************************************************)
EXTENDS Integers, Sequences, FiniteSets

CONSTANT MaxReceipts   \* bound on the receipts that are signed

ASSUME ReceiptAssumption == MaxReceipts \in Nat

VARIABLES file,         \* the lines of the file
          terminated,   \* the file is empty or ends with a newline
          running,
          sequence,     \* in memory: the next sequence number
          prevHash,     \* in memory: the hash of the last receipt
          signed,       \* receipts signed so far: the source of hashes
          acked,        \* receipts record_execution returned Ok for (history)
          healthy       \* since the start all appends succeeded, on a file
                        \* that ended with a newline (history)

disk == <<file, terminated>>
memory == <<running, sequence, prevHash>>
receiptVars == <<disk, memory, signed, acked, healthy>>

Genesis == 0
Hashes == Genesis .. MaxReceipts
Receipt == [sequence : 1 .. MaxReceipts + 1, prev : Hashes, hash : Hashes]
Garbage == [sequence |-> 0, prev |-> Genesis, hash |-> Genesis]

ReceiptTypeOK ==
    /\ file \in Seq(Receipt \cup {Garbage})
    /\ terminated \in BOOLEAN
    /\ running \in BOOLEAN
    /\ sequence \in 1 .. MaxReceipts + 1
    /\ prevHash \in Hashes
    /\ signed \in 0 .. MaxReceipts
    /\ acked \subseteq Receipt
    /\ healthy \in BOOLEAN

(***************************************************************************)
(* verify_receipt_chain_file.                                              *)
(***************************************************************************)
HashBefore(f, i) == IF i = 1 THEN Genesis ELSE f[i - 1].hash

Verifies(f) ==
    \A i \in 1 .. Len(f) :
        /\ f[i] # Garbage
        /\ f[i].sequence = i
        /\ f[i].prev = HashBefore(f, i)

NextSequence(f) == Len(f) + 1

LastHash(f) == HashBefore(f, Len(f) + 1)

ReceiptInit ==
    /\ file = <<>>
    /\ terminated = TRUE
    /\ running = TRUE
    /\ sequence = 1
    /\ prevHash = Genesis
    /\ signed = 0
    /\ acked = {}
    /\ healthy = TRUE

(***************************************************************************)
(* record_execution.  What is appended to a line without a newline ruins   *)
(* that line.                                                              *)
(***************************************************************************)
AddLine(line) ==
    file' = IF terminated THEN Append(file, line)
            ELSE [file EXCEPT ![Len(file)] = Garbage]

NextReceipt ==
    [sequence |-> sequence, prev |-> prevHash, hash |-> signed + 1]

\* How far the append gets before it fails or the process dies.
Append_Nothing == UNCHANGED disk
Append_Part == AddLine(Garbage) /\ terminated' = FALSE
Append_Line == AddLine(NextReceipt) /\ terminated' = FALSE
Append_All == AddLine(NextReceipt) /\ terminated' = TRUE

Appended == Append_Nothing \/ Append_Part \/ Append_Line \/ Append_All

Sign ==
    /\ running
    /\ signed < MaxReceipts
    /\ signed' = signed + 1

Advance_HashOnly ==
    /\ prevHash' = NextReceipt.hash
    /\ UNCHANGED sequence

Advance ==
    /\ prevHash' = NextReceipt.hash
    /\ sequence' = sequence + 1

RecordOk ==
    /\ Sign
    /\ Append_All
    /\ Advance
    /\ acked' = acked \cup {NextReceipt}
    /\ UNCHANGED <<running, healthy>>

\* The error is returned, and the server drops it (ToolCall!Logged).
RecordFails_Acknowledged ==
    /\ Sign
    /\ Appended
    /\ Advance
    /\ acked' = acked \cup {NextReceipt}
    /\ healthy' = FALSE
    /\ UNCHANGED running

RecordFails ==
    /\ Sign
    /\ Appended
    /\ healthy' = FALSE
    /\ UNCHANGED <<memory, acked>>

(***************************************************************************)
(* The process dies, in record_execution or elsewhere, and is restarted.   *)
(***************************************************************************)
CrashInRecord ==
    /\ Sign
    /\ Appended
    /\ running' = FALSE
    /\ UNCHANGED <<sequence, prevHash, acked, healthy>>

Crash ==
    /\ running
    /\ running' = FALSE
    /\ UNCHANGED <<disk, sequence, prevHash, signed, acked, healthy>>

\* ReceiptBook::new.
Restart ==
    /\ ~running
    /\ Verifies(file)
    /\ running' = TRUE
    /\ sequence' = NextSequence(file)
    /\ prevHash' = LastHash(file)
    /\ healthy' = terminated
    /\ UNCHANGED <<disk, signed, acked>>

ReceiptNext == RecordOk \/ RecordFails \/ CrashInRecord \/ Crash \/ Restart

ReceiptSpec == ReceiptInit /\ [][ReceiptNext]_receiptVars
-----------------------------------------------------------------------------
(* Properties.                                                             *)

\* A chain that verifies is complete: it holds every receipt whose recording
\* was reported as done, whatever failures and crashes there were.
VerifiedMeansComplete ==
    Verifies(file) => acked \subseteq {file[i] : i \in 1 .. Len(file)}

\* As long as appends succeed the file verifies and memory continues it.
MemoryContinuesFile ==
    running /\ healthy =>
        /\ terminated
        /\ Verifies(file)
        /\ sequence = Len(file) + 1
        /\ prevHash = LastHash(file)

\* No two acknowledged receipts carry the same number.
AckedNumbersDiffer ==
    \A p, q \in acked : p.sequence = q.sequence => p = q

\* Both: numbers run on.
NumbersRunOn == MemoryContinuesFile /\ AckedNumbersDiffer

\* "Eliminated ... receipt partial-write corruption hazards" (CHANGELOG,
\* Fix B): whenever the process has died, the next one can go on.
RestartPossible == ~running => Verifies(file)

=============================================================================
