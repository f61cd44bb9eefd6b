----------------------------- MODULE LogFileWriter -----------------------------
(***************************************************************************)
(* LogFileWriter (reporting.rs): the log of the whole program goes to the    *)
(* file of the test that runs, and is kept in memory while there is none.    *)
(*                                                                         *)
(* What is logged goes through a channel to a worker thread (the non-       *)
(* blocking writer of setup_reporting), which calls write and flush; the     *)
(* main thread calls set_no_out_file and set_out_file.  Each call holds the   *)
(* lock from beginning to end, so that a call is one step here, and the      *)
(* calls of the two threads come in any order.                             *)
(*                                                                         *)
(* The log is cut into what one call of write takes: an entry, numbered in   *)
(* the order they were logged.                                             *)
(***************************************************************************)
EXTENDS Naturals, Sequences

CONSTANTS Files,    \* the log files, one for each test directory
          NoFile    \* no file is set

ASSUME LogFilesAssumption == NoFile \notin Files

VARIABLES emitted,  \* how many entries were logged
          queue,    \* the channel to the worker
          buffer,   \* LogFileWriterInternal::buffer
          file,     \* LogFileWriterInternal::file
          content,  \* what is in each file; entry 0 is of an earlier program
          lost,     \* the entries whose write returned an error
          halfway   \* the files the copying of the buffer to was broken off

logVars == <<emitted, queue, buffer, file, content, lost, halfway>>

Entries == 1 .. emitted

LogTypeOK == /\ emitted \in Nat
             /\ queue \in Seq(Nat) /\ buffer \in Seq(Nat)
             /\ file \in Files \cup {NoFile}
             /\ content \in [Files -> Seq(Nat)]
             /\ lost \subseteq Nat
             /\ halfway \subseteq Files

(* A file of an earlier run of the program is appended to.                 *)
LogInit == /\ emitted = 0
           /\ queue = <<>> /\ buffer = <<>> /\ file = NoFile
           /\ content \in [Files -> {<<>>, <<0>>}]
           /\ lost = {} /\ halfway = {}

--------------------------------------------------------------------------------
(* Anybody logs something.                                                 *)
Logs == /\ emitted' = emitted + 1
        /\ queue' = Append(queue, emitted + 1)
        /\ UNCHANGED <<buffer, file, content, lost, halfway>>

(* write: to the file if there is one, else to the buffer.                  *)
Write ==
    /\ queue # <<>>
    /\ queue' = Tail(queue)
    /\ IF file # NoFile
       THEN /\ content' = [content EXCEPT ![file] = Append(@, Head(queue))]
            /\ UNCHANGED buffer
       ELSE /\ buffer' = Append(buffer, Head(queue))
            /\ UNCHANGED content
    /\ UNCHANGED <<emitted, file, lost, halfway>>

(* The write to the standard output comes first: if it fails, or the one to  *)
(* the file does, the worker is given the error, and nobody writes the entry *)
(* again.                                                                  *)
WriteFails ==
    /\ queue # <<>>
    /\ queue' = Tail(queue)
    /\ lost' = lost \cup {Head(queue)}
    /\ UNCHANGED <<emitted, buffer, file, content, halfway>>

(* flush of LogFileWriterInternal: the buffer goes to the file that is set.  *)
Flushed == [content EXCEPT ![file] = @ \o buffer]

(* The worker flushes when it has emptied the channel.                      *)
Flush ==
    /\ queue = <<>>
    /\ file # NoFile
    /\ content' = Flushed
    /\ buffer' = <<>>
    /\ UNCHANGED <<emitted, queue, file, lost, halfway>>

SetNoOutFile == /\ file' = NoFile
                /\ UNCHANGED <<emitted, queue, buffer, content, lost, halfway>>

(* Mutation: what is in the buffer stays there.                            *)
SetOutFileUnbuffered(f) ==
    /\ f \in Files
    /\ file' = f
    /\ UNCHANGED <<emitted, queue, buffer, content, lost, halfway>>

(* Mutation: the file is opened anew, not to append.                        *)
SetOutFileTruncates(f) ==
    /\ f \in Files
    /\ content' = [(IF file = NoFile THEN content ELSE Flushed) EXCEPT ![f] = buffer]
    /\ buffer' = <<>>
    /\ file' = f
    /\ UNCHANGED <<emitted, queue, lost, halfway>>

(* Mutation: the buffer is copied but not cleared, as io::copy leaves it.    *)
SetOutFileUncleared(f) ==
    /\ f \in Files
    /\ content' = [content EXCEPT ![f] = @ \o buffer]
    /\ file' = f
    /\ UNCHANGED <<emitted, queue, buffer, lost, halfway>>

(* set_out_file flushes, opens the new file, and copies the buffer to it     *)
(* unless the flush has already put it in the file there was.               *)
SetOutFile(f) ==
    /\ f \in Files
    /\ content' = IF file = NoFile THEN [content EXCEPT ![f] = @ \o buffer] ELSE Flushed
    /\ buffer' = <<>>
    /\ file' = f
    /\ UNCHANGED <<emitted, queue, lost, halfway>>

(* The new file cannot be opened: the flush has taken place.               *)
OpenFails ==
    /\ IF file = NoFile THEN UNCHANGED <<content, buffer>>
                        ELSE content' = Flushed /\ buffer' = <<>>
    /\ UNCHANGED <<emitted, queue, file, lost, halfway>>

(* The buffer is copied in part: the copy returns before it is cleared, and  *)
(* before the file is set.                                                 *)
CopyFails(f) ==
    /\ f \in Files
    /\ file = NoFile
    /\ \E n \in 0 .. Len(buffer) :
          content' = [content EXCEPT ![f] = @ \o SubSeq(buffer, 1, n)]
    /\ halfway' = halfway \cup {f}
    /\ UNCHANGED <<emitted, queue, buffer, file, lost>>

(* The directory of the log files is removed, before any of them is set.    *)
OutDirRemoved ==
    /\ file = NoFile
    /\ \A f \in Files : content[f] \in {<<>>, <<0>>}
    /\ content' = [f \in Files |-> <<>>]
    /\ UNCHANGED <<emitted, queue, buffer, file, lost, halfway>>

WorkerStep == Write \/ WriteFails \/ Flush

LogNext == \/ Logs \/ WorkerStep
           \/ SetNoOutFile \/ OpenFails \/ OutDirRemoved
           \/ \E f \in Files : SetOutFile(f) \/ CopyFails(f)

LogSpec == LogInit /\ [][LogNext]_logVars

--------------------------------------------------------------------------------
Has(s, n) == \E k \in 1 .. Len(s) : s[k] = n

Ascending(s) == \A j, k \in 1 .. Len(s) : j < k => s[j] < s[k]

Below(s, t) == \A j \in 1 .. Len(s), k \in 1 .. Len(t) : s[j] < t[k]

(* The doc of LogFileWriter: "If there is no out directory, then output is   *)
(* buffered in memory until there is one."  Nothing that was logged is lost    *)
(* in a change of files: it is yet to be written, in memory, or in a file,    *)
(* unless writing it was an error.                                         *)
NothingLost ==
    \A n \in Entries : \/ Has(queue, n) \/ Has(buffer, n) \/ n \in lost
                       \/ \E f \in Files : Has(content[f], n)

(* However the worker lags behind, a log file holds its entries in the order *)
(* in which they were logged and none twice; and what is yet to come to it    *)
(* from memory or from the channel is later than what is there.  Not so a     *)
(* file the copying of the buffer to was broken off: set_out_file begins      *)
(* again with a buffer that was not cleared.                               *)
FilesInOrder ==
    \A f \in Files \ halfway : /\ Ascending(content[f])
                              /\ Below(content[f], buffer) /\ Below(content[f], queue)

(* No entry is in two files, likewise.                                     *)
InOneFile ==
    \A f, g \in Files \ halfway :
        f # g => \A n \in Entries : ~ (Has(content[f], n) /\ Has(content[g], n))
================================================================================
