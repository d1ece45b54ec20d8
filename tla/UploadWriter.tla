----------------------------- MODULE UploadWriter -----------------------------
(***************************************************************************)
(* The writer that uploads results to the cloud (internal/pdcp).  Results  *)
(* are lines that go through a pipe, whose reader is a goroutine, through a *)
(* channel and into the buffer of the loop of autoCommit.  The loop uploads *)
(* the buffer every minute, when the next line would make it too large, and *)
(* when the writer is closed.  Lines are numbered as they are written.     *)
(***************************************************************************)
EXTENDS Naturals, Sequences, FiniteSets
LOCAL INSTANCE FiniteSetsExt

CONSTANTS LineSizes,     \* size of every line
          MaxChunkSize,  \* what an upload may hold
          ChannelSize,   \* lines the channel holds, 4 in the code
          PipeLines,     \* lines the reader of the pipe holds
          MaxUnheard     \* bound: uploads the server takes without an answer

Lines == 1..Len(LineSizes)

ASSUME UploadAssumption ==
    /\ LineSizes \in Seq(Nat) /\ MaxChunkSize \in Nat
    /\ ChannelSize \in Nat /\ PipeLines \in Nat /\ MaxUnheard \in Nat

VARIABLES piped,      \* lines the reader of the pipe has in hand
          channel,    \* lines in the channel
          buff,       \* lines in the buffer
          commit,     \* where autoCommit is: in its loop or done
          cancelled,  \* Close has cancelled the context
          pipeClosed, \* Close has closed the pipe
          scanID,     \* a scan ID is known
          \* history
          written,    \* number of lines the pipe has taken
          uploaded,   \* lines of uploads that succeeded
          dropped,    \* lines that did not fit
          server,     \* line -> times the server has taken it
          scans,      \* scans the server has begun
          unheard,    \* uploads it took without an answer
          flushed     \* the last upload succeeded

uploadVars == <<piped, channel, buff, commit, cancelled, pipeClosed, scanID, written,
                uploaded, dropped, server, scans, unheard, flushed>>
queueVars == <<piped, channel>>
uploadHistory == <<uploaded, server, scans, unheard, flushed>>

UploadInit ==
    /\ piped = <<>> /\ channel = <<>> /\ buff = <<>>
    /\ commit = "loop" /\ cancelled = FALSE /\ pipeClosed = FALSE
    /\ scanID \in BOOLEAN
    /\ written = 0 /\ uploaded = <<>> /\ dropped = {}
    /\ server = [l \in Lines |-> 0]
    /\ scans = 0 /\ unheard = 0 /\ flushed = TRUE

SizeOf(lines) == MapThenSumSet(LAMBDA i : LineSizes[lines[i]], DOMAIN lines)

\* Write of the next line: the pipe takes it as soon as its reader has room.
WriteLine ==
    /\ ~pipeClosed /\ written < Len(LineSizes) /\ Len(piped) < PipeLines
    /\ written' = written + 1
    /\ piped' = Append(piped, written + 1)
    /\ UNCHANGED <<channel, buff, commit, cancelled, pipeClosed, scanID, dropped,
                   uploadHistory>>

\* The goroutine that reads the pipe.  It closes the channel only after the
\* pipe was closed, and then autoCommit is done.
ReadLine ==
    /\ piped # <<>> /\ Len(channel) < ChannelSize
    /\ channel' = Append(channel, Head(piped))
    /\ piped' = Tail(piped)
    /\ UNCHANGED <<buff, commit, cancelled, pipeClosed, scanID, written, dropped,
                   uploadHistory>>

-----------------------------------------------------------------------------
\* The server takes the lines, into a new scan if it is not told of one.
Delivered ==
    /\ server' = [l \in Lines |-> server[l] + Cardinality({i \in DOMAIN buff : buff[i] = l})]
    /\ scans' = scans + (IF scanID THEN 0 ELSE 1)

UploadSucceeds ==
    /\ Delivered
    /\ scanID' = TRUE
    /\ uploaded' = uploaded \o buff
    /\ buff' = <<>>
    /\ flushed' = TRUE
    /\ UNCHANGED unheard

\* The server does not get the request, or refuses it.
UploadFails ==
    /\ flushed' = FALSE
    /\ UNCHANGED <<buff, scanID, uploaded, server, scans, unheard>>

\* The server gets it, and its answer is lost or not understood.
UploadUnheard ==
    /\ unheard < MaxUnheard
    /\ Delivered
    /\ unheard' = unheard + 1
    /\ flushed' = FALSE
    /\ UNCHANGED <<buff, scanID, uploaded>>

\* Mutant: the buffer is reset whatever came of the upload.
UploadAndReset ==
    /\ \/ Delivered /\ scanID' = TRUE /\ uploaded' = uploaded \o buff /\ flushed' = TRUE
       \/ flushed' = FALSE /\ UNCHANGED <<scanID, uploaded, server, scans>>
    /\ buff' = <<>>
    /\ UNCHANGED unheard

\* uploadChunk
UploadChunk == UploadSucceeds \/ UploadFails \/ UploadUnheard

-----------------------------------------------------------------------------
(* The loop of autoCommit *)

\* The ticker, with something in the buffer.
Flush ==
    /\ commit = "loop" /\ buff # <<>>
    /\ UploadChunk
    /\ UNCHANGED <<queueVars, commit, cancelled, pipeClosed, written, dropped>>

\* A line that fits.
TakeLine ==
    /\ commit = "loop" /\ channel # <<>>
    /\ SizeOf(buff) + LineSizes[Head(channel)] <= MaxChunkSize
    /\ buff' = Append(buff, Head(channel))
    /\ channel' = Tail(channel)
    /\ UNCHANGED <<piped, commit, cancelled, pipeClosed, scanID, written, dropped,
                   uploadHistory>>

\* One that does not: the buffer is uploaded, and the line is gone.
DropLine ==
    /\ commit = "loop" /\ channel # <<>>
    /\ SizeOf(buff) + LineSizes[Head(channel)] > MaxChunkSize
    /\ UploadChunk
    /\ dropped' = dropped \cup {Head(channel)}
    /\ channel' = Tail(channel)
    /\ UNCHANGED <<piped, commit, cancelled, pipeClosed, written>>

\* The context is done: select may see that before what is in the channel.
Finish ==
    /\ commit = "loop" /\ cancelled
    /\ commit' = "done"
    /\ IF buff # <<>> THEN UploadChunk ELSE UNCHANGED <<buff, scanID, uploadHistory>>
    /\ UNCHANGED <<queueVars, cancelled, pipeClosed, written, dropped>>

\* Close cancels the context, waits for autoCommit and closes the pipe.
CancelCommit ==
    /\ ~cancelled
    /\ cancelled' = TRUE
    /\ UNCHANGED <<queueVars, buff, commit, pipeClosed, scanID, written, dropped,
                   uploadHistory>>

ClosePipe ==
    /\ cancelled /\ commit = "done" /\ ~pipeClosed
    /\ pipeClosed' = TRUE
    /\ UNCHANGED <<queueVars, buff, commit, cancelled, scanID, written, dropped,
                   uploadHistory>>

UploadNext ==
    \/ WriteLine \/ ReadLine
    \/ Flush \/ TakeLine \/ DropLine \/ Finish
    \/ CancelCommit \/ ClosePipe

UploadSpec == UploadInit /\ [][UploadNext]_uploadVars

-----------------------------------------------------------------------------
\* Lines on their way, the oldest first.
Underway == uploaded \o buff \o channel \o piped

InOrder(lines) == \A i, j \in DOMAIN lines : i < j => lines[i] < lines[j]
LinesOf(lines) == {lines[i] : i \in DOMAIN lines}

\* No result goes astray on its way through three goroutines and uploads that
\* fail: every line that was written was uploaded or is on its way, in the
\* order in which lines were written, but for those that were dropped because
\* the buffer was full.  What was uploaded is on the server; there is more of
\* it there, in lines or in scans, only by uploads whose answer was not
\* heard.  And the writer ends with something in the buffer only when the
\* last upload failed.
UploadAccounted ==
    /\ InOrder(Underway)
    /\ LinesOf(Underway) = (1..written) \ dropped
    /\ \A l \in LinesOf(uploaded) : server[l] >= 1
    /\ \A l \in Lines : server[l] <= 1 + unheard
    /\ scans <= 1 + unheard
    /\ commit = "done" /\ flushed => buff = <<>>

\* The same with what an upload relies on: only what was uploaded, and only a
\* scan whose ID is known, is on the server without an unheard upload.
UploadTypeOK ==
    /\ uploaded \in Seq(Nat) /\ buff \in Seq(Nat) /\ channel \in Seq(Nat) /\ piped \in Seq(Nat)
    /\ written \in Nat /\ written <= Len(LineSizes) /\ dropped \subseteq 1..written
    /\ server \in [Lines -> Nat] /\ scans \in Nat /\ unheard \in Nat
    /\ scanID \in BOOLEAN

OnServer ==
    /\ \A l \in LinesOf(uploaded) : server[l] >= 1
    /\ \A l \in Lines : server[l] <= unheard + (IF l \in LinesOf(uploaded) THEN 1 ELSE 0)
    /\ scans <= unheard + (IF scanID THEN 1 ELSE 0)

UploadInv ==
    /\ UploadTypeOK
    /\ InOrder(Underway) /\ LinesOf(Underway) = (1..written) \ dropped
    /\ OnServer
    /\ commit = "done" /\ flushed => buff = <<>>

\* "upload every 1 minute or when buffer is full" (internal/pdcp/writer.go:94):
\* a full buffer is a reason to upload, not to lose the line that came.  While
\* autoCommit runs, every line that was written is uploaded or on its way.
EveryLineGoesUp == 1..written \subseteq LinesOf(Underway)
=============================================================================
