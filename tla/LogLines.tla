------------------------------- MODULE LogLines -------------------------------
(***************************************************************************)
(* The way of a container's output to the reader's screen: the agent's      *)
(* batcher with its bounded queue, the numbered chunks of the connection,   *)
(* and the two bounded buffers of the logs tab.                             *)
(*                                                                          *)
(* The lines are the numbers 1, 2, ... in the order the agent read them:    *)
(* standard output and standard error are two streams of the container.     *)
(***************************************************************************)
EXTENDS Naturals, Sequences

CONSTANTS
  Output,         \* how many lines the container writes
  MaxBatchLines, QueueDepth, \* of the agent's batcher
  MaxShown,       \* MAX_LINES of the tab
  MaxPaused       \* MAX_PAUSED of the tab

ASSUME LogLinesAssumption ==
  {Output, MaxBatchLines, QueueDepth, MaxShown, MaxPaused} \subseteq Nat \ {0}

VARIABLES
  written,  \* lines the agent has read
  batcher,  \* [lines, dropped], and whether the reader has finished
  queue,    \* the batches the consumer has not taken
  chunks,   \* [seq, lines, dropped] on the connection
  seqOut, seqIn, \* the agent's next number, the one the server expects
  buffer, held, paused, discarded, lost, \* the tab
  cleared   \* what the reader has cleared away: lines and counts

lineVars == <<written, batcher, queue, chunks, seqOut, seqIn, buffer, held, paused, discarded,
              lost, cleared>>
tabVars == <<buffer, held, paused, discarded, lost, cleared>>

Lines == 1 .. Output

LogLinesTypeOK ==
  /\ written \in 0 .. Output
  /\ Len(batcher.lines) < MaxBatchLines /\ batcher.dropped \in 0 .. Output
  /\ Len(queue) <= QueueDepth
  /\ seqOut = seqIn + Len(chunks)
  /\ Len(buffer) <= MaxShown /\ Len(held) <= MaxPaused
  /\ paused \in BOOLEAN
  /\ {discarded, lost, cleared} \subseteq 0 .. Output

LogLinesInit ==
  /\ written = 0
  /\ batcher = [lines |-> <<>>, dropped |-> 0, over |-> FALSE]
  /\ queue = <<>> /\ chunks = <<>>
  /\ seqOut = 0 /\ seqIn = 0
  /\ buffer = <<>> /\ held = <<>> /\ paused = FALSE
  /\ discarded = 0 /\ lost = 0 /\ cleared = 0

-----------------------------------------------------------------------------
(* batcher.flush of the lines ls: they go into the queue with the count of    *)
(* what was dropped before, or are dropped and counted.                       *)
flush(ls, over) ==
  IF ls = <<>> /\ batcher.dropped = 0
  THEN /\ batcher' = [batcher EXCEPT !.over = over]
       /\ UNCHANGED queue
  ELSE IF Len(queue) < QueueDepth
  THEN /\ queue' = Append(queue, [lines |-> ls, dropped |-> batcher.dropped])
       /\ batcher' = [lines |-> <<>>, dropped |-> 0, over |-> over]
  ELSE /\ batcher' = [lines |-> <<>>, dropped |-> batcher.dropped + Len(ls), over |-> over]
       /\ UNCHANGED queue

(* batcher.add, for the next line read. *)
add ==
  /\ written < Output /\ ~batcher.over
  /\ written' = written + 1
  /\ LET ls == Append(batcher.lines, written + 1)
     IN IF Len(ls) >= MaxBatchLines THEN flush(ls, FALSE)
        ELSE batcher' = [batcher EXCEPT !.lines = ls] /\ UNCHANGED queue
  /\ UNCHANGED <<chunks, seqOut, seqIn, tabVars>>

(* readLogs between reads, and when the reader is through. *)
readLogs(over) ==
  /\ ~batcher.over
  /\ flush(batcher.lines, over)
  /\ UNCHANGED <<written, chunks, seqOut, seqIn, tabVars>>

(* streamLogs and the emit of handleStream: the next chunk, numbered. *)
emit ==
  /\ queue # <<>>
  /\ chunks' = Append(chunks, [seq |-> seqOut, lines |-> Head(queue).lines,
                               dropped |-> Head(queue).dropped])
  /\ seqOut' = seqOut + 1
  /\ queue' = Tail(queue)
  /\ UNCHANGED <<written, batcher, seqIn, tabVars>>

-----------------------------------------------------------------------------
(* push: the window keeps the last lines, and what falls out is counted. *)
Surplus(s, max) == IF Len(s) > max THEN Len(s) - max ELSE 0
Latest(s, max) == SubSeq(s, Surplus(s, max) + 1, Len(s))

(* Mutant: what falls out is not counted. *)
pushOut(ls) == buffer' = Latest(buffer \o ls, MaxShown) /\ UNCHANGED discarded

push(ls) ==
  /\ buffer' = Latest(buffer \o ls, MaxShown)
  /\ discarded' = discarded + Surplus(buffer \o ls, MaxShown)

(* append: into the held lines while paused, else into the window. *)
append(ls) ==
  IF paused
  THEN /\ held' = Latest(held \o ls, MaxPaused)
       /\ discarded' = discarded + Surplus(held \o ls, MaxPaused)
       /\ UNCHANGED buffer
  ELSE push(ls) /\ UNCHANGED held

(* The tab's accept: the count of the lines the agent dropped, then the lines. *)
accept(chunk) == lost' = lost + chunk.dropped /\ append(chunk.lines)

(* acceptStreamChunk: the next number, and on to the observer. *)
acceptStreamChunk ==
  /\ chunks # <<>> /\ Head(chunks).seq = seqIn
  /\ seqIn' = seqIn + 1
  /\ chunks' = Tail(chunks)
  /\ accept(Head(chunks))
  /\ UNCHANGED <<written, batcher, queue, seqOut, paused, cleared>>

(* togglePause and release. *)
togglePause ==
  /\ paused' = ~paused
  /\ IF paused THEN push(held) /\ held' = <<>>
     ELSE UNCHANGED <<buffer, held, discarded>>
  /\ UNCHANGED <<written, batcher, queue, chunks, seqOut, seqIn, lost, cleared>>

clear ==
  /\ cleared' = cleared + Len(buffer) + Len(held) + discarded + lost
  /\ buffer' = <<>> /\ held' = <<>> /\ discarded' = 0 /\ lost' = 0
  /\ UNCHANGED <<written, batcher, queue, chunks, seqOut, seqIn, paused>>

LogLinesNext ==
  \/ add \/ emit \/ acceptStreamChunk \/ togglePause \/ clear
  \/ \E over \in BOOLEAN : readLogs(over)

LogLinesSpec == LogLinesInit /\ [][LogLinesNext]_lineVars

-----------------------------------------------------------------------------
(* What a batch stands for: the lines it carries and those it counts. *)
Size(b) == Len(b.lines) + b.dropped

InBatches(bs) ==
  LET upTo[i \in 0 .. Len(bs)] == IF i = 0 THEN 0 ELSE upTo[i - 1] + Size(bs[i])
  IN upTo[Len(bs)]

(* No line is lost in silence: what the agent read is on the screen, set      *)
(* aside by a pause, cleared by the reader, under way, or in one of the two   *)
(* counts the reader is shown - or waits as a count for the next batch        *)
(* (batcher.flush, append, push, release).                                    *)
EveryLineAccounted ==
  written = Len(batcher.lines) + batcher.dropped + InBatches(queue) + InBatches(chunks)
            + Len(buffer) + Len(held) + discarded + lost + cleared

(* Where lines are, from the screen back to the agent. *)
LinesOf(bs) == [i \in DOMAIN bs |-> bs[i].lines]
way == <<buffer, held>> \o LinesOf(chunks) \o LinesOf(queue) \o <<batcher.lines>>

(* The reader sees the lines in the order the agent read, none twice,          *)
(* through pauses, discards and gaps, and nothing older is still to come      *)
(* (push, append, release, and the chunk numbers).                            *)
ShownInOrder ==
  LET w == way
  IN \A i, j \in DOMAIN w : \A m \in DOMAIN w[i], n \in DOMAIN w[j] :
       i < j \/ (i = j /\ m < n) => w[i][m] < w[j][n]

(* What was read reaches the reader in order, or is counted.                  *)
LinesReachTheReader == EveryLineAccounted /\ ShownInOrder
=============================================================================
