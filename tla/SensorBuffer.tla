----------------------------- MODULE SensorBuffer -----------------------------
(***************************************************************************)
(* BufferedImuSensor and BufferedOdometrySensor: a sample of several words *)
(* behind a sequence counter that is odd while a write is under way.  The  *)
(* counter is atomic, the sample is plain memory.                          *)
(*                                                                         *)
(* Plain accesses need not stay where the program has them: the orders the *)
(* code names let a load sink below an acquiring load, and a store rise    *)
(* above a releasing fetch_add.  Both are in the model, within a call.     *)
(***************************************************************************)
EXTENDS Naturals

CONSTANTS
  Writers, Readers,
  Words,      \* the words of a sample
  Samples,    \* what a write can store; a sample has the same value in every word
  SeqSize     \* the values of seq_, 2^32 in the code

ASSUME BufferAssumption ==
  /\ SeqSize \in Nat \ {0} /\ SeqSize % 2 = 0
  /\ Words /= {} /\ Samples /= {}
  /\ Writers \cap Readers = {}

VARIABLES
  seq,       \* seq_
  buffer,    \* sample_
  at,        \* where a thread is in read() or write()
  pending,   \* the words it has still to copy or store
  value,     \* what a writer stores
  copy,      \* a reader's result
  seq0, seq1,
  since      \* history: increments of seq_ since a reader's first load, at most SeqSize

writerVars == <<value>>
readerVars == <<copy, seq0, seq1>>
bufferVars == <<seq, buffer, at, pending, value, copy, seq0, seq1, since>>

Threads == Writers \cup Readers
Counts  == 0..(SeqSize - 1)
Buffers == [Words -> Samples]

WriterPcs == {"idle", "begin", "storing"}
ReaderPcs == {"idle", "copying", "deciding"}

BufferTypeOK ==
  /\ seq \in Counts /\ buffer \in Buffers
  /\ at \in [Threads -> WriterPcs \cup ReaderPcs]
  /\ pending \in [Threads -> SUBSET Words]
  /\ value \in [Writers -> Samples]
  /\ copy \in [Readers -> Buffers]
  /\ seq0 \in [Readers -> Counts] /\ seq1 \in [Readers -> Counts]
  /\ since \in [Readers -> 0..SeqSize]

BufferInit ==
  /\ seq = 0
  /\ \E v \in Samples :
       /\ buffer = [w \in Words |-> v]
       /\ value = [t \in Writers |-> v]
       /\ copy = [t \in Readers |-> [w \in Words |-> v]]
  /\ at = [t \in Threads |-> "idle"]
  /\ pending = [t \in Threads |-> {}]
  /\ seq0 = [t \in Readers |-> 0] /\ seq1 = [t \in Readers |-> 0]
  /\ since = [t \in Readers |-> 0]

Go(t, place) == at' = [at EXCEPT ![t] = place]

-------------------------------------------------------------------------------
(* write                                                                   *)

\* seq_.fetch_add(1), in as many bits as the counter has.
Increment ==
  /\ seq' = IF seq = SeqSize - 1 THEN 0 ELSE seq + 1
  /\ since' = [r \in Readers |-> IF since[r] < SeqSize THEN since[r] + 1 ELSE since[r]]

Write(t) ==
  /\ at[t] = "idle"
  /\ \E v \in Samples : value' = [value EXCEPT ![t] = v]
  /\ pending' = [pending EXCEPT ![t] = Words]
  /\ Go(t, "begin")
  /\ UNCHANGED <<seq, buffer, readerVars, since>>

\* The first increment makes the counter odd.
Open(t) ==
  /\ at[t] = "begin"
  /\ Increment
  /\ Go(t, "storing")
  /\ UNCHANGED <<buffer, pending, writerVars, readerVars>>

\* A store is only kept from sinking below the second increment.
Store(t, w) ==
  /\ at[t] \in {"begin", "storing"}
  /\ w \in pending[t]
  /\ buffer' = [buffer EXCEPT ![w] = value[t]]
  /\ pending' = [pending EXCEPT ![t] = @ \ {w}]
  /\ UNCHANGED <<seq, at, writerVars, readerVars, since>>

\* Seeded bug: a finished write leaves the counter odd.
CloseUncounted(t) ==
  /\ at[t] = "storing" /\ pending[t] = {}
  /\ Go(t, "idle")
  /\ UNCHANGED <<seq, buffer, pending, writerVars, readerVars, since>>

\* The second increment releases the stores.
Close(t) ==
  /\ at[t] = "storing" /\ pending[t] = {}
  /\ Increment
  /\ Go(t, "idle")
  /\ UNCHANGED <<buffer, pending, writerVars, readerVars>>

-------------------------------------------------------------------------------
(* read                                                                    *)

\* The first load, of a new call or of the next round of the loop.
Begin(r) ==
  /\ seq0' = [seq0 EXCEPT ![r] = seq]
  /\ since' = [since EXCEPT ![r] = 0]
  /\ pending' = [pending EXCEPT ![r] = Words]
  /\ Go(r, "copying")
  /\ UNCHANGED <<seq, buffer, writerVars, copy, seq1>>

Read(r) == at[r] = "idle" /\ Begin(r)

\* A load is only kept from rising above the first load of the counter.
Copy(r, w) ==
  /\ at[r] \in {"copying", "deciding"}
  /\ w \in pending[r]
  /\ copy' = [copy EXCEPT ![r][w] = buffer[w]]
  /\ pending' = [pending EXCEPT ![r] = @ \ {w}]
  /\ UNCHANGED <<seq, buffer, at, writerVars, seq0, seq1, since>>

\* The second load.
LoadAgain(r) ==
  /\ at[r] = "copying"
  /\ seq1' = [seq1 EXCEPT ![r] = seq]
  /\ Go(r, "deciding")
  /\ UNCHANGED <<seq, buffer, pending, writerVars, copy, seq0, since>>

Accepts(r) == seq0[r] = seq1[r] /\ seq0[r] % 2 = 0

Retry(r) == at[r] = "deciding" /\ pending[r] = {} /\ ~Accepts(r) /\ Begin(r)

ReturnSample(r) ==
  /\ at[r] = "deciding" /\ pending[r] = {} /\ Accepts(r)
  /\ Go(r, "idle")
  /\ UNCHANGED <<seq, buffer, pending, writerVars, readerVars, since>>

-------------------------------------------------------------------------------
WriterStep(t) == Open(t) \/ (\E w \in Words : Store(t, w)) \/ Close(t)

ReaderStep(r) == (\E w \in Words : Copy(r, w)) \/ LoadAgain(r) \/ Retry(r) \/ ReturnSample(r)

BufferNext ==
  \/ \E t \in Writers : Write(t) \/ WriterStep(t)
  \/ \E r \in Readers : Read(r) \/ ReaderStep(r)

BufferSpec == BufferInit /\ [][BufferNext]_bufferVars

\* A call keeps running; nobody has to call.
BufferFairSpec ==
  /\ BufferSpec
  /\ \A t \in Writers : WF_bufferVars(WriterStep(t))
  /\ \A r \in Readers : WF_bufferVars(ReaderStep(r))

-------------------------------------------------------------------------------
Whole(b) == \A u, w \in Words : b[u] = b[w]

\* "Seqlock read: retry until consistent": what read() returns is one written
\* sample, unless the counter came full circle during the read.  The orders of the
\* plain accesses do not keep it.
NoTornRead ==
  [][\A r \in Readers : ReturnSample(r) /\ since[r] < SeqSize => Whole(copy[r])]_bufferVars

\* A reader retries for as long as writes keep coming, but when they pause every
\* read returns.
ReadsReturn ==
  <>[](\A t \in Writers : at[t] = "idle") => \A r \in Readers : []<>(at[r] = "idle")
===============================================================================
