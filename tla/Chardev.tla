------------------------------- MODULE Chardev -------------------------------
(***************************************************************************)
(* The /dev/oclaw character device of the kernel module: a ring of        *)
(* RING_SIZE message slots shared by every open file, guarded by one      *)
(* spinlock, with a wait queue for blocked readers and one for blocked    *)
(* writers (openclaw_chardev_read / openclaw_chardev_write).              *)
(*                                                                         *)
(* Each writer and reader is a thread whose program counter stops at      *)
(* every point where another thread can run: before taking the spinlock,  *)
(* inside the section it guards, between the two unlocks of the blocking *)
(* full-ring path, in wait_event_interruptible, and after the unlock but  *)
(* before wake_up_interruptible.  A locked section that the code runs     *)
(* without releasing the lock is one step.                                 *)
(*                                                                         *)
(* Data is abstracted: a message is <<writer, sequence number>> and every *)
(* message is MsgLen bytes long; a read asks for 1..MsgLen bytes, so a    *)
(* short read leaves a remainder in the file's read_buf.                   *)
(***************************************************************************)
EXTENDS Naturals, FiniteSets, Sequences

CONSTANTS Writers,     \* threads calling write() on /dev/oclaw
          Readers,     \* threads calling read(), each on its own open file
          NonBlock,    \* the threads whose file has O_NONBLOCK
          RingSize,    \* RING_SIZE
          MaxMsgs,     \* messages each writer writes (bound)
          MsgLen,      \* length of every message in bytes
          MaxSignals,  \* signals that interrupt a wait (bound)
          Closers,     \* the threads that may close their file and reopen it
          BadBuffers,  \* the readers whose copy_to_user may fail (-EFAULT)
          Null         \* an empty slot: data == NULL

ASSUME /\ RingSize >= 2 /\ MsgLen >= 1 /\ NonBlock \subseteq Writers \cup Readers
       /\ Closers \subseteq Writers \cup Readers /\ BadBuffers \subseteq Readers

Procs == Writers \cup Readers
Msgs  == Writers \X (1..MaxMsgs)
Index == 0..(RingSize - 1)

\* fdata->read_buf / read_pos with read_len = MsgLen; data = Null when empty
NoLeft == [data |-> Null, pos |-> 0]

WriterPCs == {"idle", "w_lock", "w_check", "w_unlock2", "w_wait", "w_sleep",
              "w_relock", "w_put", "w_wake"}
ReaderPCs == {"idle", "r_peek", "r_peek_cs", "r_wait", "r_sleep", "r_lock",
              "r_deq", "r_wake", "r_count"}
\* the program points that run with ring_lock held
Critical  == {"w_check", "w_put", "r_peek_cs", "r_deq"}

Results == {"none", "ok", "zero", "eagain", "intr", "efault"}

\* stats.messages_processed cannot exceed the messages written
MaxCount == MaxMsgs * Cardinality(Writers)

VARIABLES ring,      \* ring_buf[i].data
          head,      \* ring_head
          tail,      \* ring_tail
          locked,    \* ring_lock
          pc,        \* where each thread is
          sent,      \* messages each writer has written
          taken,     \* the message a reader has dequeued but not yet copied
          left,      \* each reader's fdata remainder of a partial read
          rq,        \* threads asleep on read_queue
          wq,        \* threads asleep on write_queue
          delivered, \* messages copied to some reader
          result,    \* what each thread's last call returned
          signals,   \* signals delivered so far
          opened,    \* the threads whose file is open (open_count counts them)
          loaded,    \* the value of messages_processed a reader loaded to add 1
          processed  \* stats.messages_processed

fileVars == <<opened, loaded, processed>>
vars == <<ring, head, tail, locked, pc, sent, taken, left, rq, wq,
          delivered, result, signals, fileVars>>

TypeOK ==
    /\ ring \in [Index -> Msgs \cup {Null}]
    /\ head \in Index /\ tail \in Index
    /\ locked \in BOOLEAN
    /\ pc \in [Procs -> WriterPCs \cup ReaderPCs]
    /\ sent \in [Writers -> 0..MaxMsgs]
    /\ taken \in [Readers -> Msgs \cup {Null}]
    /\ left \in [Readers -> [data : Msgs \cup {Null}, pos : 0..MsgLen]]
    /\ rq \subseteq Readers /\ wq \subseteq Writers
    /\ delivered \subseteq Msgs
    /\ result \in [Procs -> Results]
    /\ signals \in 0..MaxSignals
    /\ opened \subseteq Procs
    /\ loaded \in [Readers -> 0..MaxCount] /\ processed \in 0..MaxCount

\* module load: kzalloc'd ring, head = tail = 0, lock and queues initialised;
\* every thread has opened /dev/oclaw, with an empty fdata
Init ==
    /\ ring = [i \in Index |-> Null]
    /\ head = 0 /\ tail = 0
    /\ locked = FALSE
    /\ pc = [p \in Procs |-> "idle"]
    /\ sent = [w \in Writers |-> 0]
    /\ taken = [r \in Readers |-> Null]
    /\ left = [r \in Readers |-> NoLeft]
    /\ rq = {} /\ wq = {}
    /\ delivered = {}
    /\ result = [p \in Procs |-> "none"]
    /\ signals = 0
    /\ opened = Procs
    /\ loaded = [r \in Readers |-> 0] /\ processed = 0

Goto(p, l) == pc' = [pc EXCEPT ![p] = l]
Return(p, r) == /\ pc' = [pc EXCEPT ![p] = "idle"]
                /\ result' = [result EXCEPT ![p] = r]

\* the message writer w is currently writing
CurMsg(w) == <<w, sent[w] + 1>>

\* next = (*head + 1) % RING_SIZE; next == *tail
RingFull_NoCheck == FALSE
RingFull == (head + 1) % RingSize = tail

RingEmpty == head = tail

\* spin_lock_irqsave: spin until the lock is free, then take it
Acquire(p, from, to) == /\ pc[p] = from
                        /\ ~locked
                        /\ locked' = TRUE
                        /\ Goto(p, to)

\* kfree(ring[*head].data); ring[*head].data = data; *head = next; unlock
Store(w) == /\ ring' = [ring EXCEPT ![head] = CurMsg(w)]
            /\ head' = (head + 1) % RingSize
            /\ locked' = FALSE
            /\ Goto(w, "w_wake")

\* wake_up_interruptible(q): every sleeper on q re-evaluates its condition
WakeAll(q, recheck, p, to) ==
    pc' = [x \in Procs |-> IF x \in q THEN recheck
                           ELSE IF x = p THEN to ELSE pc[x]]

-----------------------------------------------------------------------------
(* openclaw_chardev_write *)

\* count > 0, kmalloc and copy_from_user succeed (their failures return
\* before any shared state is touched)
WStart(w) == /\ pc[w] = "idle"
             /\ w \in opened
             /\ sent[w] < MaxMsgs
             /\ Goto(w, "w_lock")
             /\ UNCHANGED <<ring, head, tail, locked, sent, taken, left, rq, wq,
                            delivered, result, signals, fileVars>>

WLock(w) == /\ Acquire(w, "w_lock", "w_check")
            /\ UNCHANGED <<ring, head, tail, sent, taken, left, rq, wq,
                           delivered, result, signals, fileVars>>

\* the locked section: room in the ring, store the message
WEnqueue(w) == /\ pc[w] = "w_check"
               /\ ~RingFull
               /\ Store(w)
               /\ UNCHANGED <<tail, sent, taken, left, rq, wq, delivered,
                              result, signals, fileVars>>

\* ring full, O_NONBLOCK: unlock, kfree(data), -EAGAIN
WFullNonBlock(w) == /\ pc[w] = "w_check"
                    /\ RingFull
                    /\ w \in NonBlock
                    /\ locked' = FALSE
                    /\ Return(w, "eagain")
                    /\ UNCHANGED <<ring, head, tail, sent, taken, left, rq, wq,
                                   delivered, signals, fileVars>>

\* ring full, blocking: the first spin_unlock_irqrestore
WFullBlock(w) == /\ pc[w] = "w_check"
                 /\ RingFull
                 /\ w \notin NonBlock
                 /\ locked' = FALSE
                 /\ Goto(w, "w_unlock2")
                 /\ UNCHANGED <<ring, head, tail, sent, taken, left, rq, wq,
                                delivered, result, signals, fileVars>>

\* the second spin_unlock_irqrestore releases the lock whoever holds it
WUnlock2(w) == /\ pc[w] = "w_unlock2"
               /\ locked' = FALSE
               /\ Goto(w, "w_wait")
               /\ UNCHANGED <<ring, head, tail, sent, taken, left, rq, wq,
                              delivered, result, signals, fileVars>>

\* wait_event_interruptible(*wq, ((*head + 1) % RING_SIZE) != *tail)
WWait(w) == /\ pc[w] = "w_wait"
            /\ IF ~RingFull
                  THEN Goto(w, "w_relock") /\ UNCHANGED wq
                  ELSE Goto(w, "w_sleep") /\ wq' = wq \cup {w}
            /\ UNCHANGED <<ring, head, tail, locked, sent, taken, left, rq,
                           delivered, result, signals, fileVars>>

\* a signal ends the wait: kfree(data), -ERESTARTSYS
WInterrupt(w) == /\ pc[w] \in {"w_wait", "w_sleep"}
                 /\ signals < MaxSignals
                 /\ signals' = signals + 1
                 /\ wq' = wq \ {w}
                 /\ Return(w, "intr")
                 /\ UNCHANGED <<ring, head, tail, locked, sent, taken, left, rq,
                                delivered, fileVars>>

WRelock(w) == /\ Acquire(w, "w_relock", "w_put")
              /\ UNCHANGED <<ring, head, tail, sent, taken, left, rq, wq,
                             delivered, result, signals, fileVars>>

\* next is recomputed under the lock and the message stored, full or not
WPut(w) == /\ pc[w] = "w_put"
           /\ Store(w)
           /\ UNCHANGED <<tail, sent, taken, left, rq, wq, delivered,
                          result, signals, fileVars>>

\* wake_up_interruptible(read_queue); return count
WWake_NoWake(w) == /\ pc[w] = "w_wake"
                   /\ Return(w, "ok")
                   /\ sent' = [sent EXCEPT ![w] = @ + 1]
                   /\ UNCHANGED <<ring, head, tail, locked, taken, left, rq, wq,
                                  delivered, signals, fileVars>>
WWake(w) == /\ pc[w] = "w_wake"
            /\ WakeAll(rq, "r_wait", w, "idle")
            /\ rq' = {}
            /\ result' = [result EXCEPT ![w] = "ok"]
            /\ sent' = [sent EXCEPT ![w] = @ + 1]
            /\ UNCHANGED <<ring, head, tail, locked, taken, left, wq,
                           delivered, signals, fileVars>>

-----------------------------------------------------------------------------
(* openclaw_chardev_read *)

\* a remainder from an earlier partial read is served first, without the lock
\* (copy_to_user failing returns -EFAULT and keeps the remainder)
RLeftover(r) ==
    /\ pc[r] = "idle"
    /\ r \in opened
    /\ left[r].data # Null
    /\ \/ /\ \E count \in 1..MsgLen :
             LET pos == left[r].pos + count
             IN  left' = [left EXCEPT ![r] = IF pos >= MsgLen THEN NoLeft
                                             ELSE [@ EXCEPT !.pos = pos]]
          /\ result' = [result EXCEPT ![r] = "ok"]
       \/ /\ r \in BadBuffers
          /\ result' = [result EXCEPT ![r] = "efault"]
          /\ UNCHANGED left
    /\ UNCHANGED <<ring, head, tail, locked, pc, sent, taken, rq, wq,
                   delivered, signals, fileVars>>

\* no remainder: O_NONBLOCK peeks under the lock, otherwise wait for data
RStart(r) == /\ pc[r] = "idle"
             /\ r \in opened
             /\ left[r].data = Null
             /\ Goto(r, IF r \in NonBlock THEN "r_peek" ELSE "r_wait")
             /\ UNCHANGED <<ring, head, tail, locked, sent, taken, left, rq, wq,
                            delivered, result, signals, fileVars>>

RPeekLock(r) == /\ Acquire(r, "r_peek", "r_peek_cs")
                /\ UNCHANGED <<ring, head, tail, sent, taken, left, rq, wq,
                               delivered, result, signals, fileVars>>

\* empty: unlock, -EAGAIN; otherwise unlock and go on to the dequeue
RPeek_NoRelock(r) ==
    /\ pc[r] = "r_peek_cs"
    /\ locked' = FALSE
    /\ IF RingEmpty THEN Return(r, "eagain")
                    ELSE Goto(r, "r_deq") /\ UNCHANGED result
    /\ UNCHANGED <<ring, head, tail, sent, taken, left, rq, wq, delivered,
                   signals, fileVars>>
RPeek(r) == /\ pc[r] = "r_peek_cs"
            /\ locked' = FALSE
            /\ IF RingEmpty THEN Return(r, "eagain")
                            ELSE Goto(r, "r_lock") /\ UNCHANGED result
            /\ UNCHANGED <<ring, head, tail, sent, taken, left, rq, wq,
                           delivered, signals, fileVars>>

\* wait_event_interruptible(*rq, *head != *tail)
RWait(r) == /\ pc[r] = "r_wait"
            /\ IF ~RingEmpty
                  THEN Goto(r, "r_lock") /\ UNCHANGED rq
                  ELSE Goto(r, "r_sleep") /\ rq' = rq \cup {r}
            /\ UNCHANGED <<ring, head, tail, locked, sent, taken, left, wq,
                           delivered, result, signals, fileVars>>

\* a signal ends the wait with -ERESTARTSYS
RInterrupt(r) == /\ pc[r] \in {"r_wait", "r_sleep"}
                 /\ signals < MaxSignals
                 /\ signals' = signals + 1
                 /\ rq' = rq \ {r}
                 /\ Return(r, "intr")
                 /\ UNCHANGED <<ring, head, tail, locked, sent, taken, left, wq,
                                delivered, fileVars>>

RLock(r) == /\ Acquire(r, "r_lock", "r_deq")
            /\ UNCHANGED <<ring, head, tail, sent, taken, left, rq, wq,
                           delivered, result, signals, fileVars>>

\* the locked dequeue: empty returns 0, otherwise take ring[*tail]
RDequeue_NoWrap(r) ==
    /\ pc[r] = "r_deq"
    /\ locked' = FALSE
    /\ IF RingEmpty
          THEN Return(r, "zero") /\ UNCHANGED <<ring, tail, taken>>
          ELSE /\ taken' = [taken EXCEPT ![r] = ring[tail]]
               /\ ring' = [ring EXCEPT ![tail] = Null]
               /\ tail' = tail + 1
               /\ Goto(r, "r_wake") /\ UNCHANGED result
    /\ UNCHANGED <<head, sent, left, rq, wq, delivered, signals, fileVars>>
RDequeue(r) ==
    /\ pc[r] = "r_deq"
    /\ locked' = FALSE
    /\ IF RingEmpty
          THEN Return(r, "zero") /\ UNCHANGED <<ring, tail, taken>>
          ELSE /\ taken' = [taken EXCEPT ![r] = ring[tail]]
               /\ ring' = [ring EXCEPT ![tail] = Null]
               /\ tail' = (tail + 1) % RingSize
               /\ Goto(r, "r_wake") /\ UNCHANGED result
    /\ UNCHANGED <<head, sent, left, rq, wq, delivered, signals, fileVars>>

\* copy_to_user(min(count, len)) succeeds: what did not fit is kept as the
\* file's remainder, and st->messages_processed is loaded to be incremented
CopyOut(r) ==
    /\ \E count \in 1..MsgLen :
         left' = [left EXCEPT ![r] = IF count < MsgLen
                                      THEN [data |-> taken[r], pos |-> count]
                                      ELSE NoLeft]
    /\ delivered' = delivered \cup {taken[r]}
    /\ loaded' = [loaded EXCEPT ![r] = processed]

\* wake_up_interruptible(write_queue), then the copy; if copy_to_user fails
\* the message is kfree'd and the read returns -EFAULT
RWake_NoWake(r) ==
    /\ pc[r] = "r_wake"
    /\ taken' = [taken EXCEPT ![r] = Null]
    /\ \/ CopyOut(r) /\ Goto(r, "r_count") /\ UNCHANGED result
       \/ /\ r \in BadBuffers
          /\ Return(r, "efault")
          /\ UNCHANGED <<left, delivered, loaded>>
    /\ UNCHANGED <<ring, head, tail, locked, sent, rq, wq, signals, opened,
                   processed>>
RWake(r) ==
    /\ pc[r] = "r_wake"
    /\ wq' = {}
    /\ taken' = [taken EXCEPT ![r] = Null]
    /\ \/ CopyOut(r) /\ WakeAll(wq, "w_wait", r, "r_count") /\ UNCHANGED result
       \/ /\ r \in BadBuffers
          /\ WakeAll(wq, "w_wait", r, "idle")
          /\ result' = [result EXCEPT ![r] = "efault"]
          /\ UNCHANGED <<left, delivered, loaded>>
    /\ UNCHANGED <<ring, head, tail, locked, sent, rq, signals, opened,
                   processed>>

\* st->messages_processed++ outside ring_lock: the store of the loaded
\* value plus one, a plain read-modify-write that another reader's can
\* interleave with; return to_copy
RCount(r) == /\ pc[r] = "r_count"
             /\ processed' = loaded[r] + 1
             /\ Return(r, "ok")
             /\ UNCHANGED <<ring, head, tail, locked, sent, taken, left, rq, wq,
                            delivered, signals, opened, loaded>>

-----------------------------------------------------------------------------
(* openclaw_chardev_open / openclaw_chardev_release *)

\* kzalloc a zeroed fdata and atomic_inc(open_count) (a failed kzalloc
\* returns -ENOMEM having changed nothing)
Open(p) == /\ p \in Closers \ opened
           /\ opened' = opened \cup {p}
           /\ left' = [r \in Readers |-> IF r = p THEN NoLeft ELSE left[r]]
           /\ UNCHANGED <<ring, head, tail, locked, pc, sent, taken, rq, wq,
                          delivered, result, signals, loaded, processed>>

\* the last close of an idle file: kfree(read_buf) drops the remainder of a
\* partly read message, kfree(fdata), atomic_dec(open_count)
Release(p) == /\ p \in Closers \cap opened
              /\ pc[p] = "idle"
              /\ opened' = opened \ {p}
              /\ left' = [r \in Readers |-> IF r = p THEN NoLeft ELSE left[r]]
              /\ UNCHANGED <<ring, head, tail, locked, pc, sent, taken, rq, wq,
                             delivered, result, signals, loaded, processed>>

-----------------------------------------------------------------------------

\* the steps a thread takes on its own once it is inside a call
WriterStep(w) == WLock(w) \/ WEnqueue(w) \/ WFullNonBlock(w) \/ WFullBlock(w)
                 \/ WUnlock2(w) \/ WWait(w) \/ WRelock(w) \/ WPut(w) \/ WWake(w)
ReaderStep(r) == RLeftover(r) \/ RStart(r) \/ RPeekLock(r) \/ RPeek(r)
                 \/ RWait(r) \/ RLock(r) \/ RDequeue(r) \/ RWake(r) \/ RCount(r)

Next == \/ \E w \in Writers : WStart(w) \/ WriterStep(w) \/ WInterrupt(w)
        \/ \E r \in Readers : ReaderStep(r) \/ RInterrupt(r)
        \/ \E p \in Procs : Open(p) \/ Release(p)

\* A runnable thread is scheduled, ring_lock is a fair (queued) spinlock so
\* a thread spinning on it gets it, and the readers are a daemon that
\* keeps calling read().  Writers may stop writing; signals are not forced.
Fairness == /\ \A w \in Writers : SF_vars(WriterStep(w))
            /\ \A r \in Readers : SF_vars(ReaderStep(r))

Spec == Init /\ [][Next]_vars /\ Fairness

-----------------------------------------------------------------------------
(* Properties *)

\* the messages in the ring, oldest first
RingContents == [i \in 1..((head - tail + RingSize) % RingSize) |->
                    ring[(tail + i - 1) % RingSize]]

InRing(m) == \E i \in DOMAIN RingContents : RingContents[i] = m

\* ring_lock excludes: at most one thread is ever inside a section that
\* the code runs with the lock held.
MutualExclusion == Cardinality({p \in Procs : pc[p] \in Critical}) <= 1

\* The ring is the bounded FIFO of MessageQueue: every write that returns
\* success appends its message at the back and every dequeue takes the
\* front, so no message is overwritten, dropped or reordered in the ring.
\* the messages a write has stored (the one between the store and the return
\* of its write included) that are no longer in the ring: each was taken by
\* a read, whether its copy to user space then succeeded or not
Stored(m) == \/ m[2] <= sent[m[1]]
             \/ m[2] = sent[m[1]] + 1 /\ pc[m[1]] = "w_wake"
Dequeued == {m \in Msgs : Stored(m) /\ ~InRing(m)}
Queue == INSTANCE MessageQueue WITH queue <- RingContents,
                                    removed <- Dequeued,
                                    Capacity <- RingSize - 1
FifoRefinement == Queue!Spec

\* Every message that reaches the ring is eventually taken by a reader
\* (and copied to it, or dropped if its copy_to_user fails): a writer that
\* stores a message wakes the readers asleep on read_queue.
MessageDelivered == \A m \in Msgs : InRing(m) ~> m \in Dequeued

\* stats.messages_processed, which /proc/openclaw and the desktop's monitor
\* show, counts the messages copied to readers: whenever no reader is
\* between loading the counter and storing it back, it equals the number of
\* messages whose copy_to_user succeeded.
StatsCountCopies ==
    (\A r \in Readers : pc[r] # "r_count") => processed = Cardinality(delivered)

\* A writer asleep on a full ring is eventually woken: a reader that frees
\* a slot wakes write_queue.
WriterWoken == \A w \in Writers : w \in wq ~> w \notin wq

=============================================================================
