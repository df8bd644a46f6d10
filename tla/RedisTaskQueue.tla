--------------------------- MODULE RedisTaskQueue ----------------------------
(***************************************************************************)
(* The Redis Streams adapter of the matching service                       *)
(* (infrastructure/redis_task_queue.py): a stream read through a consumer  *)
(* group, a sorted set of scheduled retries and a dead-letter hash.        *)
(*                                                                         *)
(* Each action is one Redis command or one MULTI block, so that a crash, a *)
(* socket error or another consumer may come between any two of them:      *)
(*   consume      ZRANGEBYSCORE, MULTI ZREM XADD for each due member, then  *)
(*                XAUTOCLAIM or XREADGROUP, then HSETNX HINCRBY             *)
(*   acknowledge  XACK, XDEL              retry        ZADD, XACK, XDEL      *)
(*   dead_letter  HSETNX, XACK, XDEL                                        *)
(* Due times and idle times are abstracted to the moment they pass.        *)
(***************************************************************************)
EXTENDS Naturals, FiniteSets

CONSTANTS
  Messages,   \* what a stream entry carries: the identity of a task
  Consumers,  \* the worker ids that read through the group
  Entries,    \* stream entries that may exist at once (bound)
  MaxCount,   \* delivery counts are told apart up to this value (bound)
  NoEntry, NoMessage

VARIABLES
  stream,      \* the stream with the group's pending-entries list
  retries,     \* members of the retry sorted set
  deadLetters, \* messages with a field of their own in the dead-letter hash
  poisoned,    \* messages whose entry was dead-lettered as unreadable
  consumer     \* per consumer, where it is inside the adapter

queueVars == <<stream, retries, deadLetters, poisoned, consumer>>

\* "acked" is an entry that left the pending list but was not deleted yet.
Entry ==
  [state  : {"free", "unread", "pending", "acked"},
   msg    : Messages \cup {NoMessage},
   count  : 0 .. MaxCount,
   idle   : BOOLEAN]

\* A retry member is its JSON payload: the message and its delivery count.
RetryMember == [msg : Messages, count : 0 .. MaxCount]

Consumer ==
  [pc    : {"idle", "promoting", "fetching", "counting", "poisoning", "holding",
           "xack", "xdel"},
   entry : Entries \cup {NoEntry},
   msg   : Messages \cup {NoMessage},
   count : 0 .. MaxCount,
   due   : SUBSET RetryMember]

QueueTypeOK ==
  /\ stream \in [Entries -> Entry]
  /\ retries \subseteq RetryMember
  /\ deadLetters \subseteq Messages
  /\ poisoned \subseteq Messages
  /\ consumer \in [Consumers -> Consumer]

FreeEntry == [state |-> "free", msg |-> NoMessage, count |-> 0, idle |-> FALSE]

Resting == [pc |-> "idle", entry |-> NoEntry, msg |-> NoMessage, count |-> 0, due |-> {}]

QueueInit ==
  /\ stream = [e \in Entries |-> FreeEntry]
  /\ retries = {}
  /\ deadLetters = {}
  /\ poisoned = {}
  /\ consumer = [c \in Consumers |-> Resting]

------------------------------------------------------------------------------
\* Entries that carry something: undelivered, or delivered and not settled.
Live(e) == stream[e].state \in {"unread", "pending"}

\* An id is used again only when no consumer still holds the old receipt; an
\* entry that was acknowledged but never deleted may be forgotten.
Available ==
  {e \in Entries : stream[e].state \in {"free", "acked"}
                   /\ \A c \in Consumers : consumer[c].entry # e}

\* XADD
Added(e, m, n) ==
  [stream EXCEPT ![e] = [FreeEntry EXCEPT !.state = "unread", !.msg = m, !.count = n]]

\* publish()
Publish(m) ==
  /\ \E e \in Available : stream' = Added(e, m, 0)
  /\ UNCHANGED <<retries, deadLetters, poisoned, consumer>>

------------------------------------------------------------------------------
\* ZRANGEBYSCORE of _promote_due_retries returned the members `due'.
RangeDueRetries(c, due) ==
  /\ consumer[c].pc = "idle"
  /\ due # {} /\ due \subseteq retries
  /\ consumer' = [consumer EXCEPT ![c] = [Resting EXCEPT !.pc = "promoting", !.due = due]]
  /\ UNCHANGED <<stream, retries, deadLetters, poisoned>>

Promoted(e, m) == Added(e, m.msg, m.count)

\* MULTI ZREM XADD.  The XADD happens even when another consumer's ZREM was
\* first, so two pollers promote one member twice.
PromoteOne(c, m) ==
  /\ consumer[c].pc = "promoting"
  /\ m \in consumer[c].due
  /\ retries' = retries \ {m}
  /\ \E e \in Available : stream' = Promoted(e, m)
  /\ consumer' = [consumer EXCEPT ![c].due = @ \ {m},
                                  ![c].pc = IF consumer[c].due = {m} THEN "fetching" ELSE @]
  /\ UNCHANGED <<deadLetters, poisoned>>

\* No entry is left for the model to add (bound): as if the members were not
\* due yet when the set was read.
PutOff(c) ==
  /\ consumer[c].pc = "promoting"
  /\ Available = {}
  /\ consumer' = [consumer EXCEPT ![c] = [Resting EXCEPT !.pc = "fetching"]]
  /\ UNCHANGED <<stream, retries, deadLetters, poisoned>>

Fetching(c) == consumer[c].pc \in {"idle", "fetching"}

Delivered(c, e) ==
  /\ stream' = [stream EXCEPT ![e] = [@ EXCEPT !.state = "pending", !.idle = FALSE]]
  /\ consumer' = [consumer EXCEPT ![c] =
       [Resting EXCEPT !.pc = "counting", !.entry = e, !.msg = stream[e].msg]]
  /\ UNCHANGED <<retries, deadLetters, poisoned>>

Reclaimable == {e \in Entries : stream[e].state = "pending" /\ stream[e].idle}

Unread == {e \in Entries : stream[e].state = "unread"}

\* XAUTOCLAIM of an entry idle for the visibility timeout, whoever holds it
Reclaim(c) ==
  /\ Fetching(c)
  /\ \E e \in Reclaimable : Delivered(c, e)

\* XREADGROUP, reached when XAUTOCLAIM returned nothing
ReadNew(c) ==
  /\ Fetching(c)
  /\ Reclaimable = {}
  /\ \E e \in Unread : Delivered(c, e)

FetchNothing(c) ==
  /\ consumer[c].pc = "fetching"
  /\ Reclaimable = {} /\ Unread = {}
  /\ consumer' = [consumer EXCEPT ![c] = Resting]
  /\ UNCHANGED <<stream, retries, deadLetters, poisoned>>

CountUp(n) == IF n < MaxCount THEN n + 1 ELSE n

Counted(e) == [stream EXCEPT ![e].count = CountUp(@)]

\* _next_delivery_count: HSETNX, HINCRBY.  When another consumer settled the
\* entry meanwhile, its counter is gone and starts again from the count the
\* entry was added with.
CountDelivery(c) ==
  LET e == consumer[c].entry IN
  /\ consumer[c].pc = "counting"
  /\ \E n \in IF stream[e].state = "free" THEN 1 .. MaxCount ELSE {CountUp(stream[e].count)} :
       consumer' = [consumer EXCEPT ![c].pc = "holding", ![c].count = n]
  /\ stream' = IF stream[e].state = "free" THEN stream ELSE Counted(e)
  /\ UNCHANGED <<retries, deadLetters, poisoned>>

\* Redis fails in _next_delivery_count, perhaps after the increment: the
\* TaskQueueError is caught together with the decoding errors, and the entry
\* is settled as QUEUE_MESSAGE_FIELDS_INVALID.
CountFails(c) ==
  LET e == consumer[c].entry IN
  /\ consumer[c].pc = "counting"
  /\ stream' \in {stream} \cup (IF stream[e].state = "free" THEN {} ELSE {Counted(e)})
  /\ consumer' = [consumer EXCEPT ![c].pc = "poisoning"]
  /\ UNCHANGED <<retries, deadLetters, poisoned>>

\* _settle_poison: HSETNX of a record that names the stream id only, before
\* the XACK.
WritePoison(c) ==
  /\ consumer[c].pc = "poisoning"
  /\ poisoned' = poisoned \cup {consumer[c].msg}
  /\ consumer' = [consumer EXCEPT ![c].pc = "xack"]
  /\ UNCHANGED <<stream, retries, deadLetters>>

Consume(c) ==
  \/ \E due \in SUBSET retries : RangeDueRetries(c, due)
  \/ \E m \in consumer[c].due : PromoteOne(c, m)
  \/ PutOff(c)
  \/ Reclaim(c)
  \/ ReadNew(c)
  \/ FetchNothing(c)
  \/ CountDelivery(c)
  \/ WritePoison(c)

------------------------------------------------------------------------------
\* XACK takes the entry off the pending list, whichever consumer it is
\* pending for; it returns 0 for an entry that is not pending.
Acked(e) ==
  [stream EXCEPT ![e] = IF @.state = "pending"
                        THEN [@ EXCEPT !.state = "acked", !.idle = FALSE]
                        ELSE @]

\* acknowledge(): XACK first
Acknowledge(c) ==
  /\ consumer[c].pc \in {"holding", "xack"}
  /\ stream' = Acked(consumer[c].entry)
  /\ consumer' = [consumer EXCEPT ![c].pc = "xdel"]
  /\ UNCHANGED <<retries, deadLetters, poisoned>>

\* XDEL, after a confirmed XACK or after XRANGE found the entry (a recreated
\* group has no pending entry for it).
Delete(c) ==
  /\ consumer[c].pc = "xdel"
  /\ stream' = [stream EXCEPT ![consumer[c].entry] = FreeEntry]
  /\ consumer' = [consumer EXCEPT ![c] = Resting]
  /\ UNCHANGED <<retries, deadLetters, poisoned>>

\* Mutant of Scheduled: the retry is not written before the XACK.
ScheduledLater(c) == retries

Scheduled(c) ==
  retries \cup {[msg |-> consumer[c].msg, count |-> consumer[c].count]}

\* retry(): ZADD before XACK
Retry(c) ==
  /\ consumer[c].pc = "holding"
  /\ retries' = Scheduled(c)
  /\ consumer' = [consumer EXCEPT ![c].pc = "xack"]
  /\ UNCHANGED <<stream, deadLetters, poisoned>>

\* dead_letter(): HSETNX under a deterministic field before XACK
DeadLetter(c) ==
  /\ consumer[c].pc = "holding"
  /\ deadLetters' = deadLetters \cup {consumer[c].msg}
  /\ consumer' = [consumer EXCEPT ![c].pc = "xack"]
  /\ UNCHANGED <<stream, retries, poisoned>>

Settling(c) == (consumer[c].pc = "xack" /\ Acknowledge(c)) \/ Delete(c)

\* The consumer crashes, or a command raises and the delivery is dropped
\* from memory.
LetGo(c) ==
  /\ consumer[c].pc # "idle"
  /\ consumer' = [consumer EXCEPT ![c] = Resting]
  /\ UNCHANGED <<stream, retries, deadLetters, poisoned>>

\* An entry has been pending for the visibility timeout.
VisibilityElapses(e) ==
  /\ stream[e].state = "pending" /\ ~stream[e].idle
  /\ stream' = [stream EXCEPT ![e].idle = TRUE]
  /\ UNCHANGED <<retries, deadLetters, poisoned, consumer>>

\* The group was lost and created again from "0-0": every entry still in the
\* stream is delivered again, the acknowledged ones included.
RecreateGroup ==
  /\ \E e \in Entries : stream[e].state \in {"pending", "acked"}
  /\ stream' = [e \in Entries |->
                  IF stream[e].state \in {"pending", "acked"}
                  THEN [stream[e] EXCEPT !.state = "unread", !.idle = FALSE]
                  ELSE stream[e]]
  /\ UNCHANGED <<retries, deadLetters, poisoned, consumer>>

\* A copy of message m that some consumer will get to.
HasCopy(m) ==
  \/ \E e \in Entries : Live(e) /\ stream[e].msg = m
  \/ \E r \in retries : r.msg = m
=============================================================================
